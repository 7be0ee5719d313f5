---------------------------- MODULE VisitProofs ----------------------------
(***************************************************************************)
(* Types, FenceInvariant and VisitInvariant are invariants of              *)
(* RunAdmission, for every set of runs and callers and every bound, and    *)
(* with them what the object promises of a visit: who may free the row,    *)
(* who may publish, what a stop, a pause, a spotlight visit and a          *)
(* maintenance operation may rely on.                                      *)
(*                                                                         *)
(* FenceInvariant: all but three actions are quiet, that is, they issue no *)
(* new claim, begin and settle nothing, and move the token or the row only *)
(* by executing a statement that was pending.  One lemma shows that a      *)
(* quiet step keeps the invariant; the three others (BeginRun,             *)
(* ClaimRefused and ReleaseSettles) are proved by themselves.              *)
(*                                                                         *)
(* VisitInvariant: each variable moves in a few ways only.  They are       *)
(* stated as one action per variable, and shown of every step; the parts   *)
(* of the invariant follow from those moves and not from the actions       *)
(* themselves.                                                             *)
(*                                                                         *)
(* The last part is about the terminal events: none is written twice while *)
(* no transition hangs, and none is missing once a run's journal is gone   *)
(* while no history is erased.                                             *)
(***************************************************************************)
EXTENDS RunAdmissionInvariant, VisitFenceRefinement, TLAPS

(***************************************************************************)
(* Types.                                                                  *)
(***************************************************************************)
\* What a behaviour may still contain only shrinks.
LEMMA LimitsType ==
  ASSUME TypeOK
  PROVE  /\ Fault /\ CountFault => limits' \in Allowances
         /\ limits.edits > 0 => [limits EXCEPT !.edits = @ - 1] \in Allowances
         /\ limits.crashes > 0 => [limits EXCEPT !.crashes = @ - 1] \in Allowances
         /\ limits.hangs > 0 => [limits EXCEPT !.hangs = @ - 1] \in Allowances
  BY DEF TypeOK, Allowances, Fault, CountFault

LEMMA NoJournalType == NoJournal \in Journals
  BY DEF NoJournal, Journals, RunOrNone

\* A statement writes a row and a participant document of the declared shape.
LEMMA ExecuteType ==
  ASSUME TypeOK, NEW c \in Calls, Execute(c)
  PROVE  row' \in Rows /\ bot' \in Bots
<1>1. row \in Rows /\ bot \in Bots
  BY DEF TypeOK
<1>2. \A l \in {"live", "expired"} : claimRuntimeRun(c, l) \in Rows
  BY <1>1 DEF claimRuntimeRun, Rows, Calls, RunOrNone
<1>3. \A l \in {"live", "expired"} : renewRuntimeRunLease(c, l) \in Rows
  BY <1>1 DEF renewRuntimeRunLease, Rows
<1>4. released(c) \in Rows
  BY <1>1 DEF released, releasedDue, Rows, Calls, RunOrNone
<1>5. consumeClaimToken(c) \in Rows
  BY <1>1 DEF consumeClaimToken, Rows, Calls, RunOrNone
<1>6. pauseBot(c) \in Rows
  BY <1>1 DEF pauseBot, Rows
<1>7. Leases(c.run) \subseteq {"live", "expired"}
  BY DEF Leases
<1>8. row' \in Rows
  BY <1>1, <1>2, <1>3, <1>4, <1>5, <1>6, <1>7
     DEF Execute, releaseRuntimeRun, releaseStaleRuntimeRun, Calls
<1>9. bot' \in Bots
  BY <1>1 DEF Execute, Bots
<1> QED
  BY <1>8, <1>9

LEMMA ReconcilerCallType ==
  ASSUME TypeOK, NEW s \in Slots
  PROVE  ReconcilerCall(s) \in Calls
<1>1. rec[s].j \in Journals
  BY DEF TypeOK, Reconcilers
<1> QED
  BY <1>1 DEF ReconcilerCall, Call, Calls, FinalStatus, Journals, RunOrNone, runKeepsStandingSchedule

LEMMA TransCallType ==
  ASSUME TypeOK
  PROVE  TransCall \in Calls
  BY DEF TypeOK, Transitions, TransCall, Call, Calls, RunOrNone

LEMMA RenewCallType ==
  ASSUME NEW r \in Runs
  PROVE  RenewCall(r) \in Calls
  BY DEF RenewCall, Call, Calls, RunOrNone

LEMMA ReconcilerType ==
  ASSUME TypeOK
  PROVE  /\ \A stop \in BOOLEAN : Reconciler(stop) \in Reconcilers
         /\ \A j \in Journals, n \in Nat : Finalizer(j, n) \in Reconcilers
         /\ Idle \in Reconcilers
<1>1. journal \in Journals /\ terminal \in [Runs -> Nat]
  BY DEF TypeOK
<1>2. \A j \in Journals, n \in Nat : Finalizer(j, n) \in Reconcilers
  BY DEF Finalizer, Reconcilers
<1>3. Idle \in Reconcilers
  BY NoJournalType DEF Idle, Reconcilers
<1> QED
  BY <1>1, <1>2, <1>3 DEF Reconciler, Reconcilers, Finalizer

\* finalizeRun and its effects keep their types.
LEMMA FinalizeRunType ==
  ASSUME TypeOK, NEW s \in Slots, NEW run \in RunOrNone, NEW type \in {"completed", "failed", "stopped"},
         NEW pause \in Nat, FinalizeRun(s, run, type, pause)
  PROVE  /\ journal' \in Journals /\ terminal' \in [Runs -> Nat] /\ alarm' \in BOOLEAN
         /\ aborted' \subseteq RunOrNone /\ activeRun' \in RunOrNone
         /\ rec' \in [Slots -> Reconcilers]
<1>1. CASE ~Active(run)
  BY <1>1 DEF FinalizeRun, TypeOK
<1>2. CASE Active(run)
  <2>1. journal' \in Journals
    BY <1>2 DEF FinalizeRun, TypeOK, finish, Journals
  <2>2. terminal' \in [Runs -> Nat]
    BY <1>2 DEF FinalizeRun, TypeOK, FirstTerminal
  <2>3. rec' \in [Slots -> Reconcilers]
    BY <1>2, <2>1, ReconcilerType DEF FinalizeRun, TypeOK
  <2>4. alarm' \in BOOLEAN /\ aborted' \subseteq RunOrNone /\ activeRun' \in RunOrNone
    BY <1>2 DEF FinalizeRun, TypeOK, RunOrNone
  <2> QED
    BY <2>1, <2>2, <2>3, <2>4
<1> QED
  BY <1>1, <1>2

\* A journal may be taken up by a reconciler of any slot.
LEMMA StartReconcileType ==
  ASSUME TypeOK, NEW s \in Slots, NEW stop \in BOOLEAN, NEW armed \in BOOLEAN,
         StartReconcile(s, stop, armed)
  PROVE  rec' \in [Slots -> Reconcilers] /\ alarm' \in BOOLEAN
  BY ReconcilerType DEF StartReconcile, ArmedAfter, TypeOK

LEMMA TransitionTypes ==
  ASSUME TypeOK
  PROVE  /\ Free \in Transitions
         /\ \A pc \in {"free", "reap", "reaped", "reapStopped", "reapStale", "reapContext",
                       "setup", "claiming", "claimed", "refused", "done", "stopRead", "stopping",
                       "stopAgain"} :
              [trans EXCEPT !.pc = pc] \in Transitions
  BY DEF TypeOK, Transitions, Free, RunOrNone

LEMMA TerminalType ==
  ASSUME TypeOK, NEW x \in RunOrNone
  PROVE  [terminal EXCEPT ![x] = @ + 1] \in [Runs -> Nat]
<1>1. CASE x \in Runs
  BY <1>1 DEF TypeOK
<1>2. CASE x \notin Runs
  <2>1. [terminal EXCEPT ![x] = @ + 1] = terminal
    BY <1>2 DEF TypeOK
  <2> QED
    BY <2>1 DEF TypeOK
<1> QED
  BY <1>1, <1>2

LEMMA ReconcileType ==
  ASSUME TypeOK, NEW s \in Slots, Reconcile(s)
  PROVE  TypeOK'
<1>1. CASE ContextArrives(s)
  <2>1. rec[s] \in Reconcilers
    BY DEF TypeOK
  <2> DEFINE ended == IF rec[s].stop THEN "stopped" ELSE "failed"
             final == IF Active(rec[s].j.run) THEN finish(ended) ELSE journal
  <2>2. final \in Journals
    BY DEF TypeOK, finish, Journals
  <2>3. journal' = final /\ terminal' = FirstTerminal(rec[s].j.run)
    BY <1>1 DEF ContextArrives
  <2>4. journal' \in Journals /\ terminal' \in [Runs -> Nat]
    BY <2>2, <2>3 DEF FirstTerminal, TypeOK
  <2>5. Finalizer(final, 1) \in Reconcilers /\ Idle \in Reconcilers
    BY <2>2, ReconcilerType
  <2>6. rec' \in [Slots -> Reconcilers] /\ alarm' \in BOOLEAN /\ trans' \in Transitions
    BY <1>1, <2>5, TransitionTypes DEF ContextArrives, Throws, TypeOK
  <2>7. Abort(rec[s].j.run) /\ rec[s].j.run \in RunOrNone
    BY <1>1, <2>1 DEF ContextArrives, Reconcilers, Journals
  <2>8. aborted' \subseteq RunOrNone /\ activeRun' \in RunOrNone
    BY <2>7 DEF Abort, TypeOK, RunOrNone
  <2> QED
    BY <1>1, <2>4, <2>6, <2>8 DEF ContextArrives, TypeOK
<1>2. CASE ContextFails(s)
  BY <1>2, ReconcilerType, LimitsType DEF ContextFails, TypeOK, Throws, Free, Transitions, RunOrNone
<1>3. CASE LateContextArrives(s)
  <2>1. Finalizer(rec[s].j, 1) \in Reconcilers
    BY ReconcilerType DEF TypeOK, Reconcilers
  <2>2. terminal' \in [Runs -> Nat]
    BY <1>3, TerminalType DEF LateContextArrives, TypeOK, Reconcilers, Journals
  <2> QED
    BY <1>3, <2>1, <2>2 DEF LateContextArrives, TypeOK
<1>4. CASE LateContextFails(s)
  BY <1>4, ReconcilerType, LimitsType DEF LateContextFails, TypeOK, stored
<1>5. CASE ReconcilerCallDone(s)
  <2>1. row' \in Rows /\ bot' \in Bots
    BY <1>5, ReconcilerCallType, ExecuteType DEF ReconcilerCallDone
  <2>2. [rec[s] EXCEPT !.pc = AfterCall(rec[s].pc)] \in Reconcilers
    BY DEF AfterCall, TypeOK, Reconcilers
  <2> DEFINE q == IF rec[s].pc = "pause" /\ bot.deleted THEN Idle
                  ELSE [rec[s] EXCEPT !.pc = AfterCall(rec[s].pc)]
  <2>3. q \in Reconcilers
    BY <2>2, ReconcilerType
  <2>4. rec' = [rec EXCEPT ![s] = q]
    BY <1>5 DEF ReconcilerCallDone
  <2>5. rec' \in [Slots -> Reconcilers]
    <3> HIDE DEF q
    <3> QED
      BY <2>3, <2>4 DEF TypeOK
  <2> QED
    BY <1>5, <2>1, <2>5 DEF ReconcilerCallDone, TypeOK, stored
<1>6. CASE ReconcilerCallFails(s)
  BY <1>6, ReconcilerType, ReconcilerCallType, LimitsType DEF ReconcilerCallFails, TypeOK, stored
<1>7. CASE ReleaseSettles(s)
  BY <1>7, ReconcilerType, NoJournalType DEF ReleaseSettles, TypeOK, RunOrNone
<1> QED
  BY <1>1, <1>2, <1>3, <1>4, <1>5, <1>6, <1>7 DEF Reconcile

LEMMA VisitType ==
  ASSUME TypeOK, NEW r \in Runs, Visit(r)
  PROVE  TypeOK'
<1>1. CASE BodyStarts(r)
  BY <1>1 DEF BodyStarts, TypeOK, Goto, stored, Bodies
<1>2. CASE BodyNeverStarts(r)
  BY <1>2, LimitsType DEF BodyNeverStarts, TypeOK, Goto, stored, Bodies
<1>3. CASE BodyProgresses(r)
  BY <1>3 DEF BodyProgresses, TypeOK, memory, Journals
<1>4. CASE BodyRenews(r)
  BY <1>4 DEF BodyRenews, TypeOK, Goto, stored, Bodies
<1>5. CASE RenewDone(r)
  BY <1>5, ExecuteType, RenewCallType DEF RenewDone, TypeOK, Goto, stored, Bodies
<1>6. CASE RenewFails(r)
  <2>1. late' \subseteq Calls /\ body' \in [Runs -> Bodies]
    BY <1>6, RenewCallType DEF RenewFails, Goto, Bodies, TypeOK
  <2>2. limits' \in Allowances
    BY <1>6, LimitsType DEF RenewFails
  <2>3. FinalizeRun(r, r, "failed", 0) /\ r \in Slots
    BY <1>6 DEF RenewFails, Slots
  <2>4. /\ journal' \in Journals /\ terminal' \in [Runs -> Nat] /\ alarm' \in BOOLEAN
        /\ aborted' \subseteq RunOrNone /\ activeRun' \in RunOrNone
        /\ rec' \in [Slots -> Reconcilers]
    BY <2>3, FinalizeRunType DEF RunOrNone
  <2> QED
    BY <1>6, <2>1, <2>2, <2>4 DEF RenewFails, TypeOK
<1>7. CASE BodyContinues(r)
  BY <1>7 DEF BodyContinues, TypeOK, Goto, stored, Bodies
<1>8. CASE BodyCompletes(r)
  BY <1>8, FinalizeRunType DEF BodyCompletes, TypeOK, Goto, Bodies, Slots, RunOrNone
<1>9. CASE BodyFails(r)
  BY <1>9, FinalizeRunType DEF BodyFails, TypeOK, Goto, Bodies, Slots, RunOrNone
<1>10. CASE BodyStops(r)
  BY <1>10, FinalizeRunType, RenewCallType DEF BodyStops, TypeOK, Goto, Bodies, Slots, RunOrNone
<1>11. CASE BodyEnds(r)
  BY <1>11 DEF BodyEnds, TypeOK, Goto, Bodies, RunOrNone
<1> QED
  BY <1>1, <1>2, <1>3, <1>4, <1>5, <1>6, <1>7, <1>8, <1>9, <1>10, <1>11 DEF Visit

LEMMA TransitionType ==
  ASSUME TypeOK, Transition
  PROVE  TypeOK'
<1>1. CASE RecoverStaleRun
  BY <1>1 DEF RecoverStaleRun, TypeOK, Free, Transitions, RunOrNone, stored
<1>2. CASE StopDecides
  <2>1. trans' \in Transitions
    BY <1>2, TransitionTypes DEF StopDecides, Step, TypeOK
  <2>2. stopReq' \in RunOrNone /\ aborted' \subseteq RunOrNone
    BY <1>2 DEF StopDecides, TypeOK, Transitions
  <2> QED
    BY <1>2, <2>1, <2>2 DEF StopDecides, TypeOK, Requeue
<1>3. CASE ReapStaleRun
  <2>1. CASE journal.kind # "none"
    <3>1. rec' \in [Slots -> Reconcilers] /\ alarm' \in BOOLEAN
      BY <1>3, <2>1, StartReconcileType
         DEF ReapStaleRun, StopRequested, Slots, TypeOK
    <3> QED
      BY <1>3, <2>1, <3>1, TransitionTypes DEF ReapStaleRun, Step, TypeOK, Requeue
  <2>2. CASE journal.kind = "none"
    <3>1. row.active \in RunOrNone
      BY DEF TypeOK, Rows
    <3>2. trans' \in Transitions
      BY <1>3, <2>2, <3>1 DEF ReapStaleRun, TypeOK, Transitions
    <3> QED
      BY <1>3, <2>2, <3>2 DEF ReapStaleRun, TypeOK, Requeue
  <2> QED
    BY <2>1, <2>2
<1>4. CASE ReapStoppedDone
  BY <1>4, ExecuteType, TransCallType DEF ReapStoppedDone, TypeOK, Step, Transitions, FirstTerminal, RunOrNone
<1>5. CASE ReapStaleDone
  BY <1>5, ExecuteType, TransCallType DEF ReapStaleDone, TypeOK, Step, Transitions, AbortReaped, RunOrNone
<1>6. CASE ReapContextArrives
  <2>1. terminal' \in [Runs -> Nat]
    BY <1>6, TerminalType DEF ReapContextArrives, TypeOK, Transitions
  <2>2. stopReq' \in RunOrNone /\ aborted' \subseteq RunOrNone
    BY <1>6 DEF ReapContextArrives, AbortReaped, TypeOK, RunOrNone
  <2> QED
    BY <1>6, <2>1, <2>2, TransitionTypes DEF ReapContextArrives, Step, TypeOK, Requeue
<1>7. CASE AdmissionChecks
  <2>1. trans' \in Transitions
    BY <1>7, TransitionTypes DEF AdmissionChecks, Step
  <2> QED
    BY <1>7, <2>1 DEF AdmissionChecks, TypeOK, Requeue, stored
<1>8. CASE BeginRun
  <2>1. row.token \in RunOrNone /\ trans.run \in RunOrNone /\ bot.rev \in Nat
    BY DEF TypeOK, Rows, Transitions, Bots
  <2>2. journal' \in Journals
    BY <1>8, <2>1, NoJournalType DEF BeginRun, Journals
  <2>3. trans' \in Transitions
    BY <1>8, <2>1 DEF BeginRun, TypeOK, Transitions
  <2>4. body' \in [Runs -> Bodies]
    BY <1>8, <2>1 DEF BeginRun, TypeOK, Bodies
  <2> QED
    BY <1>8, <2>2, <2>3, <2>4 DEF BeginRun, TypeOK
<1>9. CASE ClaimDone
  BY <1>9, ExecuteType, TransCallType DEF ClaimDone, TypeOK, Step, Transitions, stored
<1>10. CASE ClaimFails
  <2>1. late' \subseteq Calls /\ trans' \in Transitions
    BY <1>10, TransCallType, TransitionTypes DEF ClaimFails, Step, TypeOK
  <2>2. body' \in [Runs -> Bodies]
    BY <1>10 DEF ClaimFails, Goto, Bodies, TypeOK
  <2>3. limits' \in Allowances
    BY <1>10, LimitsType DEF ClaimFails
  <2>4. /\ journal' \in Journals /\ terminal' \in [Runs -> Nat] /\ alarm' \in BOOLEAN
        /\ aborted' \subseteq RunOrNone /\ activeRun' \in RunOrNone
        /\ rec' \in [Slots -> Reconcilers]
    BY <1>10, FinalizeRunType DEF ClaimFails, Slots, TypeOK, Transitions
  <2> QED
    BY <1>10, <2>1, <2>2, <2>3, <2>4 DEF ClaimFails, TypeOK
<1>11. CASE ClaimRefused
  BY <1>11, NoJournalType DEF ClaimRefused, TypeOK, Goto, Bodies, Free, Transitions, RunOrNone
<1>12. CASE Admitted
  BY <1>12 DEF Admitted, TypeOK, Goto, Bodies, Free, Transitions, RunOrNone
<1>13. CASE MaintenanceChecks
  BY <1>13 DEF MaintenanceChecks, TypeOK, Free, Transitions, RunOrNone, Requeue, stored
<1>14. CASE MarkRunStopped
  <2>1. trans' \in Transitions
    BY <1>14, TransitionTypes DEF MarkRunStopped, Step
  <2>2. terminal' \in [Runs -> Nat] /\ stopReq' \in RunOrNone
    BY <1>14 DEF MarkRunStopped, TypeOK, FirstTerminal, RunOrNone
  <2> QED
    BY <1>14, <2>1, <2>2, ExecuteType, TransCallType DEF MarkRunStopped, TypeOK
<1>15. CASE TransEnds
  BY <1>15 DEF TransEnds, TypeOK, Free, Transitions, RunOrNone, Requeue, stored
<1>16. CASE TransFails
  BY <1>16, TransCallType, LimitsType DEF TransFails, TypeOK, Free, Transitions, RunOrNone, stored
<1>17. CASE MaintenanceDone
  <2>1. CASE maint = "compact"
    BY <1>17, <2>1 DEF MaintenanceDone, TypeOK, stored
  <2>2. CASE maint # "compact"
    <3>1. terminal' \in [Runs -> Nat] /\ cleared' \in BOOLEAN
      BY <1>17, <2>2 DEF MaintenanceDone, TypeOK
    <3>2. journal' \in Journals /\ stopReq' \in RunOrNone
      BY <1>17, <2>2, NoJournalType DEF MaintenanceDone, RunOrNone
    <3> QED
      BY <1>17, <2>2, <3>1, <3>2 DEF MaintenanceDone, TypeOK
  <2> QED
    BY <2>1, <2>2
<1>18. CASE MaintenanceFails
  BY <1>18, LimitsType DEF MaintenanceFails, TypeOK, stored
<1>19. CASE StopReadsAgain
  BY <1>19, TransitionTypes DEF StopReadsAgain, TypeOK, Transitions, Requeue
<1> QED
  BY <1>19, <1>1, <1>2, <1>3, <1>4, <1>5, <1>6, <1>7, <1>8, <1>9, <1>10, <1>11, <1>12, <1>13, <1>14, <1>15, <1>16, <1>17, <1>18 DEF Transition

\* The requests, the clock, the owner and the faults.
LEMMA RequestType ==
  ASSUME TypeOK,
         \/ \E r \in Runs : AdmitTick(r)
         \/ \E op \in MaintOps : BeginMaintenance(op)
         \/ \E c \in Callers : Request(c)
         \/ AlarmFires
  PROVE  TypeOK'
<1>1. ASSUME NEW r \in Runs, AdmitTick(r) PROVE TypeOK'
  <2>1. rec' \in [Slots -> Reconcilers] /\ alarm' \in BOOLEAN
    BY <1>1, StartReconcileType DEF AdmitTick, StopRequested, Slots, TypeOK
  <2>2. [Free EXCEPT !.op = "admit", !.pc = "reap", !.run = r] \in Transitions
    BY DEF Free, Transitions, RunOrNone
  <2> QED
    BY <1>1, <2>1, <2>2 DEF AdmitTick, TypeOK
<1>2. ASSUME NEW op \in MaintOps, BeginMaintenance(op) PROVE TypeOK'
  BY <1>2 DEF BeginMaintenance, TypeOK, Free, Transitions, RunOrNone, stored
<1>3. ASSUME NEW c \in Callers, StopTick(c) PROVE TypeOK'
  <2>1. rec' \in [Slots -> Reconcilers] /\ alarm' \in BOOLEAN
    BY <1>3, StartReconcileType DEF StopTick, Slots, TypeOK
  <2> QED
    BY <1>3, <2>1 DEF StopTick, TypeOK, Journals
<1>4. ASSUME NEW c \in Callers, RecoverJournal(c) PROVE TypeOK'
  <2>1. rec' \in [Slots -> Reconcilers] /\ alarm' \in BOOLEAN
    BY <1>4, StartReconcileType DEF RecoverJournal, StopRequested, Slots, TypeOK
  <2> QED
    BY <1>4, <2>1 DEF RecoverJournal, TypeOK
<1>5. CASE AlarmFires
  <2>1. rec' \in [Slots -> Reconcilers] /\ alarm' \in BOOLEAN
    BY <1>5, StartReconcileType DEF AlarmFires, StopRequested, Slots, TypeOK
  <2> QED
    BY <1>5, <2>1 DEF AlarmFires, TypeOK
<1>6. [Idle EXCEPT !.pc = "queued"] \in Reconcilers /\ Idle \in Reconcilers
  BY ReconcilerType DEF Idle, Reconcilers
<1>7. ASSUME NEW c \in Callers, StopQueues(c) \/ StopFindsNothing(c) PROVE TypeOK'
  BY <1>6, <1>7 DEF StopQueues, StopFindsNothing, TypeOK, stored
<1>8. ASSUME NEW c \in Callers, StopReadsRow(c) PROVE TypeOK'
  <2>1. row.active \in RunOrNone
    BY DEF TypeOK, Rows
  <2>2. [Free EXCEPT !.op = "stop", !.pc = "stopRead", !.victim = row.active,
              !.propose = ~runKeepsStandingSchedule(row.active)] \in Transitions
    BY <2>1 DEF Free, Transitions, RunOrNone, runKeepsStandingSchedule
  <2>3. trans' \in Transitions /\ rec' \in [Slots -> Reconcilers]
    BY <1>6, <1>8, <2>2 DEF StopReadsRow, TypeOK
  <2> QED
    BY <1>8, <2>3 DEF StopReadsRow, TypeOK, stored, Requeue
<1> QED
  BY <1>1, <1>2, <1>3, <1>4, <1>5, <1>7, <1>8 DEF Request

LEMMA ClockOwnerType ==
  ASSUME TypeOK, InactivityElapses \/ LeaseElapses \/ Owner
  PROVE  TypeOK'
<1>1. CASE InactivityElapses
  BY <1>1 DEF InactivityElapses, TypeOK, Journals, Rows, memory
<1>2. CASE LeaseElapses
  BY <1>2 DEF LeaseElapses, TypeOK, Rows, memory, stored
<1>3. ASSUME NEW r \in Rows, NEW deleted \in BOOLEAN, Edit(r, deleted) PROVE TypeOK'
  BY <1>3, LimitsType DEF Edit, TypeOK, Bots, memory, stored
<1>4. /\ [row EXCEPT !.enabled = FALSE, !.due = "none"] \in Rows
      /\ [row EXCEPT !.enabled = TRUE, !.due = IF @ = "none" THEN "owner" ELSE @] \in Rows
      /\ [row EXCEPT !.due = "owner"] \in Rows
      /\ [row EXCEPT !.enabled = FALSE, !.status = "idle", !.active = NoRun,
                     !.lease = "none", !.due = "none"] \in Rows
  BY DEF TypeOK, Rows, RunOrNone
<1>5. CASE Owner
  BY <1>3, <1>4, <1>5 DEF Owner, OwnerPauses, OwnerResumes, OwnerReschedules, OwnerDeletes
<1> QED
  BY <1>1, <1>2, <1>5

LEMMA FaultType ==
  ASSUME TypeOK, LateCall \/ Crash \/ AbortHungTransition
  PROVE  TypeOK'
<1>1. CASE LateCall
  BY <1>1, ExecuteType DEF LateCall, TypeOK, stored, memory
<1>2. InFlight \subseteq Calls
  BY ReconcilerCallType, RenewCallType, TransCallType DEF InFlight
<1>3. ASSUME Reset
      PROVE  /\ late' \subseteq Calls /\ activeRun' \in RunOrNone /\ aborted' \subseteq RunOrNone
             /\ maint' \in MaintOps \cup {NoMaint} /\ body' \in [Runs -> Bodies]
             /\ rec' \in [Slots -> Reconcilers] /\ trans' \in Transitions
  <2>1. body' \in [Runs -> Bodies]
    BY <1>3 DEF Reset, TypeOK, Bodies
  <2> QED
    BY <1>2, <1>3, <2>1, ReconcilerType, TransitionTypes DEF Reset, TypeOK, RunOrNone
<1>4. CASE Crash
  BY <1>3, <1>4, LimitsType DEF Crash, Reset, TypeOK
<1>5. CASE AbortHungTransition
  <2>1. journal' \in Journals
    BY <1>5 DEF AbortHungTransition, TypeOK, finish, Journals
  <2> QED
    BY <1>3, <1>5, <2>1, LimitsType DEF AbortHungTransition, Reset, TypeOK
<1> QED
  BY <1>1, <1>4, <1>5

LEMMA InitType == Init => TypeOK
<1> SUFFICES ASSUME Init PROVE TypeOK
  OBVIOUS
<1>1. row \in Rows
  BY RunsAssumption DEF Init, Rows, RunOrNone
<1>2. body \in [Runs -> Bodies]
  BY DEF Init, Bodies
<1>3. Idle \in Reconcilers /\ Free \in Transitions
  BY NoJournalType DEF Idle, Free, Reconcilers, Transitions, RunOrNone
<1>4. limits \in Allowances
  BY LimitsAssumption DEF Init
<1> QED
  BY <1>1, <1>2, <1>3, <1>4, NoJournalType DEF Init, TypeOK, Bots, Rows, RunOrNone

LEMMA NextType == TypeOK /\ [Next]_vars => TypeOK'
<1> SUFFICES ASSUME TypeOK, [Next]_vars PROVE TypeOK'
  OBVIOUS
<1>1. CASE UNCHANGED vars
  BY <1>1 DEF vars, stored, memory, TypeOK
<1>2. CASE Next
  BY <1>2, RequestType, VisitType, ReconcileType, TransitionType, ClockOwnerType, FaultType DEF Next
<1> QED
  BY <1>1, <1>2

\* Every variable keeps its type, whatever the bounds.
THEOREM TypeCorrect == Spec => []TypeOK
  BY InitType, NextType, PTL DEF Spec

(***************************************************************************)
(* Quiet steps.                                                            *)
(***************************************************************************)
SameRead(s) == /\ rec'[s].j.run = rec[s].j.run
               /\ rec'[s].j.claim = rec[s].j.claim

QuietRow ==
  /\ row'.token = row.token \/ WritePending(row'.token, row.token)
  /\ \A q \in Runs : HeldBy(q)' => HeldBy(q) \/ ClaimPending(q, row.token)
  /\ RowShape'

QuietLate ==
  \A c \in late' :
    /\ c.op = "claim" => c \in late \/ (/\ trans.pc = "claiming"
                                        /\ c.run = trans.run /\ c.expect = trans.expect)
    /\ c.op = "fence" => c \in late \/ \E s \in Slots : /\ Busy(s)
                                                        /\ c.run = rec[s].j.run
                                                        /\ c.expect = rec[s].j.claim

QuietJournal ==
  /\ journal'.run = journal.run
  /\ journal'.kind = "none" <=> journal.kind = "none"
  /\ journal.kind # "none" => journal'.claim = journal.claim

QuietRec ==
  \A s \in Slots :
    /\ Busy(s)' => \/ Busy(s) /\ SameRead(s)
                   \/ /\ journal.kind # "none"
                      /\ rec'[s].j.run = journal.run /\ rec'[s].j.claim = journal.claim
    /\ rec'[s].pc \in {"release", "released"}
         => \/ rec[s].pc \in {"release", "released"} /\ SameRead(s)
            \/ row'.token # rec'[s].j.claim
    /\ rec'[s].pc = "released"
         => \/ rec[s].pc = "released" /\ SameRead(s)
            \/ ~(Running' /\ row'.active = rec'[s].j.run)

QuietBody == \A r \in Runs : Unborn(r)' => Unborn(r)

QuietTrans ==
  /\ trans'.pc = "claiming" => trans' = trans
  /\ trans'.pc \in {"claiming", "claimed", "refused"} =>
       /\ trans.pc \in {"claiming", "claimed", "refused"} /\ trans'.run = trans.run
       /\ \A c \in late' : c.op = "claim" => c \in late
       /\ trans'.pc # "claimed" => trans.pc # "claimed" /\ ~HeldBy(trans.run)'

Quiet == QuietRow /\ QuietLate /\ QuietJournal /\ QuietRec /\ QuietBody /\ QuietTrans

\* The shapes of what the object remembers.
Shapes == AdmissionShape /\ MaintenanceShape /\ SetupShape

LEMMA QuietPending ==
  ASSUME TypeOK, Quiet, NEW x \in RunOrNone, NEW t \in RunOrNone
  PROVE  /\ ClaimPending(x, t)' => ClaimPending(x, t)
         /\ WritePending(x, t)' => WritePending(x, t)
<1>1. ClaimPending(x, t)' => ClaimPending(x, t)
  BY DEF Quiet, QuietLate, QuietTrans, ClaimPending
<1>2. ASSUME NEW c \in late', c.op = "fence", c.run = x, c.expect = t
      PROVE  WritePending(x, t)
  BY <1>2 DEF Quiet, QuietLate, WritePending
<1>3. (journal'.kind # "none" /\ journal'.run = x /\ journal'.claim = t) => WritePending(x, t)
  BY DEF Quiet, QuietJournal, WritePending
<1>4. ASSUME NEW s \in Slots, Busy(s)', rec'[s].j.run = x, rec'[s].j.claim = t
      PROVE  WritePending(x, t)
  BY <1>4 DEF Quiet, QuietRec, SameRead, WritePending
<1>5. ClaimPending(x, t)' => WritePending(x, t)
  BY <1>1 DEF WritePending
<1> QED
  BY <1>1, <1>2, <1>3, <1>4, <1>5 DEF WritePending, Busy

\* A quiet step keeps everything that is said of tokens, claims and rows.
LEMMA QuietKeeps ==
  ASSUME FenceInvariant, Quiet, TypeOK'
  PROVE  /\ JournalShape' /\ RowShape' /\ UnbornIsFresh' /\ WritesAreRuns'
         /\ TokenNeverReturns' /\ ClaimIsDeadOrCurrent' /\ ReconcilerKnowsToken'
         /\ FencedBeforeRelease' /\ FreeWhenReleased' /\ ClaimIsSingle'
         /\ RunningRowIsJournaled'
<1> USE DEF FenceInvariant
<1>1. /\ row.token \in RunOrNone /\ row'.token \in RunOrNone
      /\ journal.run \in RunOrNone /\ journal.claim \in RunOrNone
      /\ journal'.run \in RunOrNone /\ journal'.claim \in RunOrNone
      /\ \A s \in Slots : /\ rec[s].j.run \in RunOrNone /\ rec[s].j.claim \in RunOrNone
                          /\ rec'[s].j.run \in RunOrNone /\ rec'[s].j.claim \in RunOrNone
  BY DEF TypeOK, Rows, Journals, Reconcilers
<1>2. Runs \subseteq RunOrNone /\ NoRun \notin Runs
  BY RunsAssumption DEF RunOrNone
<1>3. JournalShape'
  BY DEF JournalShape, Quiet, QuietJournal
<1>4. RowShape'
  BY DEF Quiet, QuietRow
<1>5. UnbornIsFresh'
  <2> SUFFICES ASSUME NEW r \in Runs, Unborn(r)'
               PROVE  /\ row'.token # r /\ ~HeldBy(r)'
                      /\ \A x, t \in RunOrNone : WritePending(x, t)' => x # r /\ t # r
    BY DEF UnbornIsFresh
  <2>1. Unborn(r)
    BY DEF Quiet, QuietBody
  <2>2. \A x, t \in RunOrNone : WritePending(x, t) => x # r /\ t # r
    BY <2>1 DEF UnbornIsFresh
  <2>3. row'.token # r
    BY <1>1, <2>1, <2>2 DEF Quiet, QuietRow, UnbornIsFresh
  <2>4. ~HeldBy(r)'
    BY <1>1, <1>2, <2>1, <2>2 DEF Quiet, QuietRow, UnbornIsFresh, WritePending
  <2> QED
    BY <2>2, <2>3, <2>4, QuietPending
<1>6. WritesAreRuns'
  BY QuietPending DEF WritesAreRuns, RunOrNone
<1>7. TokenNeverReturns'
  <2> SUFFICES ASSUME NEW x \in RunOrNone, NEW y \in RunOrNone,
                      WritePending(x, row.token)', WritePending(y, x)'
               PROVE  FALSE
    BY DEF TokenNeverReturns, RunOrNone
  <2>1. WritePending(x, row'.token) /\ WritePending(y, x)
    BY <1>1, QuietPending
  <2>2. CASE row'.token = row.token
    BY <2>1, <2>2 DEF TokenNeverReturns
  <2>3. CASE WritePending(row'.token, row.token)
    BY <1>1, <2>1, <2>3 DEF TokenNeverReturns
  <2> QED
    BY <2>2, <2>3 DEF Quiet, QuietRow
<1>8. ClaimIsDeadOrCurrent'
  <2> SUFFICES ASSUME NEW x \in RunOrNone, ClaimPending(x, row.token)'
               PROVE  journal'.run = x /\ journal'.claim = row'.token
    BY DEF ClaimIsDeadOrCurrent, RunOrNone
  <2>1. ClaimPending(x, row'.token) /\ WritePending(x, row'.token)
    BY <1>1, QuietPending DEF WritePending
  <2>2. row'.token = row.token
    BY <1>1, <2>1 DEF Quiet, QuietRow, TokenNeverReturns
  <2>3. journal.run = x /\ journal.claim = row.token /\ x \in Runs
    BY <1>1, <2>1, <2>2 DEF ClaimIsDeadOrCurrent, WritesAreRuns
  <2> QED
    BY <1>2, <2>2, <2>3 DEF Quiet, QuietJournal, JournalShape
<1>9. ReconcilerKnowsToken'
  <2> SUFFICES ASSUME NEW s \in Slots, Busy(s)', rec'[s].j.run = journal'.run
               PROVE  rec'[s].j.claim = journal'.claim
    BY DEF ReconcilerKnowsToken, Slots
  <2>1. CASE Busy(s) /\ SameRead(s)
    <3>1. rec[s].j.run = journal.run /\ rec[s].j.claim = journal.claim
      BY <2>1 DEF SameRead, Quiet, QuietJournal, ReconcilerKnowsToken
    <3>2. journal.run \in Runs
      BY <1>1, <2>1, <3>1 DEF WritesAreRuns, WritePending
    <3> QED
      BY <1>2, <2>1, <3>1, <3>2 DEF SameRead, Quiet, QuietJournal, JournalShape
  <2>2. CASE journal.kind # "none" /\ rec'[s].j.claim = journal.claim
    BY <2>2 DEF Quiet, QuietJournal
  <2> QED
    BY <2>1, <2>2 DEF Quiet, QuietRec
<1>10. FencedBeforeRelease'
  <2> SUFFICES ASSUME NEW s \in Slots, rec'[s].pc \in {"release", "released"}
               PROVE  row'.token # rec'[s].j.claim
    BY DEF FencedBeforeRelease, Slots
  <2>1. CASE rec[s].pc \in {"release", "released"} /\ SameRead(s)
    <3>1. WritePending(rec[s].j.run, rec[s].j.claim) /\ row.token # rec[s].j.claim
      BY <2>1 DEF WritePending, Busy, FencedBeforeRelease
    <3>2. row'.token # rec[s].j.claim
      BY <1>1, <3>1 DEF Quiet, QuietRow, TokenNeverReturns
    <3> QED
      BY <2>1, <3>2 DEF SameRead
  <2> QED
    BY <2>1 DEF Quiet, QuietRec
<1>11. FreeWhenReleased'
  <2> SUFFICES ASSUME NEW s \in Slots, rec'[s].pc = "released", rec'[s].j.run = journal'.run
               PROVE  ~(Running' /\ row'.active = rec'[s].j.run)
    BY DEF FreeWhenReleased, HeldBy, Slots
  <2>1. CASE rec[s].pc = "released" /\ SameRead(s)
    <3>1. rec[s].j.run = journal.run /\ rec'[s].j.run = journal.run /\ Busy(s)
      BY <2>1 DEF SameRead, Quiet, QuietJournal, Busy
    <3>2. journal.run \in Runs
      BY <1>1, <3>1 DEF WritesAreRuns, WritePending
    <3>3. ~HeldBy(journal.run) /\ row.token # journal.claim
      BY <2>1, <3>1 DEF FreeWhenReleased, FencedBeforeRelease, ReconcilerKnowsToken
    <3>4. ~ClaimPending(journal.run, row.token)
      BY <1>1, <3>3 DEF ClaimIsDeadOrCurrent
    <3>5. \A q \in Runs : q = journal.run => ~(Running' /\ row'.active = q)
      BY <3>3, <3>4 DEF Quiet, QuietRow, HeldBy
    <3> QED
      BY <3>1, <3>2, <3>5
  <2> QED
    BY <2>1 DEF Quiet, QuietRec
<1>12. ClaimIsSingle'
  BY DEF ClaimIsSingle, Quiet, QuietTrans, HeldBy
<1>13. RunningRowIsJournaled'
  <2> SUFFICES ASSUME Running', row'.active # Legacy
               PROVE  journal'.run = row'.active
    BY DEF RunningRowIsJournaled
  <2>1. PICK q \in Runs : q = row'.active
    BY <1>4 DEF RowShape
  <2>2. HeldBy(q) \/ ClaimPending(q, row.token)
    BY <2>1 DEF Quiet, QuietRow, HeldBy
  <2>3. CASE HeldBy(q)
    BY <2>1, <2>3 DEF HeldBy, RunningRowIsJournaled, Quiet, QuietJournal
  <2>4. CASE ClaimPending(q, row.token)
    BY <1>2, <2>1, <2>4 DEF ClaimIsDeadOrCurrent, Quiet, QuietJournal
  <2> QED
    BY <2>2, <2>3, <2>4
<1> QED
  BY <1>3, <1>4, <1>5, <1>6, <1>7, <1>8, <1>9, <1>10, <1>11, <1>12, <1>13

(***************************************************************************)
(* The pieces quiet steps are made of.                                     *)
(***************************************************************************)
\* A row that nothing claims.
LEMMA StillRow ==
  ASSUME FenceInvariant, row'.token = row.token,
         row'.status = row.status /\ row'.active = row.active
  PROVE  QuietRow /\ \A q \in Runs : HeldBy(q)' => HeldBy(q)
  BY DEF FenceInvariant, QuietRow, HeldBy, RowShape, Running

LEMMA FreedRow ==
  ASSUME FenceInvariant, row'.token = row.token, row'.status # "running", row'.active = NoRun
  PROVE  QuietRow /\ \A q \in Runs : HeldBy(q)' => HeldBy(q)
  BY DEF FenceInvariant, QuietRow, HeldBy, RowShape, Running

\* Executing a pending statement, whichever it is.
LEMMA ExecuteQuiet ==
  ASSUME FenceInvariant, NEW c \in Calls, Execute(c),
         c.op = "claim" => ClaimPending(c.run, c.expect),
         c.op = "fence" => WritePending(c.run, c.expect)
  PROVE  /\ QuietRow
         /\ c.op # "claim" => \A q \in Runs : HeldBy(q)' => HeldBy(q)
<1> USE DEF FenceInvariant
<1>1. row \in Rows /\ c.run \in RunOrNone /\ c.expect \in RunOrNone
  BY DEF TypeOK, Calls
<1>2. CASE c.op = "claim"
  <2>1. c.run \in Runs /\ WritePending(c.run, c.expect)
    BY <1>1, <1>2 DEF WritesAreRuns, WritePending
  <2>2. PICK l \in Leases(c.run) : row' = claimRuntimeRun(c, l)
    BY <1>2 DEF Execute
  <2>3. CASE claimGuard(c)
    <3>1. row'.token = c.run /\ row'.active = c.run /\ row'.status = "running" /\ row.token = c.expect
      BY <1>1, <2>2, <2>3 DEF claimRuntimeRun, claimGuard, Rows
    <3> QED
      BY <1>2, <2>1, <3>1 DEF QuietRow, HeldBy, RowShape, Running
  <2>4. CASE ~claimGuard(c)
    BY <1>2, <2>2, <2>4, StillRow DEF claimRuntimeRun
  <2> QED
    BY <2>3, <2>4
<1>3. CASE c.op = "fence"
  <2>1. row' = consumeClaimToken(c)
    BY <1>3 DEF Execute
  <2>2. row'.status = row.status /\ row'.active = row.active
    BY <1>1, <2>1 DEF consumeClaimToken, Rows
  <2>3. row'.token = row.token \/ (row'.token = c.run /\ row.token = c.expect)
    BY <1>1, <2>1 DEF consumeClaimToken, Rows
  <2> QED
    BY <1>3, <2>2, <2>3 DEF QuietRow, HeldBy, RowShape, Running
<1>4. CASE c.op \in {"release", "reap"}
  <2>1. row' = row \/ row' = released(c)
    BY <1>4 DEF Execute, releaseRuntimeRun, releaseStaleRuntimeRun
  <2>2. CASE row' = released(c)
    <3>1. row'.token = row.token /\ row'.status # "running" /\ row'.active = NoRun
      BY <1>1, <2>2 DEF released, Rows, Calls
    <3> QED
      BY <3>1, FreedRow DEF HeldBy, Running
  <2> QED
    BY <2>1, <2>2, StillRow DEF HeldBy, Running
<1>5. CASE c.op \in {"renew", "pause"}
  <2>1. row'.token = row.token /\ row'.status = row.status /\ row'.active = row.active
    BY <1>1, <1>5 DEF Execute, renewRuntimeRunLease, pauseBot, Rows
  <2> QED
    BY <2>1, StillRow DEF HeldBy, Running
<1> QED
  BY <1>2, <1>3, <1>4, <1>5 DEF Calls

LEMMA Starts ==
  ASSUME TypeOK
  PROVE  /\ \A stop \in BOOLEAN :
              /\ Reconciler(stop).pc \notin {"release", "released"}
              /\ Reconciler(stop).pc # "idle" => journal.kind # "none" /\ Reconciler(stop).j = journal
         /\ \A j \in Journals, n \in Nat :
              Finalizer(j, n).pc \in {"lateContext", "pause", "fence"} /\ Finalizer(j, n).j = j
         /\ Idle.pc = "idle"
  BY DEF Reconciler, Finalizer, Idle

\* One slot starts over, or goes idle.
LEMMA StepRec ==
  ASSUME TypeOK, NEW s \in Slots, NEW x \in Reconcilers, rec' = [rec EXCEPT ![s] = x],
         x.pc \notin {"release", "released"},
         x.pc \notin {"idle", "queued"} =>
           /\ journal.kind # "none"
           /\ x.j.run = journal.run /\ x.j.claim = journal.claim
  PROVE  QuietRec
  BY DEF TypeOK, QuietRec, Busy, SameRead

LEMMA StillRec ==
  ASSUME rec' = rec
  PROVE  QuietRec
  BY DEF QuietRec, Busy, SameRead

LEMMA StillRest ==
  /\ late' \subseteq late => QuietLate
  /\ UNCHANGED journal => QuietJournal
  /\ UNCHANGED body => QuietBody
  /\ FenceInvariant /\ UNCHANGED trans /\ late' \subseteq late
       /\ (\A q \in Runs : HeldBy(q)' => HeldBy(q)) => QuietTrans
  /\ trans'.pc \notin {"claiming", "claimed", "refused"} => QuietTrans
<1>1. late' \subseteq late => QuietLate
  BY DEF QuietLate
<1>2. UNCHANGED journal => QuietJournal
  BY DEF QuietJournal
<1>3. UNCHANGED body => QuietBody
  BY DEF QuietBody, Unborn, At
<1>4. trans'.pc \notin {"claiming", "claimed", "refused"} => QuietTrans
  BY DEF QuietTrans
<1>5. ASSUME FenceInvariant, UNCHANGED trans, late' \subseteq late,
             \A q \in Runs : HeldBy(q)' => HeldBy(q)
      PROVE  QuietTrans
  BY <1>5 DEF QuietTrans, FenceInvariant, AdmissionShape, ClaimIsSingle
<1> QED
  BY <1>1, <1>2, <1>3, <1>4, <1>5

\* The shapes of a step that moves no admission.
LEMMA StillShapes ==
  ASSUME FenceInvariant,
         trans' = trans \/ trans' = Free,
         \A q \in Runs : Unborn(q)' <=> Unborn(q),
         maint' = maint \/ maint' = NoMaint,
         QuietJournal
  PROVE  Shapes'
<1>1. CASE trans' = trans
  BY <1>1 DEF FenceInvariant, Shapes, AdmissionShape, MaintenanceShape, SetupShape, QuietJournal
<1>2. CASE trans' = Free
  BY <1>2 DEF FenceInvariant, Shapes, AdmissionShape, MaintenanceShape, SetupShape, QuietJournal, Free
<1> QED
  BY <1>1, <1>2

\* finalizeRun closes the journal it finds, and makes one slot start over.
LEMMA FinalizeRunQuiet ==
  ASSUME TypeOK, NEW s \in Slots, NEW run \in Runs, NEW type \in {"completed", "failed", "stopped"},
         NEW pause \in Nat, FinalizeRun(s, run, type, pause)
  PROVE  QuietJournal /\ QuietRec
<1>1. CASE ~Active(run)
  BY <1>1, StillRec, StillRest DEF FinalizeRun
<1>2. CASE Active(run)
  <2>1. /\ journal' \in Journals /\ journal'.kind = "finalizing"
        /\ journal'.run = journal.run /\ journal'.claim = journal.claim
    BY <1>2 DEF FinalizeRun, TypeOK, finish, Journals
  <2>2. QuietJournal /\ journal.kind # "none"
    BY <1>2, <2>1 DEF QuietJournal, Active
  <2>3. rec' = [rec EXCEPT ![s] = Finalizer(journal', 1)]
    BY <1>2 DEF FinalizeRun
  <2>4. Finalizer(journal', 1) \in Reconcilers
    BY <2>1, ReconcilerType
  <2>5. Finalizer(journal', 1).pc \notin {"release", "released"} /\ Finalizer(journal', 1).j = journal'
    BY <2>1, Starts
  <2>6. QuietRec
    BY <2>1, <2>2, <2>3, <2>4, <2>5, StepRec
  <2> QED
    BY <2>2, <2>6
<1> QED
  BY <1>1, <1>2

LEMMA StartReconcileQuiet ==
  ASSUME TypeOK, NEW s \in Slots, NEW stop \in BOOLEAN, NEW armed \in BOOLEAN,
         StartReconcile(s, stop, armed)
  PROVE  QuietRec
<1>1. Reconciler(stop) \in Reconcilers
  BY ReconcilerType
<1>2. rec' = [rec EXCEPT ![s] = Reconciler(stop)]
  BY DEF StartReconcile
<1>3. /\ Reconciler(stop).pc \notin {"release", "released"}
      /\ Reconciler(stop).pc # "idle" => journal.kind # "none" /\ Reconciler(stop).j = journal
  BY Starts
<1> QED
  BY <1>1, <1>2, <1>3, StepRec

LEMMA IdleRec ==
  ASSUME TypeOK, NEW s \in Slots, rec' = [rec EXCEPT ![s] = Idle]
  PROVE  QuietRec
  BY ReconcilerType, Starts, StepRec

LEMMA QueuedRec ==
  ASSUME TypeOK, NEW s \in Slots, rec' = [rec EXCEPT ![s] = [Idle EXCEPT !.pc = "queued"]]
  PROVE  QuietRec
<1>1. PICK x : x = [Idle EXCEPT !.pc = "queued"]
  OBVIOUS
<1>2. x \in Reconcilers /\ x.pc = "queued"
  BY <1>1, ReconcilerType DEF Idle, Reconcilers
<1> QED
  BY <1>1, <1>2, StepRec

(***************************************************************************)
(* The actions, group by group.                                            *)
(***************************************************************************)
LEMMA ReconcileQuiet ==
  ASSUME FenceInvariant, NEW s \in Slots, Reconcile(s), ~ReleaseSettles(s)
  PROVE  Quiet /\ Shapes'
<1> USE DEF FenceInvariant
<1>0. rec[s] \in Reconcilers /\ rec[s].j \in Journals
  BY DEF TypeOK, Reconcilers
<1>1. CASE ContextArrives(s)
  <2> DEFINE run == rec[s].j.run
             ended == IF rec[s].stop THEN "stopped" ELSE "failed"
             final == IF Active(run) THEN finish(ended) ELSE journal
  <2>1. /\ final \in Journals
        /\ final.run = journal.run /\ final.claim = journal.claim
        /\ final.kind = "none" <=> journal.kind = "none"
    BY DEF TypeOK, finish, Journals, Active
  <2>2. journal' = final
    BY <1>1 DEF ContextArrives
  <2>3. QuietJournal
    BY <2>1, <2>2 DEF QuietJournal
  <2>4. run \in Runs
    BY <1>0, <1>1 DEF ContextArrives, WritesAreRuns, WritePending, Busy, Journals
  <2>5. CASE journal.run = run
    <3>1. journal.kind # "none"
      BY <2>4, <2>5, RunsAssumption DEF JournalShape
    <3>2. rec' = [rec EXCEPT ![s] = Finalizer(final, 1)] /\ trans' = trans
      BY <1>1, <2>5 DEF ContextArrives
    <3>3. /\ Finalizer(final, 1) \in Reconcilers /\ Finalizer(final, 1).j = final
          /\ Finalizer(final, 1).pc \notin {"release", "released"}
      BY <2>1, ReconcilerType, Starts
    <3>4. QuietRec
      BY <2>1, <3>1, <3>2, <3>3, StepRec
    <3> QED
      BY <1>1, <2>3, <3>2, <3>4, StillRow, StillRest, StillShapes DEF ContextArrives, Quiet, Unborn, At
  <2>6. CASE journal.run # run
    <3>1. rec' = [rec EXCEPT ![s] = Idle] /\ (trans' = trans \/ trans' = Free)
      BY <1>1, <2>6 DEF ContextArrives, Throws
    <3>2. QuietRec
      BY <3>1, IdleRec
    <3>3. QuietRow /\ (\A q \in Runs : HeldBy(q)' => HeldBy(q)) /\ QuietLate /\ QuietBody
      BY <1>1, StillRow, StillRest DEF ContextArrives
    <3>4. QuietTrans
      BY <1>1, <3>1, <3>3, StillRest DEF ContextArrives, Free
    <3> QED
      BY <1>1, <2>3, <3>1, <3>2, <3>3, <3>4, StillShapes DEF ContextArrives, Quiet, Unborn, At
  <2> QED
    BY <2>5, <2>6
<1>2. CASE ContextFails(s)
  <2>1. rec' = [rec EXCEPT ![s] = Idle] /\ (trans' = trans \/ trans' = Free)
    BY <1>2 DEF ContextFails, Throws
  <2>2. QuietRow /\ (\A q \in Runs : HeldBy(q)' => HeldBy(q)) /\ QuietLate /\ QuietBody /\ QuietJournal
    BY <1>2, StillRow, StillRest DEF ContextFails
  <2>3. QuietTrans
    BY <1>2, <2>1, <2>2, StillRest DEF ContextFails, Free
  <2> QED
    BY <1>2, <2>1, <2>2, <2>3, IdleRec, StillShapes DEF ContextFails, Quiet, Unborn, At
<1>3. CASE LateContextArrives(s)
  <2>1. rec' = [rec EXCEPT ![s] = Finalizer(rec[s].j, 1)]
    BY <1>3 DEF LateContextArrives
  <2>2. /\ Finalizer(rec[s].j, 1) \in Reconcilers /\ Finalizer(rec[s].j, 1).j = rec[s].j
        /\ Finalizer(rec[s].j, 1).pc \notin {"release", "released"} /\ Busy(s)
    BY <1>0, <1>3, ReconcilerType, Starts DEF LateContextArrives, Busy
  <2>3. QuietRec
    BY <2>1, <2>2 DEF QuietRec, SameRead, Busy, TypeOK
  <2> QED
    BY <1>3, <2>3, StillRow, StillRest, StillShapes DEF LateContextArrives, Quiet, Unborn, At
<1>4. CASE LateContextFails(s)
  BY <1>4, IdleRec, StillRow, StillRest, StillShapes DEF LateContextFails, Quiet, Unborn, At, stored
<1>5. CASE ReconcilerCallDone(s)
  <2> DEFINE c == ReconcilerCall(s)
  <2>1. c \in Calls /\ c.op \in {"pause", "fence", "release"} /\ Busy(s)
    BY <1>5, ReconcilerCallType DEF ReconcilerCallDone, ReconcilerCall, Call, Busy
  <2>2. c.op = "fence" => c.run = rec[s].j.run /\ c.expect = rec[s].j.claim
    BY DEF ReconcilerCall, Call
  <2>3. c.op = "fence" => WritePending(c.run, c.expect)
    BY <2>1, <2>2 DEF WritePending
  <2>4. Execute(c)
    BY <1>5 DEF ReconcilerCallDone
  <2>5. QuietRow /\ \A q \in Runs : HeldBy(q)' => HeldBy(q)
    <3> HIDE DEF c
    <3> QED
      BY <2>1, <2>3, <2>4, ExecuteQuiet
  <2>6. QuietLate /\ QuietJournal /\ QuietBody /\ QuietTrans
    BY <1>5, <2>5, StillRest DEF ReconcilerCallDone, stored
  <2>7. WritePending(rec[s].j.run, rec[s].j.claim) /\ rec[s].j.run \in RunOrNone /\ rec[s].j.claim \in RunOrNone
    BY <1>0, <2>1 DEF WritePending, Journals
  <2>8. rec[s].pc = "fence" => row'.token # rec[s].j.claim
    <3>1. ASSUME rec[s].pc = "fence" PROVE row' = consumeClaimToken(c) /\ c.run = rec[s].j.run /\ c.expect = rec[s].j.claim
      BY <2>4, <3>1 DEF Execute, ReconcilerCall, Call
    <3>2. rec[s].j.run # rec[s].j.claim \/ row.token # rec[s].j.claim
      BY <2>7 DEF TokenNeverReturns
    <3> QED
      BY <3>1, <3>2 DEF consumeClaimToken, TypeOK, Rows
  <2>9. rec[s].pc = "release" => ~(Running' /\ row'.active = rec[s].j.run)
    <3>1. ASSUME rec[s].pc = "release" PROVE row' = releaseRuntimeRun(c) /\ c.run = rec[s].j.run /\ c.status \in {"idle", "failed"}
      BY <2>1, <2>4, <3>1 DEF Execute, ReconcilerCall, Call, Calls
    <3> QED
      BY <3>1 DEF releaseRuntimeRun, released, ownsRow, Running, TypeOK, Rows
  <2>10. QuietRec
    <3> DEFINE n == IF rec[s].pc = "pause" /\ bot.deleted THEN Idle
                    ELSE [rec[s] EXCEPT !.pc = AfterCall(rec[s].pc)]
    <3>1. rec' = [rec EXCEPT ![s] = n]
      BY <1>5 DEF ReconcilerCallDone
    <3>2. n.pc = "idle" \/ n.j = rec[s].j
      BY <1>0 DEF Idle, Reconcilers
    <3>3. n.pc = "release" => rec[s].pc = "fence" \/ rec[s].pc = "release"
      BY <1>0, <1>5 DEF Idle, Reconcilers, AfterCall, ReconcilerCallDone
    <3>4. n.pc = "released" => rec[s].pc = "release"
      BY <1>0, <1>5 DEF Idle, Reconcilers, AfterCall, ReconcilerCallDone
    <3>5. \A q \in Slots : rec'[q] = IF q = s THEN n ELSE rec[q]
      BY <3>1 DEF TypeOK
    <3> HIDE DEF n
    <3>6. QuietRec
      BY <2>1, <2>8, <2>9, <3>2, <3>3, <3>4, <3>5 DEF QuietRec, SameRead, Busy
    <3> QED
      BY <3>6
  <2> QED
    BY <1>5, <2>5, <2>6, <2>10, StillShapes DEF ReconcilerCallDone, Quiet, Unborn, At
<1>6. CASE ReconcilerCallFails(s)
  <2>1. late' = late \cup {ReconcilerCall(s)} /\ rec[s].pc \in {"pause", "fence", "release"}
    BY <1>6 DEF ReconcilerCallFails
  <2>2. /\ ReconcilerCall(s).op # "claim" /\ Busy(s)
        /\ ReconcilerCall(s).op = "fence" => /\ ReconcilerCall(s).run = rec[s].j.run
                                             /\ ReconcilerCall(s).expect = rec[s].j.claim
    BY <2>1 DEF ReconcilerCall, Call, Busy
  <2>3. QuietLate
    BY <2>1, <2>2 DEF QuietLate
  <2>4. QuietRow /\ (\A q \in Runs : HeldBy(q)' => HeldBy(q)) /\ QuietBody /\ QuietJournal /\ QuietRec
    BY <1>6, StillRow, StillRest, IdleRec DEF ReconcilerCallFails, stored
  <2>5. QuietTrans
    BY <1>6, <2>1, <2>2, <2>4 DEF ReconcilerCallFails, QuietTrans, AdmissionShape, ClaimIsSingle
  <2> QED
    BY <1>6, <2>3, <2>4, <2>5, StillShapes DEF ReconcilerCallFails, Quiet, Unborn, At
<1> QED
  BY <1>1, <1>2, <1>3, <1>4, <1>5, <1>6 DEF Reconcile

LEMMA GotoKeeps ==
  ASSUME TypeOK, NEW r \in Runs, NEW pc, Goto(r, pc), pc # "unborn", ~Unborn(r)
  PROVE  QuietBody /\ \A q \in Runs : Unborn(q)' <=> Unborn(q)
  BY DEF TypeOK, Goto, QuietBody, Unborn, At

LEMMA VisitQuiet ==
  ASSUME FenceInvariant, NEW r \in Runs, Visit(r)
  PROVE  Quiet /\ Shapes'
<1> USE DEF FenceInvariant
<1>0. /\ r \in Slots /\ RenewCall(r) \in Calls
      /\ RenewCall(r).op = "renew"
  BY RenewCallType DEF Slots, RenewCall, Call
\* Steps of the visit that touch neither the row, a journal nor a reconciler.
<1>a. ASSUME ~Unborn(r), NEW pc, pc # "unborn", Goto(r, pc),
             UNCHANGED <<row, late, journal, maint, rec, trans>>
      PROVE  Quiet /\ Shapes'
  BY <1>a, GotoKeeps, StillRow, StillRec, StillRest, StillShapes DEF Quiet
\* Steps that end in finalizeRun.
<1>b. ASSUME ~Unborn(r), NEW pause \in Nat, NEW type \in {"completed", "failed", "stopped"},
             FinalizeRun(r, r, type, pause), Goto(r, "closing"),
             UNCHANGED <<row, maint, trans>>,
             late' \subseteq late \cup {RenewCall(r)}
      PROVE  Quiet /\ Shapes'
  <2>1. QuietJournal /\ QuietRec
    BY <1>0, <1>b, FinalizeRunQuiet
  <2>2. QuietRow /\ \A q \in Runs : HeldBy(q)' => HeldBy(q)
    BY <1>b, StillRow
  <2>3. QuietBody /\ \A q \in Runs : Unborn(q)' <=> Unborn(q)
    BY <1>b, GotoKeeps
  <2>4. QuietLate
    BY <1>0, <1>b DEF QuietLate
  <2>5. QuietTrans
    BY <1>0, <1>b, <2>2 DEF QuietTrans, AdmissionShape, ClaimIsSingle
  <2> QED
    BY <1>b, <2>1, <2>2, <2>3, <2>4, <2>5, StillShapes DEF Quiet
<1>1. CASE BodyStarts(r)
  BY <1>1, <1>a DEF BodyStarts, Unborn, At, stored
<1>2. CASE BodyNeverStarts(r)
  BY <1>2, <1>a DEF BodyNeverStarts, Unborn, At, stored
<1>3. CASE BodyProgresses(r)
  <2>1. journal' = [journal EXCEPT !.stale = FALSE]
    BY <1>3 DEF BodyProgresses
  <2>2. QuietJournal
    BY <2>1 DEF QuietJournal, TypeOK, Journals
  <2> QED
    BY <1>3, <2>2, StillRow, StillRec, StillRest, StillShapes DEF BodyProgresses, Quiet, Unborn, At, memory
<1>4. CASE BodyRenews(r)
  BY <1>4, <1>a DEF BodyRenews, Unborn, At, stored
<1>5. CASE RenewDone(r)
  <2>1. ~Unborn(r) /\ (Goto(r, "renewed") \/ Goto(r, "denied"))
    BY <1>5 DEF RenewDone, Unborn, At
  <2>2. QuietRow /\ \A q \in Runs : HeldBy(q)' => HeldBy(q)
    BY <1>0, <1>5, ExecuteQuiet DEF RenewDone
  <2>3. QuietBody /\ \A q \in Runs : Unborn(q)' <=> Unborn(q)
    BY <2>1, GotoKeeps
  <2> QED
    BY <1>5, <2>2, <2>3, StillRec, StillRest, StillShapes DEF RenewDone, Quiet, stored
<1>6. CASE RenewFails(r)
  BY <1>6, <1>b DEF RenewFails, Unborn, At
<1>7. CASE BodyContinues(r)
  BY <1>7, <1>a DEF BodyContinues, Unborn, At, stored
<1>8. CASE BodyCompletes(r)
  BY <1>8, <1>b DEF BodyCompletes, Unborn, At
<1>9. CASE BodyFails(r)
  <2>1. body[r].rev \in Nat
    BY DEF TypeOK, Bodies
  <2> QED
    BY <1>9, <2>1, <1>b DEF BodyFails, Unborn, At
<1>10. CASE BodyStops(r)
  BY <1>10, <1>b DEF BodyStops, Unborn, At
<1>11. CASE BodyEnds(r)
  BY <1>11, <1>a DEF BodyEnds, Unborn, At
<1> QED
  BY <1>1, <1>2, <1>3, <1>4, <1>5, <1>6, <1>7, <1>8, <1>9, <1>10, <1>11 DEF Visit

\* A transition that moves on before any claim is issued.
LEMMA EarlyTransition ==
  ASSUME FenceInvariant, QuietRow, QuietJournal, QuietRec, QuietBody,
         \A q \in Runs : Unborn(q)' <=> Unborn(q),
         \A c \in late' : c.op \in {"claim", "fence"} => c \in late,
         UNCHANGED maint,
         \/ trans' = Free
         \/ /\ trans.pc \in {"reap", "reaped", "reapStopped", "reapStale", "reapContext"}
            /\ trans'.op = trans.op /\ trans'.run = trans.run
            /\ trans'.pc \in {"reaped", "reapStopped", "reapStale", "reapContext"}
         \/ trans'.pc \in {"stopRead", "stopping", "stopAgain"}
  PROVE  Quiet /\ Shapes'
<1> USE DEF FenceInvariant
<1>1. QuietLate
  BY DEF QuietLate
<1>2. trans'.pc \notin {"claiming", "claimed", "refused", "setup"}
  BY DEF Free
<1>3. Shapes'
  <2>1. AdmissionShape'
    BY <1>2 DEF AdmissionShape, Free
  <2>2. MaintenanceShape' /\ SetupShape'
    BY <1>2 DEF MaintenanceShape, SetupShape, QuietJournal
  <2> QED
    BY <2>1, <2>2 DEF Shapes
<1> QED
  BY <1>1, <1>2, <1>3, StillRest DEF Quiet

LEMMA TransitionQuiet ==
  ASSUME FenceInvariant, Transition, ~BeginRun, ~ClaimRefused
  PROVE  Quiet /\ Shapes'
<1> USE DEF FenceInvariant
<1>0. /\ trans \in Transitions /\ TransCall \in Calls /\ "trans" \in Slots
      /\ TransCall.op # "fence"
      /\ TransCall.op = "claim" => /\ trans.pc = "claiming"
                                   /\ ClaimPending(TransCall.run, TransCall.expect)
      /\ trans.pc \in {"reapStopped", "reapStale", "stopping"} => TransCall.op # "claim"
  BY TransCallType DEF TransCall, Call, ClaimPending, TypeOK, Slots
<1>r. UNCHANGED row => QuietRow /\ \A q \in Runs : HeldBy(q)' => HeldBy(q)
  BY StillRow
<1>u. UNCHANGED body => QuietBody /\ \A q \in Runs : Unborn(q)' <=> Unborn(q)
  BY StillRest DEF Unborn, At
<1>j. UNCHANGED journal => QuietJournal
  BY StillRest
<1>1. CASE RecoverStaleRun
  <2>1. trans' = [Free EXCEPT !.op = "recover", !.pc = "reap"]
    BY <1>1 DEF RecoverStaleRun
  <2>2. trans'.op = "recover" /\ trans'.pc = "reap"
    BY <2>1 DEF Free
  <2>3. QuietTrans /\ QuietLate
    BY <1>1, <2>2, StillRest DEF RecoverStaleRun
  <2>4. Shapes'
    BY <1>1, <2>2 DEF RecoverStaleRun, Shapes, AdmissionShape, MaintenanceShape, SetupShape, stored
  <2> QED
    BY <1>1, <1>r, <1>u, <1>j, <2>3, <2>4, StillRec DEF RecoverStaleRun, Quiet, stored
<1>2. CASE StopDecides \/ StopReadsAgain
  <2>1. trans' = Free \/ trans'.pc = "stopping"
    BY <1>0, <1>2 DEF StopDecides, StopReadsAgain, Step, Transitions
  <2>2. UNCHANGED <<row, late, body, journal, maint, rec>>
    BY <1>2 DEF StopDecides, StopReadsAgain, Requeue
  <2> QED
    BY <1>r, <1>u, <1>j, <2>1, <2>2, StillRec, EarlyTransition
<1>3. CASE ReapStaleRun
  <2>1. UNCHANGED <<row, late, body, journal, maint>> /\ trans.pc = "reap"
    BY <1>3 DEF ReapStaleRun, Requeue, InTrans
  <2>2. trans'.op = trans.op /\ trans'.run = trans.run
        /\ trans'.pc \in {"reaped", "reapStopped", "reapStale"}
    BY <1>0, <1>3 DEF ReapStaleRun, Step, Transitions
  <2>3. QuietRec
    BY <1>0, <1>3, StillRec, StartReconcileQuiet DEF ReapStaleRun, StopRequested, TypeOK
  <2> QED
    BY <1>r, <1>u, <1>j, <2>1, <2>2, <2>3, EarlyTransition
<1>4. CASE ReapStoppedDone
  <2>1. QuietRow
    BY <1>0, <1>4, ExecuteQuiet DEF ReapStoppedDone
  <2>2. trans'.op = trans.op /\ trans'.run = trans.run /\ trans'.pc = "reaped"
        /\ trans.pc = "reapStopped"
    BY <1>0, <1>4 DEF ReapStoppedDone, InTrans, Step, Transitions
  <2> QED
    BY <1>4, <1>u, <1>j, <2>1, <2>2, StillRec, EarlyTransition DEF ReapStoppedDone
<1>5. CASE ReapStaleDone
  <2>1. QuietRow
    BY <1>0, <1>5, ExecuteQuiet DEF ReapStaleDone
  <2>2. trans'.op = trans.op /\ trans'.run = trans.run /\ trans'.pc \in {"reaped", "reapContext"}
        /\ trans.pc = "reapStale"
    BY <1>0, <1>5 DEF ReapStaleDone, InTrans, Step, Transitions
  <2> QED
    BY <1>5, <1>u, <1>j, <2>1, <2>2, StillRec, EarlyTransition DEF ReapStaleDone
<1>6. CASE ReapContextArrives
  <2>1. trans'.op = trans.op /\ trans'.run = trans.run /\ trans'.pc = "reaped"
        /\ trans.pc = "reapContext"
    BY <1>0, <1>6 DEF ReapContextArrives, InTrans, Step, Transitions
  <2> QED
    BY <1>6, <1>r, <1>u, <1>j, <2>1, StillRec, EarlyTransition DEF ReapContextArrives, Requeue
<1>7. CASE AdmissionChecks
  <2>1. UNCHANGED <<row, late, body, journal, maint, rec>> /\ trans.op = "admit" /\ trans.pc = "reaped"
    BY <1>7 DEF AdmissionChecks, Requeue, InTrans, stored
  <2>2. CASE trans' = Free
    BY <1>r, <1>u, <1>j, <2>1, <2>2, StillRec, EarlyTransition
  <2>3. CASE trans' # Free
    <3>1. trans' = [trans EXCEPT !.pc = "setup"] /\ maint = NoMaint /\ journal.kind = "none"
      BY <1>7, <2>3 DEF AdmissionChecks, Step
    <3>2. trans'.op = "admit" /\ trans'.pc = "setup" /\ trans'.run = trans.run
      BY <1>0, <2>1, <3>1 DEF Transitions
    <3>3. QuietTrans /\ QuietLate
      BY <2>1, <3>2, StillRest
    <3>4. Shapes'
      BY <1>u, <2>1, <3>1, <3>2 DEF Shapes, AdmissionShape, MaintenanceShape, SetupShape
    <3> QED
      BY <1>r, <1>u, <1>j, <2>1, <3>3, <3>4, StillRec DEF Quiet
  <2> QED
    BY <2>2, <2>3
<1>8. CASE ClaimDone
  <2>1. Execute(TransCall) /\ trans.pc = "claiming"
    BY <1>8 DEF ClaimDone, InTrans
  <2>2. QuietRow
    BY <1>0, <2>1, ExecuteQuiet
  <2>3. trans'.op = trans.op /\ trans'.run = trans.run
        /\ trans'.pc = IF claimGuard(TransCall) THEN "claimed" ELSE "refused"
    BY <1>0, <1>8 DEF ClaimDone, Step, Transitions
  <2>4. trans'.pc = "refused" => row' = row
    BY <2>1, <2>3 DEF Execute, TransCall, Call, claimRuntimeRun
  <2>5. QuietTrans
    BY <1>8, <1>0, <2>1, <2>3, <2>4 DEF QuietTrans, ClaimDone, ClaimIsSingle, HeldBy, Running
  <2>6. Shapes'
    BY <1>8, <1>u, <2>1, <2>3 DEF ClaimDone, Shapes, AdmissionShape, MaintenanceShape, SetupShape, stored
  <2> QED
    BY <1>8, <1>u, <1>j, <2>2, <2>5, <2>6, StillRec, StillRest DEF ClaimDone, Quiet, stored
<1>9. CASE ClaimFails
  <2>1. trans.pc = "claiming" /\ trans.run \in Runs /\ ~Unborn(trans.run)
    BY <1>9 DEF ClaimFails, InTrans, AdmissionShape
  <2>2. trans'.op = trans.op /\ trans'.pc = "done"
    BY <1>0, <1>9 DEF ClaimFails, Step, Transitions
  <2>3. QuietJournal /\ QuietRec
    BY <1>0, <1>9, <2>1, FinalizeRunQuiet DEF ClaimFails
  <2>4. QuietBody
    BY <1>9, <2>1, GotoKeeps DEF ClaimFails
  <2>5. QuietLate
    BY <1>0, <1>9, <2>1 DEF ClaimFails, QuietLate, TransCall, Call
  <2>6. Shapes'
    BY <1>9, <2>2, <2>3 DEF ClaimFails, Shapes, AdmissionShape, MaintenanceShape, SetupShape, QuietJournal
  <2> QED
    BY <1>9, <1>r, <2>2, <2>3, <2>4, <2>5, <2>6, StillRest DEF ClaimFails, Quiet
<1>10. CASE Admitted
  <2>1. trans.pc = "claimed" /\ trans.run \in Runs /\ ~Unborn(trans.run)
    BY <1>10 DEF Admitted, InTrans, AdmissionShape
  <2>2. QuietBody /\ \A q \in Runs : Unborn(q)' <=> Unborn(q)
    BY <1>10, <2>1, GotoKeeps DEF Admitted
  <2> QED
    BY <1>10, <1>r, <1>j, <2>2, StillRec, EarlyTransition DEF Admitted
<1>11. CASE MaintenanceChecks
  <2>1. trans' = Free /\ UNCHANGED <<row, late, body, journal, rec>>
        /\ (maint' = maint \/ journal.kind = "none")
    BY <1>11 DEF MaintenanceChecks, Requeue, stored
  <2>2. QuietTrans /\ QuietLate
    BY <2>1, StillRest DEF Free
  <2>3. Shapes'
    BY <2>1 DEF Shapes, AdmissionShape, MaintenanceShape, SetupShape, Free
  <2> QED
    BY <1>r, <1>u, <1>j, <2>1, <2>2, <2>3, StillRec DEF Quiet
<1>12. CASE MarkRunStopped
  <2>1. QuietRow
    BY <1>0, <1>12, ExecuteQuiet DEF MarkRunStopped, InTrans
  <2>2. trans' = Free \/ trans'.pc = "stopAgain"
    BY <1>0, <1>12 DEF MarkRunStopped, Step, Transitions
  <2> QED
    BY <1>12, <1>u, <1>j, <2>1, <2>2, StillRec, EarlyTransition DEF MarkRunStopped
<1>13. CASE TransEnds
  BY <1>13, <1>r, <1>u, <1>j, StillRec, EarlyTransition DEF TransEnds, Requeue, stored
<1>14. CASE TransFails
  <2>1. \A c \in late' : c.op \in {"claim", "fence"} => c \in late
    BY <1>0, <1>14 DEF TransFails
  <2> QED
    BY <1>14, <1>r, <1>u, <1>j, <2>1, StillRec, EarlyTransition DEF TransFails, stored
<1>15. CASE MaintenanceDone
  <2>1. journal.kind = "none" /\ journal.run = NoRun /\ trans.pc # "setup"
    BY <1>15 DEF MaintenanceDone, MaintenanceShape, SetupShape, JournalShape
  <2>2. UNCHANGED <<row, late, body, rec, trans>> /\ maint' = NoMaint
        /\ (journal' = journal \/ journal' = NoJournal)
    BY <1>15 DEF MaintenanceDone, stored
  <2>3. QuietJournal
    BY <2>1, <2>2 DEF QuietJournal, NoJournal
  <2> QED
    BY <1>r, <1>u, <2>2, <2>3, StillRec, StillRest, StillShapes DEF Quiet
<1>16. CASE MaintenanceFails
  BY <1>16, <1>r, <1>u, <1>j, StillRec, StillRest, StillShapes DEF MaintenanceFails, Quiet, stored
<1> QED
  BY <1>1, <1>2, <1>3, <1>4, <1>5, <1>6, <1>7, <1>8, <1>9, <1>10, <1>11, <1>12, <1>13, <1>14, <1>15, <1>16 DEF Transition

LEMMA RequestQuiet ==
  ASSUME FenceInvariant,
         \/ \E r \in Runs : AdmitTick(r)
         \/ \E op \in MaintOps : BeginMaintenance(op)
         \/ \E c \in Callers : Request(c)
         \/ AlarmFires
  PROVE  Quiet /\ Shapes'
<1> USE DEF FenceInvariant
<1>1. ASSUME NEW r \in Runs, AdmitTick(r) PROVE Quiet /\ Shapes'
  <2>1. trans'.op = "admit" /\ trans'.pc = "reap" /\ trans'.run = r
    BY <1>1 DEF AdmitTick, Free
  <2>2. QuietRec
    BY <1>1, StartReconcileQuiet DEF AdmitTick, StopRequested, Slots, TypeOK
  <2>3. Unborn(r)' /\ r \in Runs
    BY <1>1 DEF AdmitTick, Unborn, At
  <2>4. Shapes'
    BY <1>1, <2>1, <2>3 DEF AdmitTick, Shapes, AdmissionShape, MaintenanceShape, SetupShape
  <2> QED
    BY <1>1, <2>1, <2>2, <2>4, StillRow, StillRest DEF AdmitTick, Quiet
<1>2. ASSUME NEW op \in MaintOps, BeginMaintenance(op) PROVE Quiet /\ Shapes'
  <2>1. trans'.op = op /\ trans'.pc = "reap" /\ op # "admit"
    BY <1>2, LimitsAssumption DEF BeginMaintenance, Free
  <2>2. Shapes'
    BY <1>2, <2>1 DEF BeginMaintenance, Shapes, AdmissionShape, MaintenanceShape, SetupShape, stored
  <2> QED
    BY <1>2, <2>1, <2>2, StillRow, StillRec, StillRest DEF BeginMaintenance, Quiet, stored
<1>3. ASSUME NEW s \in Slots, NEW stop \in BOOLEAN, StartReconcile(s, stop, alarm) \/ StartReconcile(s, stop, FALSE),
             UNCHANGED <<row, late, journal, maint, body, trans>>
      PROVE  Quiet /\ Shapes'
  <2>1. QuietRec
    BY <1>3, StartReconcileQuiet DEF TypeOK
  <2> QED
    BY <1>3, <2>1, StillRow, StillRest, StillShapes DEF Quiet, Unborn, At
<1>4. ASSUME NEW c \in Callers, StopTick(c) PROVE Quiet /\ Shapes'
  BY <1>3, <1>4 DEF StopTick, Slots
<1>5. ASSUME NEW c \in Callers, RecoverJournal(c) PROVE Quiet /\ Shapes'
  BY <1>3, <1>5 DEF RecoverJournal, Slots, StopRequested
<1>6. CASE AlarmFires
  BY <1>3, <1>6 DEF AlarmFires, Slots, StopRequested
<1>7. ASSUME NEW c \in Callers, StopQueues(c) \/ StopFindsNothing(c) PROVE Quiet /\ Shapes'
  <2>1. QuietRec
    BY <1>7, QueuedRec, IdleRec DEF StopQueues, StopFindsNothing, Slots
  <2> QED
    BY <1>7, <2>1, StillRow, StillRest, StillShapes
       DEF StopQueues, StopFindsNothing, Quiet, Unborn, At, stored
<1>8. ASSUME NEW c \in Callers, StopReadsRow(c) PROVE Quiet /\ Shapes'
  <2>1. QuietRec
    BY <1>8, IdleRec DEF StopReadsRow, Slots
  <2>2. trans'.pc = "stopRead"
    BY <1>8 DEF StopReadsRow, Free
  <2> QED
    BY <1>8, <2>1, <2>2, StillRow, StillRest, EarlyTransition
       DEF StopReadsRow, Requeue, Unborn, At, stored
<1> QED
  BY <1>1, <1>2, <1>4, <1>5, <1>6, <1>7, <1>8 DEF Request

LEMMA ClockOwnerQuiet ==
  ASSUME FenceInvariant, InactivityElapses \/ LeaseElapses \/ Owner
  PROVE  Quiet /\ Shapes'
<1> USE DEF FenceInvariant
<1>1. CASE InactivityElapses
  <2>1. row'.token = row.token /\ row'.status = row.status /\ row'.active = row.active
    BY <1>1 DEF InactivityElapses, TypeOK, Rows
  <2>2. QuietJournal
    BY <1>1 DEF InactivityElapses, QuietJournal, TypeOK, Journals
  <2> QED
    BY <1>1, <2>1, <2>2, StillRow, StillRec, StillRest, StillShapes
       DEF InactivityElapses, Quiet, Unborn, At, memory
<1>2. ASSUME UNCHANGED <<late, journal, memory>>, row'.token = row.token,
             \/ row'.status = row.status /\ row'.active = row.active
             \/ row'.status = "idle" /\ row'.active = NoRun
      PROVE  Quiet /\ Shapes'
  <2>1. QuietRow /\ \A q \in Runs : HeldBy(q)' => HeldBy(q)
    BY <1>2, StillRow, FreedRow
  <2> QED
    BY <1>2, <2>1, StillRec, StillRest, StillShapes DEF Quiet, Unborn, At, memory
<1>3. CASE LeaseElapses
  BY <1>2, <1>3 DEF LeaseElapses, TypeOK, Rows, stored
<1>4. ASSUME NEW r \in Rows, NEW deleted \in BOOLEAN, Edit(r, deleted), r.token = row.token,
             \/ r.status = row.status /\ r.active = row.active
             \/ r.status = "idle" /\ r.active = NoRun
      PROVE  Quiet /\ Shapes'
  BY <1>2, <1>4 DEF Edit, stored
<1>a. row \in Rows
  BY DEF TypeOK
<1>5. CASE OwnerPauses
  <2> DEFINE r == [row EXCEPT !.enabled = FALSE, !.due = "none"]
  <2>1. r \in Rows /\ r.token = row.token /\ r.status = row.status /\ r.active = row.active
    BY <1>a DEF Rows
  <2> QED
    BY <1>4, <1>5, <2>1 DEF OwnerPauses
<1>6. CASE OwnerResumes
  <2> DEFINE r == [row EXCEPT !.enabled = TRUE, !.due = IF @ = "none" THEN "owner" ELSE @]
  <2>1. r \in Rows /\ r.token = row.token /\ r.status = row.status /\ r.active = row.active
    BY <1>a DEF Rows
  <2> QED
    BY <1>4, <1>6, <2>1 DEF OwnerResumes
<1>7. CASE OwnerReschedules
  <2> DEFINE r == [row EXCEPT !.due = "owner"]
  <2>1. r \in Rows /\ r.token = row.token /\ r.status = row.status /\ r.active = row.active
    BY <1>a DEF Rows
  <2> QED
    BY <1>4, <1>7, <2>1 DEF OwnerReschedules
<1>8. CASE OwnerDeletes
  <2> DEFINE r == [row EXCEPT !.enabled = FALSE, !.status = "idle", !.active = NoRun,
                              !.lease = "none", !.due = "none"]
  <2>1. r \in Rows /\ r.token = row.token /\ r.status = "idle" /\ r.active = NoRun
    BY <1>a DEF Rows, RunOrNone
  <2> QED
    BY <1>4, <1>8, <2>1 DEF OwnerDeletes
<1> QED
  BY <1>1, <1>3, <1>5, <1>6, <1>7, <1>8 DEF Owner

LEMMA FaultQuiet ==
  ASSUME FenceInvariant, LateCall \/ Crash \/ AbortHungTransition
  PROVE  Quiet /\ Shapes'
<1> USE DEF FenceInvariant
<1>1. CASE LateCall
  <2>1. PICK c \in late : Execute(c) /\ late' = late \ {c}
    BY <1>1 DEF LateCall
  <2>2. c \in Calls /\ c.run \in RunOrNone /\ c.expect \in RunOrNone
    BY <2>1 DEF TypeOK, Calls
  <2>3. /\ c.op = "claim" => ClaimPending(c.run, c.expect)
        /\ c.op = "fence" => WritePending(c.run, c.expect)
    BY <2>1 DEF ClaimPending, WritePending
  <2>4. QuietRow /\ (c.op # "claim" => \A q \in Runs : HeldBy(q)' => HeldBy(q))
    BY <2>1, <2>2, <2>3, ExecuteQuiet
  <2>5. UNCHANGED <<journal, maint, body, rec, trans>>
    BY <1>1 DEF LateCall, stored, memory
  <2>6. QuietTrans
    <3> SUFFICES ASSUME trans.pc \in {"claiming", "claimed", "refused"}
                 PROVE  trans.pc # "claimed" => ~(Running' /\ row'.active = trans.run)
      BY <2>1, <2>5 DEF QuietTrans, HeldBy
    <3>1. trans.run \in Runs
      BY DEF AdmissionShape
    <3>2. CASE c.op # "claim"
      BY <2>4, <3>1, <3>2 DEF ClaimIsSingle, HeldBy
    <3>3. CASE c.op = "claim"
      <4>1. c.run # trans.run
        BY <2>1, <3>3 DEF ClaimIsSingle
      <4>2. row' = row \/ row'.active = c.run
        BY <2>1, <3>3 DEF Execute, claimRuntimeRun, TypeOK, Rows
      <4> QED
        BY <4>1, <4>2 DEF ClaimIsSingle, HeldBy, Running
    <3> QED
      BY <3>2, <3>3
  <2> QED
    BY <2>1, <2>4, <2>5, <2>6, StillRec, StillRest, StillShapes DEF Quiet, Unborn, At
<1>2. ASSUME Reset, QuietJournal PROVE Quiet /\ Shapes'
  <2>1. QuietRow /\ trans' = Free
    BY <1>2, StillRow DEF Reset
  <2>2. QuietBody /\ \A q \in Runs : Unborn(q)' <=> Unborn(q)
    BY <1>2 DEF Reset, QuietBody, Unborn, At, TypeOK, Bodies
  <2>3. QuietRec
    BY <1>2 DEF Reset, QuietRec, Busy, Idle
  <2>4. QuietLate
    <3> SUFFICES ASSUME NEW c \in late', c \notin late
                 PROVE  /\ c.op = "claim" => /\ trans.pc = "claiming"
                                             /\ c.run = trans.run /\ c.expect = trans.expect
                        /\ c.op = "fence" => \E s \in Slots : /\ Busy(s)
                                                              /\ c.run = rec[s].j.run
                                                              /\ c.expect = rec[s].j.claim
      BY DEF QuietLate
    <3>1. c \in InFlight
      BY <1>2 DEF Reset
    <3>2. ASSUME NEW s \in Slots, rec[s].pc \in {"pause", "fence", "release"}, c = ReconcilerCall(s)
          PROVE  c.op # "claim" /\ (c.op = "fence" => /\ Busy(s)
                                                      /\ c.run = rec[s].j.run
                                                      /\ c.expect = rec[s].j.claim)
      BY <3>2 DEF ReconcilerCall, Call, Busy
    <3>3. ASSUME NEW r \in Runs, c = RenewCall(r) PROVE c.op \notin {"claim", "fence"}
      BY <3>3 DEF RenewCall, Call
    <3>4. ASSUME c = TransCall
          PROVE  c.op # "fence" /\ (c.op = "claim" => /\ trans.pc = "claiming"
                                                     /\ c.run = trans.run /\ c.expect = trans.expect)
      BY <3>4 DEF TransCall, Call
    <3>5. \/ \E s \in Slots : rec[s].pc \in {"pause", "fence", "release"} /\ c = ReconcilerCall(s)
          \/ \E r \in Runs : c = RenewCall(r)
          \/ c = TransCall
      BY <3>1 DEF InFlight
    <3> QED
      BY <3>2, <3>3, <3>4, <3>5
  <2> QED
    BY <1>2, <2>1, <2>2, <2>3, <2>4, StillRest, StillShapes DEF Quiet, Reset, Free
<1>3. CASE Crash
  BY <1>2, <1>3, StillRest DEF Crash
<1>4. CASE AbortHungTransition
  <2>1. QuietJournal
    BY <1>4 DEF AbortHungTransition, QuietJournal, finish, TypeOK, Journals
  <2> QED
    BY <1>2, <1>4, <2>1 DEF AbortHungTransition
<1> QED
  BY <1>1, <1>3, <1>4
(***************************************************************************)
(* The steps that are not quiet.                                           *)
(***************************************************************************)
\* A journal is dropped when nothing of its run can take the row any more.
LEMMA DropKeeps ==
  ASSUME FenceInvariant, TypeOK',
         journal.run \in Runs, journal' = NoJournal, UNCHANGED <<row, late, maint>>,
         ~HeldBy(journal.run), ~ClaimPending(journal.run, row.token),
         \A s \in Slots : rec'[s] = rec[s] \/ rec'[s] = Idle,
         \A q \in Runs : Unborn(q)' <=> Unborn(q),
         trans' = trans \/ trans' = Free
  PROVE  FenceInvariant'
<1> USE DEF FenceInvariant
<1>1. journal'.kind = "none" /\ journal'.run = NoRun /\ NoRun \notin Runs
  BY RunsAssumption DEF NoJournal
<1>2. \A s \in Slots : rec'[s] = rec[s] \/ rec'[s].pc = "idle"
  BY DEF Idle
<1>3. trans'.pc \in {"claiming", "claimed", "refused", "setup"} => trans' = trans
  BY DEF Free
<1>4. \A x, t \in RunOrNone : ClaimPending(x, t)' => ClaimPending(x, t)
  BY <1>3 DEF ClaimPending
<1>5. \A x, t \in RunOrNone : WritePending(x, t)' => WritePending(x, t)
  BY <1>1, <1>2, <1>4 DEF WritePending, Busy
<1>6. row.token \in RunOrNone /\ \A s \in Slots : rec[s].j.run \in RunOrNone /\ rec[s].j.claim \in RunOrNone
  BY DEF TypeOK, Rows, Reconcilers, Journals
<1>7. JournalShape' /\ RowShape'
  BY <1>1 DEF JournalShape, RowShape, Running
<1>8. AdmissionShape' /\ MaintenanceShape' /\ SetupShape'
  BY <1>1, <1>3 DEF AdmissionShape, MaintenanceShape, SetupShape, Free
<1>9. UnbornIsFresh'
  BY <1>5 DEF UnbornIsFresh, HeldBy, Running, RunOrNone
<1>10. WritesAreRuns'
  BY <1>5 DEF WritesAreRuns, RunOrNone
<1>11. TokenNeverReturns'
  BY <1>5, <1>6 DEF TokenNeverReturns, RunOrNone
<1>12. ClaimIsDeadOrCurrent'
  <2> SUFFICES ASSUME NEW x \in RunOrNone, ClaimPending(x, row.token)'
               PROVE  FALSE
    BY DEF ClaimIsDeadOrCurrent, RunOrNone
  <2>1. ClaimPending(x, row.token)
    BY <1>4, <1>6
  <2>2. journal.run = x
    BY <2>1 DEF ClaimIsDeadOrCurrent
  <2> QED
    BY <2>1, <2>2
<1>13. ReconcilerKnowsToken'
  BY <1>1, <1>2, <1>6 DEF ReconcilerKnowsToken, Busy, WritesAreRuns, WritePending, Slots
<1>14. FencedBeforeRelease'
  BY <1>2 DEF FencedBeforeRelease, Slots
<1>15. FreeWhenReleased'
  BY <1>1, <1>2, <1>6 DEF FreeWhenReleased, Busy, WritesAreRuns, WritePending, Slots
<1>16. ClaimIsSingle'
  BY <1>3 DEF ClaimIsSingle, HeldBy, Running
<1>17. RunningRowIsJournaled'
  BY <1>1 DEF RunningRowIsJournaled, HeldBy, Running
<1> QED
  BY <1>7, <1>8, <1>9, <1>10, <1>11, <1>12, <1>13, <1>14, <1>15, <1>16, <1>17

LEMMA QuietStep ==
  ASSUME FenceInvariant, TypeOK', Quiet, Shapes'
  PROVE  FenceInvariant'
  BY QuietKeeps DEF FenceInvariant, Shapes

\* What a reconciler knows when its release was answered.
LEMMA ReleasedFacts ==
  ASSUME FenceInvariant, NEW s \in Slots, rec[s].pc = "released", rec[s].j.run = journal.run
  PROVE  /\ journal.run \in Runs /\ ~HeldBy(journal.run)
         /\ ~ClaimPending(journal.run, row.token)
         /\ \A t \in RunOrNone : ClaimPending(journal.run, t) => row.token # t
<1> USE DEF FenceInvariant
<1>1. rec[s].j.run \in RunOrNone /\ rec[s].j.claim \in RunOrNone /\ row.token \in RunOrNone
      /\ journal.run \in RunOrNone
  BY DEF TypeOK, Rows, Reconcilers, Journals
<1>2. journal.run \in Runs
  BY <1>1 DEF WritesAreRuns, WritePending, Busy
<1>3. ~HeldBy(journal.run)
  BY DEF FreeWhenReleased
<1>4. row.token # journal.claim
  BY DEF FencedBeforeRelease, ReconcilerKnowsToken, Busy
<1>5. ~ClaimPending(journal.run, row.token)
  BY <1>1, <1>4 DEF ClaimIsDeadOrCurrent
<1> QED
  BY <1>2, <1>3, <1>5

LEMMA ReleaseSettlesKeeps ==
  ASSUME FenceInvariant, TypeOK', NEW s \in Slots, ReleaseSettles(s)
  PROVE  FenceInvariant'
<1>1. /\ rec[s].pc = "released" /\ rec' = [rec EXCEPT ![s] = Idle]
      /\ journal' = IF journal.run = rec[s].j.run THEN NoJournal ELSE journal
      /\ UNCHANGED <<row, late, body, maint, trans>>
  BY DEF ReleaseSettles
<1>2. CASE journal.run = rec[s].j.run
  <2>1. journal.run \in Runs /\ ~HeldBy(journal.run) /\ ~ClaimPending(journal.run, row.token)
    BY <1>1, <1>2, ReleasedFacts
  <2>2. \A q \in Slots : rec'[q] = rec[q] \/ rec'[q] = Idle
    BY <1>1 DEF FenceInvariant, TypeOK
  <2> QED
    BY <1>1, <1>2, <2>1, <2>2, DropKeeps DEF Unborn, At
<1>3. CASE journal.run # rec[s].j.run
  BY <1>1, <1>3, StillRow, IdleRec, StillRest, StillShapes, QuietStep
     DEF FenceInvariant, Quiet, Unborn, At
<1> QED
  BY <1>2, <1>3

LEMMA ClaimRefusedKeeps ==
  ASSUME FenceInvariant, TypeOK', ClaimRefused
  PROVE  FenceInvariant'
<1> USE DEF FenceInvariant
<1>1. /\ trans.pc = "refused" /\ trans.run \in Runs /\ ~Unborn(trans.run)
      /\ journal' = IF journal.run = trans.run THEN NoJournal ELSE journal
      /\ trans' = Free /\ Goto(trans.run, "refused")
      /\ UNCHANGED <<row, late, maint, rec>>
  BY DEF ClaimRefused, InTrans, AdmissionShape
<1>2. QuietBody /\ \A q \in Runs : Unborn(q)' <=> Unborn(q)
  BY <1>1, GotoKeeps
<1>3. CASE journal.run = trans.run
  <2>1. ~HeldBy(journal.run) /\ ~ClaimPending(journal.run, row.token)
    BY <1>1, <1>3 DEF ClaimIsSingle, ClaimPending
  <2> QED
    BY <1>1, <1>2, <1>3, <2>1, DropKeeps
<1>4. CASE journal.run # trans.run
  <2>1. QuietTrans
    BY <1>1, StillRest DEF Free
  <2> QED
    BY <1>1, <1>2, <1>4, <2>1, StillRow, StillRec, StillRest, StillShapes, QuietStep DEF Quiet
<1> QED
  BY <1>3, <1>4

\* The claim of a new run expects a token that no pending statement writes.
LEMMA BeginRunKeeps ==
  ASSUME FenceInvariant, TypeOK', BeginRun
  PROVE  FenceInvariant'
<1> USE DEF FenceInvariant
<1> DEFINE r == trans.run
           t == row.token
<1>1. /\ trans.pc = "setup" /\ trans.op = "admit" /\ r \in Runs /\ Unborn(r)
      /\ journal.kind = "none" /\ journal.run = NoRun /\ maint = NoMaint
  BY DEF BeginRun, InTrans, AdmissionShape, MaintenanceShape, SetupShape, JournalShape
<1>2. UNCHANGED <<row, late, maint, rec>>
  BY DEF BeginRun
<1>3. journal'.kind = "active" /\ journal'.run = r /\ journal'.claim = t
  BY DEF BeginRun, NoJournal
<1>4. trans'.pc = "claiming" /\ trans'.run = r /\ trans'.expect = t /\ trans'.op = "admit"
  BY <1>1 DEF BeginRun, TypeOK, Transitions
<1>5. \A q \in Runs : Unborn(q)' <=> Unborn(q) /\ q # r
  BY <1>1 DEF BeginRun, Unborn, At, TypeOK
<1>6. /\ t \in RunOrNone /\ r \in RunOrNone /\ NoRun \notin Runs
      /\ \A s \in Slots : rec[s].j.run \in RunOrNone /\ rec[s].j.claim \in RunOrNone
  BY <1>1, RunsAssumption DEF TypeOK, Rows, Reconcilers, Journals, RunOrNone
<1>7. \A x, u \in RunOrNone : ClaimPending(x, u)' => ClaimPending(x, u) \/ (x = r /\ u = t)
  BY <1>2, <1>4 DEF ClaimPending
<1>8. \A x, u \in RunOrNone : WritePending(x, u)' => WritePending(x, u) \/ (x = r /\ u = t)
  BY <1>2, <1>3, <1>7 DEF WritePending, Busy
<1>9. t # r /\ ~HeldBy(r) /\ \A x, u \in RunOrNone : WritePending(x, u) => x # r /\ u # r
  BY <1>1 DEF UnbornIsFresh
<1> HIDE DEF r, t
<1>10. JournalShape' /\ RowShape'
  BY <1>1, <1>2, <1>3, <1>6 DEF JournalShape, RowShape, Running
<1>11. AdmissionShape' /\ MaintenanceShape' /\ SetupShape'
  BY <1>1, <1>2, <1>4, <1>5 DEF AdmissionShape, MaintenanceShape, SetupShape
<1>12. UnbornIsFresh'
  <2> SUFFICES ASSUME NEW q \in Runs, Unborn(q)'
               PROVE  /\ row'.token # q /\ ~(Running' /\ row'.active = q)
                      /\ \A x, u \in RunOrNone : WritePending(x, u)' => x # q /\ u # q
    BY DEF UnbornIsFresh, HeldBy, RunOrNone
  <2>1. Unborn(q) /\ q # r
    BY <1>5
  <2>2. row.token # q /\ ~HeldBy(q) /\ \A x, u \in RunOrNone : WritePending(x, u) => x # q /\ u # q
    BY <2>1 DEF UnbornIsFresh
  <2>3. t # q
    BY <2>2 DEF t
  <2> QED
    BY <1>2, <1>8, <2>1, <2>2, <2>3 DEF HeldBy, Running
<1>13. WritesAreRuns'
  BY <1>1, <1>8 DEF WritesAreRuns, RunOrNone
<1>14. TokenNeverReturns'
  <2> SUFFICES ASSUME NEW x \in RunOrNone, NEW y \in RunOrNone,
                      WritePending(x, row.token)', WritePending(y, x)'
               PROVE  FALSE
    BY DEF TokenNeverReturns, RunOrNone
  <2>1. WritePending(x, t) \/ x = r
    BY <1>2, <1>6, <1>8 DEF t
  <2>2. WritePending(y, x) \/ (y = r /\ x = t)
    BY <1>8
  <2>3. CASE x = r
    BY <1>9, <2>2, <2>3
  <2>4. CASE WritePending(x, t) /\ x # r
    <3>1. ~WritePending(y, x)
      BY <2>4 DEF TokenNeverReturns, t
    <3>2. x = t
      BY <2>2, <3>1
    <3>3. ~WritePending(x, t)
      BY <2>4, <3>2 DEF TokenNeverReturns, t
    <3> QED
      BY <2>4, <3>3
  <2> QED
    BY <2>1, <2>3, <2>4
<1>15. ClaimIsDeadOrCurrent'
  <2> SUFFICES ASSUME NEW x \in RunOrNone, ClaimPending(x, row.token)'
               PROVE  journal'.run = x /\ journal'.claim = row'.token
    BY DEF ClaimIsDeadOrCurrent, RunOrNone
  <2>1. ClaimPending(x, t) \/ x = r
    BY <1>2, <1>6, <1>7 DEF t
  <2>2. ~ClaimPending(x, t)
    <3>1. ASSUME ClaimPending(x, t) PROVE FALSE
      <4>1. x = NoRun /\ WritePending(x, t)
        BY <1>1, <3>1 DEF ClaimIsDeadOrCurrent, WritePending, t
      <4> QED
        BY <1>6, <4>1 DEF WritesAreRuns
    <3> QED
      BY <3>1
  <2> QED
    BY <1>2, <1>3, <2>1, <2>2 DEF t
<1>16. ReconcilerKnowsToken' /\ FreeWhenReleased'
  <2>1. \A s \in Slots : Busy(s) => rec[s].j.run # r
    BY <1>6, <1>9 DEF WritePending
  <2> QED
    BY <1>2, <1>3, <2>1 DEF ReconcilerKnowsToken, FreeWhenReleased, Busy, Slots
<1>17. FencedBeforeRelease'
  BY <1>2 DEF FencedBeforeRelease, Slots
<1>18. ClaimIsSingle'
  <2>1. \A c \in late : c.op = "claim" => c.run # r
    BY <1>9 DEF ClaimPending, WritePending, TypeOK, Calls
  <2> QED
    BY <1>2, <1>4, <1>9, <2>1 DEF ClaimIsSingle, HeldBy, Running
<1>19. RunningRowIsJournaled'
  BY <1>1, <1>2, <1>3, <1>6 DEF RunningRowIsJournaled, RowShape, Running
<1> QED
  BY <1>10, <1>11, <1>12, <1>13, <1>14, <1>15, <1>16, <1>17, <1>18, <1>19

(***************************************************************************)
(* The theorems.                                                           *)
(***************************************************************************)
LEMMA FenceInit == Init => FenceInvariant
<1> SUFFICES ASSUME Init PROVE FenceInvariant
  OBVIOUS
<1>1. TypeOK
  BY InitType
<1>2. /\ journal = NoJournal /\ late = {} /\ trans = Free /\ maint = NoMaint
      /\ rec = [s \in Slots |-> Idle] /\ row.token = NoRun
      /\ \/ row.status = "idle" /\ row.active = NoRun
         \/ row.status = "running" /\ row.active = Legacy /\ Legacy \in Runs
      /\ Legacy \in Runs => ~Unborn(Legacy)
  <2>1. PICK enabled \in BOOLEAN, legacy \in {FALSE, (Legacy \in limits.visits)} :
          row = [enabled |-> enabled,
                 status  |-> IF legacy THEN "running" ELSE "idle",
                 active  |-> IF legacy THEN Legacy ELSE NoRun,
                 lease   |-> IF legacy THEN "live" ELSE "none",
                 due     |-> IF enabled THEN "owner" ELSE "none",
                 token   |-> NoRun]
    BY DEF Init
  <2>2. /\ row.token = NoRun
        /\ row.status = IF legacy THEN "running" ELSE "idle"
        /\ row.active = IF legacy THEN Legacy ELSE NoRun
    BY <2>1
  <2>3. (legacy = FALSE) \/ (legacy = (Legacy \in limits.visits))
    BY <2>1
  <2>4. \/ row.status = "idle" /\ row.active = NoRun
        \/ row.status = "running" /\ row.active = Legacy /\ Legacy \in Runs
    <3>1. CASE legacy = FALSE
      BY <2>2, <3>1
    <3>2. CASE legacy = (Legacy \in limits.visits)
      <4>1. CASE Legacy \in limits.visits
        BY <1>1, <2>2, <3>2, <4>1 DEF TypeOK, Allowances
      <4>2. CASE Legacy \notin limits.visits
        BY <2>2, <3>2, <4>2
      <4> QED
        BY <4>1, <4>2
    <3> QED
      BY <2>3, <3>1, <3>2
  <2>5. Legacy \in Runs => ~Unborn(Legacy)
    BY DEF Init, Unborn, At
  <2>6. /\ journal = NoJournal /\ late = {} /\ trans = Free /\ maint = NoMaint
        /\ rec = [s \in Slots |-> Idle]
    BY DEF Init
  <2> QED
    BY <2>2, <2>4, <2>5, <2>6
<1>3. \A x, t \in RunOrNone : ~WritePending(x, t) /\ ~ClaimPending(x, t)
  BY <1>2 DEF WritePending, ClaimPending, Busy, Idle, NoJournal, Free
<1>4. JournalShape /\ RowShape /\ AdmissionShape /\ MaintenanceShape /\ SetupShape /\ ClaimIsSingle
  BY <1>2 DEF JournalShape, RowShape, AdmissionShape, MaintenanceShape, SetupShape, ClaimIsSingle,
              NoJournal, Free, Running
<1>5. UnbornIsFresh
  BY <1>2, <1>3, RunsAssumption DEF UnbornIsFresh, HeldBy, Running
<1>6. WritesAreRuns /\ TokenNeverReturns /\ ClaimIsDeadOrCurrent
  BY <1>1, <1>3 DEF WritesAreRuns, TokenNeverReturns, ClaimIsDeadOrCurrent, TypeOK, Rows
<1>7. ReconcilerKnowsToken /\ FencedBeforeRelease /\ FreeWhenReleased
  BY <1>2 DEF ReconcilerKnowsToken, FencedBeforeRelease, FreeWhenReleased, Busy, Idle
<1>8. RunningRowIsJournaled
  BY <1>2 DEF RunningRowIsJournaled, Running
<1> QED
  BY <1>1, <1>4, <1>5, <1>6, <1>7, <1>8 DEF FenceInvariant

LEMMA FenceNext == FenceInvariant /\ [Next]_vars => FenceInvariant'
<1> SUFFICES ASSUME FenceInvariant, [Next]_vars PROVE FenceInvariant'
  OBVIOUS
<1>1. TypeOK'
  BY NextType DEF FenceInvariant
<1>2. CASE UNCHANGED vars
  <2>1. UNCHANGED <<row, late, journal, rec, body, trans, maint>>
    BY <1>2 DEF vars, stored, memory
  <2> QED
    BY <1>1, <2>1, StillRow, StillRec, StillRest, StillShapes, QuietStep DEF Quiet, Unborn, At
<1>3. ASSUME NEW s \in Slots, Reconcile(s) PROVE FenceInvariant'
  BY <1>1, <1>3, ReconcileQuiet, QuietStep, ReleaseSettlesKeeps
<1>4. CASE Transition
  BY <1>1, <1>4, TransitionQuiet, QuietStep, BeginRunKeeps, ClaimRefusedKeeps
<1>5. ASSUME NEW r \in Runs, Visit(r) PROVE FenceInvariant'
  BY <1>1, <1>5, VisitQuiet, QuietStep
<1>6. CASE \/ \E r \in Runs : AdmitTick(r)
           \/ \E op \in MaintOps : BeginMaintenance(op)
           \/ \E c \in Callers : Request(c)
           \/ AlarmFires
  BY <1>1, <1>6, RequestQuiet, QuietStep
<1>7. CASE InactivityElapses \/ LeaseElapses \/ Owner
  BY <1>1, <1>7, ClockOwnerQuiet, QuietStep
<1>8. CASE LateCall \/ Crash \/ AbortHungTransition
  BY <1>1, <1>8, FaultQuiet, QuietStep
<1>9. CASE Next
  BY <1>3, <1>4, <1>5, <1>6, <1>7, <1>8, <1>9 DEF Next
<1> QED
  BY <1>2, <1>9

\* No statement that is still under way can bring a settled run back.
THEOREM ClaimsAreFenced == Spec => []FenceInvariant
  BY FenceInit, FenceNext, PTL DEF Spec

\* A row held by a journaled run always has the object watching that run.
THEOREM HeldRowsAreJournaled == Spec => []RunningRowIsJournaled
<1>1. FenceInvariant => RunningRowIsJournaled
  BY DEF FenceInvariant
<1> QED
  BY <1>1, ClaimsAreFenced, PTL

\* A step that drops a journal leaves nothing in D1 or under way that could
\* take the row for its run.
DropsReleased ==
  journal.run \in Runs /\ journal'.run # journal.run
    => /\ row.active # journal.run
       /\ \A c \in late : c.op = "claim" /\ c.run = journal.run => row.token # c.expect

LEMMA NotHeldIsNotActive ==
  ASSUME RowShape, NEW r \in Runs, ~HeldBy(r)
  PROVE  row.active # r
  BY RunsAssumption DEF RowShape, HeldBy

LEMMA ReleaseSettlesDrops ==
  ASSUME FenceInvariant, NEW s \in Slots, ReleaseSettles(s)
  PROVE  DropsReleased
<1>1. rec[s].pc = "released"
      /\ journal' = IF journal.run = rec[s].j.run THEN NoJournal ELSE journal
  BY DEF ReleaseSettles
<1>2. CASE rec[s].j.run = journal.run
  <2>1. /\ journal.run \in Runs /\ ~HeldBy(journal.run)
        /\ \A t \in RunOrNone : ClaimPending(journal.run, t) => row.token # t
    BY <1>1, <1>2, ReleasedFacts
  <2>2. row.active # journal.run
    BY <2>1, NotHeldIsNotActive DEF FenceInvariant
  <2>3. ASSUME NEW c \in late, c.op = "claim", c.run = journal.run
        PROVE  row.token # c.expect
    <3>1. c.expect \in RunOrNone
      BY DEF FenceInvariant, TypeOK, Calls
    <3>2. ClaimPending(journal.run, c.expect)
      BY <2>3 DEF ClaimPending
    <3> QED
      BY <2>1, <3>1, <3>2
  <2> QED
    BY <2>2, <2>3 DEF DropsReleased
<1>3. CASE rec[s].j.run # journal.run
  BY <1>1, <1>3 DEF DropsReleased
<1> QED
  BY <1>2, <1>3

LEMMA ClaimRefusedDrops ==
  ASSUME FenceInvariant, ClaimRefused
  PROVE  DropsReleased
<1>1. /\ trans.pc = "refused" /\ trans.run \in Runs
      /\ journal' = IF journal.run = trans.run THEN NoJournal ELSE journal
  BY DEF ClaimRefused, InTrans, AdmissionShape, FenceInvariant
<1>2. /\ \A c \in late : c.op = "claim" => c.run # trans.run
      /\ ~HeldBy(trans.run)
  BY <1>1 DEF FenceInvariant, ClaimIsSingle
<1>3. row.active # trans.run
  BY <1>1, <1>2, NotHeldIsNotActive DEF FenceInvariant
<1> QED
  BY <1>1, <1>2, <1>3 DEF DropsReleased

LEMMA FenceDrops == FenceInvariant /\ [Next]_vars => DropsReleased
<1> SUFFICES ASSUME FenceInvariant, [Next]_vars PROVE DropsReleased
  OBVIOUS
<1>1. CASE UNCHANGED vars
  BY <1>1 DEF vars, stored, DropsReleased
<1>2. TypeOK'
  BY NextType DEF FenceInvariant
<1>3. CASE Quiet
  BY <1>3 DEF Quiet, QuietJournal, DropsReleased
<1>4. ASSUME NEW s \in Slots, Reconcile(s) PROVE DropsReleased
  BY <1>2, <1>3, <1>4, ReconcileQuiet, ReleaseSettlesDrops
<1>5. CASE Transition
  <2>1. CASE BeginRun
    BY <2>1, RunsAssumption DEF BeginRun, InTrans, MaintenanceShape, JournalShape, FenceInvariant, DropsReleased
  <2> QED
    BY <1>2, <1>3, <1>5, <2>1, TransitionQuiet, ClaimRefusedDrops
<1>6. ASSUME NEW r \in Runs, Visit(r) PROVE DropsReleased
  BY <1>2, <1>3, <1>6, VisitQuiet
<1>7. CASE \/ \E r \in Runs : AdmitTick(r)
           \/ \E op \in MaintOps : BeginMaintenance(op)
           \/ \E c \in Callers : Request(c)
           \/ AlarmFires
  BY <1>2, <1>3, <1>7, RequestQuiet
<1>8. CASE InactivityElapses \/ LeaseElapses \/ Owner
  BY <1>2, <1>3, <1>8, ClockOwnerQuiet
<1>9. CASE LateCall \/ Crash \/ AbortHungTransition
  BY <1>2, <1>3, <1>9, FaultQuiet
<1>10. CASE Next
  BY <1>4, <1>5, <1>6, <1>7, <1>8, <1>9, <1>10 DEF Next
<1> QED
  BY <1>1, <1>10

\* Whatever failed, hung or was abandoned, a journal is dropped only when the
\* row is free of its run and no claim of that run can execute any more.
THEOREM DroppedJournalsAreReleased == Spec => SettledMeansReleased
<1>1. FenceInvariant /\ [Next]_vars => [DropsReleased]_vars
  BY FenceDrops
<1> QED
  BY <1>1, ClaimsAreFenced, PTL DEF Spec, SettledMeansReleased, DropsReleased

(***************************************************************************)
(* How a step moves the variables.                                         *)
(***************************************************************************)
\* D1 executes a statement that is under way, time passes, or the owner edits.
RowMoves ==
  \/ UNCHANGED <<row, bot>>
  \/ UNCHANGED bot /\ \E l \in {"none", "live", "expired"} : row' = [row EXCEPT !.lease = l]
  \/ \E c \in late \cup InFlight : Execute(c) /\ UNCHANGED journal
  \/ Owner

LateMoves == late' \subseteq late \cup InFlight

Closes ==
  /\ journal.kind = "active" /\ journal'.kind = "finalizing" /\ journal'.run = journal.run
  /\ journal'.pause = 0 \/ \E r \in Runs : At(r, "working") /\ r = journal.run
                                              /\ journal'.pause = body[r].rev
  /\ journal'.type = "completed" => stopReq # journal.run
  /\ journal'.type # "none"
  /\ UNCHANGED <<row, bot>>

JournalMoves ==
  \/ UNCHANGED journal
  \/ journal.kind = "active" /\ \E b \in BOOLEAN : journal' = [journal EXCEPT !.stale = b]
  \/ Closes
  \/ BeginRun \/ ClaimRefused \/ (\E s \in Slots : ReleaseSettles(s))
  \/ MaintenanceDone

\* What a reconciler that closes a journal did before.
RecMoves ==
  \A s \in Slots : Closing(s)' =>
    \/ rec'[s] = rec[s]
    \/ Closing(s) /\ \E n \in Nat : rec'[s] = Finalizer(rec[s].j, n)
    \/ /\ rec[s].pc \in {"pause", "fence", "release"}
       /\ Execute(ReconcilerCall(s))
       /\ ~(rec[s].pc = "pause" /\ bot.deleted)
       /\ rec'[s] = [rec[s] EXCEPT !.pc = AfterCall(@)]
    \/ journal'.kind = "finalizing" /\ \E n \in Nat : rec'[s] = Finalizer(journal', n)

\* A visit's code never starts again, and it starts by being admitted.
BodyMoves ==
  \A r \in Runs :
    \/ body'[r] = body[r]
    \/ BeginRun /\ r = trans.run
    \/ /\ body'[r].rev = body[r].rev /\ body[r].pc \notin {"unborn", "refused", "ended"}
       /\ body'[r].pc \notin {"unborn", "admitting"}
       /\ At(r, "admitting") => trans'.pc \notin {"claiming", "claimed", "refused"}
       /\ Live(r)' => Live(r) \/ (Admitted /\ r = trans.run)

TransMoves ==
  \/ UNCHANGED trans
  \/ trans' = Free
  \/ trans'.pc = "reap" /\ trans'.propose = FALSE
  \/ ReapStaleRun \/ StopDecides \/ (\E c \in Callers : StopReadsRow(c))
  \/ /\ trans'.pc \in {"reaped", "reapContext", "done", "stopAgain"}
     /\ trans'.pc = "reapContext" => trans.pc = "reapStale"
     /\ trans'.pc = "stopAgain" => trans.pc = "stopping"
     /\ trans'.victim = trans.victim /\ trans'.propose = trans.propose
  \/ AdmissionChecks \/ BeginRun \/ ClaimDone

MemoryMoves ==
  \/ UNCHANGED <<activeRun, aborted>>
  \/ Admitted \/ Reset
  \/ /\ aborted \subseteq aborted'
     /\ \/ activeRun' = activeRun
        \/ activeRun' = NoRun /\ \A r \in Runs : r = activeRun /\ Live(r)' => r \in aborted'

MaintMoves == maint' = maint \/ maint' = NoMaint \/ MaintenanceChecks

Moves == /\ RowMoves /\ LateMoves /\ JournalMoves /\ RecMoves /\ BodyMoves
         /\ TransMoves /\ MemoryMoves /\ MaintMoves

\* The calls that a handler waits for are those a reset abandons.
LEMMA CallsInFlight ==
  /\ \A s \in Slots : rec[s].pc \in {"pause", "fence", "release"} => ReconcilerCall(s) \in InFlight
  /\ \A r \in Runs : At(r, "renewing") => RenewCall(r) \in InFlight
  /\ trans.pc \in {"claiming", "reapStopped", "reapStale", "stopping"} => TransCall \in InFlight
  BY DEF InFlight

\* What a busy reconciler works on is a run.
LEMMA PendingIsRun ==
  ASSUME FenceInvariant, NEW s \in Slots, Busy(s)
  PROVE  rec[s].j.run \in Runs /\ (journal.run = rec[s].j.run => journal.kind # "none")
<1>1. rec[s].j.run \in RunOrNone /\ rec[s].j.claim \in RunOrNone
  BY DEF FenceInvariant, TypeOK, Reconcilers, Journals
<1>2. WritePending(rec[s].j.run, rec[s].j.claim)
  BY DEF WritePending
<1> QED
  BY <1>1, <1>2, RunsAssumption DEF FenceInvariant, WritesAreRuns, JournalShape

\* A journal that no reconciler has changed yet is taken up as it is.
LEMMA ReconcilerIsFinalizer ==
  ASSUME TypeOK, NEW stop \in BOOLEAN, Reconciler(stop).pc \notin {"idle", "context"}
  PROVE  journal.kind = "finalizing" /\ Reconciler(stop) = Finalizer(journal, terminal[journal.run])
  BY DEF Reconciler, Idle

LEMMA StartReconcileMoves ==
  ASSUME FenceInvariant, NEW s \in Slots, NEW stop \in BOOLEAN, NEW armed \in BOOLEAN,
         StartReconcile(s, stop, armed), UNCHANGED journal
  PROVE  RecMoves
<1> USE DEF FenceInvariant
<1> SUFFICES ASSUME NEW q \in Slots, Closing(q)', q = s
             PROVE  journal'.kind = "finalizing" /\ \E n \in Nat : rec'[q] = Finalizer(journal', n)
  BY DEF RecMoves, StartReconcile, TypeOK
<1>1. rec'[s] = Reconciler(stop)
  BY DEF StartReconcile, TypeOK
<1>2. journal.kind = "finalizing" /\ Reconciler(stop) = Finalizer(journal, terminal[journal.run])
  BY <1>1, ReconcilerIsFinalizer DEF Closing
<1>3. journal.run \in Runs
  BY <1>2 DEF JournalShape, TypeOK, Journals, RunOrNone
<1>4. terminal[journal.run] \in Nat
  BY <1>3 DEF TypeOK
<1> QED
  BY <1>1, <1>2, <1>4

LEMMA FinalizeRunMoves ==
  ASSUME FenceInvariant, NEW s \in Slots, NEW run \in Runs,
         NEW type \in {"completed", "failed", "stopped"}, NEW pause \in Nat,
         FinalizeRun(s, run, type, pause), UNCHANGED <<row, bot>>,
         pause = 0 \/ (At(run, "working") /\ pause = body[run].rev),
         type = "completed" => stopReq # run, ~Live(run)'
  PROVE  JournalMoves /\ RecMoves /\ MemoryMoves
<1> USE DEF FenceInvariant
<1>1. CASE ~Active(run)
  BY <1>1 DEF FinalizeRun, JournalMoves, RecMoves, MemoryMoves
<1>2. CASE Active(run)
  <2>1. journal.kind = "active" /\ journal.run = run
        /\ journal' = [finish(type) EXCEPT !.pause = pause]
    BY <1>2 DEF FinalizeRun, Active
  <2>2. /\ journal'.kind = "finalizing" /\ journal'.run = run /\ journal'.type = type
        /\ journal'.pause = pause
    BY <2>1 DEF finish, TypeOK, Journals
  <2>3. Closes
    BY <2>1, <2>2 DEF Closes
  <2>4. rec' = [rec EXCEPT ![s] = Finalizer(journal', 1)]
    BY <1>2 DEF FinalizeRun
  <2>5. RecMoves
    BY <2>2, <2>4 DEF RecMoves, TypeOK
  <2>6. MemoryMoves
    BY <1>2 DEF FinalizeRun, MemoryMoves
  <2> QED
    BY <2>3, <2>5, <2>6 DEF JournalMoves
<1> QED
  BY <1>1, <1>2

\* A slot that goes idle closes nothing.
LEMMA IdleMoves ==
  ASSUME TypeOK, NEW s \in Slots, rec' = [rec EXCEPT ![s] = Idle]
  PROVE  RecMoves
  BY DEF RecMoves, Closing, Idle, TypeOK

(***************************************************************************)
(* The moves of each action, group by group.                               *)
(***************************************************************************)
LEMMA ReconcileMoves ==
  ASSUME VisitInvariant, NEW s \in Slots, Reconcile(s)
  PROVE  Moves
<1> USE DEF VisitInvariant, FenceInvariant
<1>0. rec[s] \in Reconcilers /\ rec[s].j \in Journals /\ rec \in [Slots -> Reconcilers]
  BY DEF TypeOK, Reconcilers
<1>a. ASSUME UNCHANGED <<body, maint>>, trans' = trans \/ trans' = Free
      PROVE  BodyMoves /\ MaintMoves /\ TransMoves
  BY <1>a DEF BodyMoves, MaintMoves, TransMoves
<1>b. /\ UNCHANGED late => LateMoves
      /\ UNCHANGED <<row, bot>> => RowMoves
      /\ UNCHANGED <<activeRun, aborted>> => MemoryMoves
      /\ UNCHANGED journal => JournalMoves
  BY DEF LateMoves, RowMoves, MemoryMoves, JournalMoves
<1>1. CASE ContextArrives(s)
  <2> DEFINE run == rec[s].j.run
             ended == IF rec[s].stop THEN "stopped" ELSE "failed"
             final == IF Active(run) THEN finish(ended) ELSE journal
  <2>1. UNCHANGED <<row, bot, late, maint, body>> /\ (trans' = trans \/ trans' = Free)
    BY <1>1 DEF ContextArrives, Throws
  <2>2. journal' = final
    BY <1>1 DEF ContextArrives
  <2>3. Active(run) => Closes /\ journal'.kind = "finalizing"
    <3> SUFFICES ASSUME Active(run) PROVE Closes /\ journal'.kind = "finalizing"
      OBVIOUS
    <3>1. /\ journal'.kind = "finalizing" /\ journal'.run = journal.run
          /\ journal'.type = ended /\ journal'.pause = journal.pause
      BY <2>2 DEF finish, TypeOK, Journals
    <3>2. journal.pause = 0
      BY DEF Active, JournalOutcome
    <3> QED
      BY <2>1, <3>1, <3>2 DEF Closes, Active
  <2>4. JournalMoves
    BY <2>2, <2>3 DEF JournalMoves
  <2>5. RecMoves
    <3>1. CASE journal.run = run
      <4>1. rec' = [rec EXCEPT ![s] = Finalizer(journal', 1)]
        BY <1>1, <2>2, <3>1 DEF ContextArrives
      <4>2. journal.kind # "none"
        BY <1>0, <1>1, <3>1, PendingIsRun DEF ContextArrives, Busy
      <4>3. journal'.kind = "finalizing"
        BY <2>2, <2>3, <3>1, <4>2 DEF Active, TypeOK, Journals
      <4> QED
        BY <1>0, <4>1, <4>3 DEF RecMoves
    <3>2. CASE journal.run # run
      BY <1>1, <3>2, IdleMoves DEF ContextArrives, Throws
    <3> QED
      BY <3>1, <3>2
  <2>6. MemoryMoves
    BY <1>1 DEF ContextArrives, Abort, MemoryMoves
  <2> QED
    BY <1>a, <1>b, <2>1, <2>4, <2>5, <2>6 DEF Moves
<1>2. CASE ContextFails(s)
  BY <1>2, <1>a, <1>b, IdleMoves DEF ContextFails, Throws, Moves
<1>3. CASE LateContextArrives(s)
  <2>1. RecMoves
    BY <1>0, <1>3 DEF LateContextArrives, RecMoves, Closing
  <2> QED
    BY <1>3, <2>1, <1>a, <1>b DEF LateContextArrives, Moves
<1>4. CASE LateContextFails(s)
  BY <1>4, <1>a, <1>b, IdleMoves DEF LateContextFails, Moves, stored
<1>5. CASE ReconcilerCallDone(s)
  <2>1. ReconcilerCall(s) \in InFlight /\ UNCHANGED journal
    BY <1>5, CallsInFlight DEF ReconcilerCallDone, stored
  <2>2. RowMoves
    BY <1>5, <2>1 DEF ReconcilerCallDone, RowMoves
  <2>3. RecMoves
    BY <1>0, <1>5 DEF ReconcilerCallDone, RecMoves, Closing, Idle
  <2> QED
    BY <1>5, <2>1, <2>2, <2>3, <1>a, <1>b DEF ReconcilerCallDone, Moves
<1>6. CASE ReconcilerCallFails(s)
  <2>1. ReconcilerCall(s) \in InFlight
    BY <1>6, CallsInFlight DEF ReconcilerCallFails
  <2>2. LateMoves
    BY <1>6, <2>1 DEF ReconcilerCallFails, LateMoves
  <2> QED
    BY <1>6, <2>2, <1>a, <1>b, IdleMoves DEF ReconcilerCallFails, Moves, stored
<1>7. CASE ReleaseSettles(s)
  <2>1. JournalMoves
    BY <1>7 DEF JournalMoves
  <2> QED
    BY <1>7, <2>1, <1>a, <1>b, IdleMoves DEF ReleaseSettles, Moves
<1> QED
  BY <1>1, <1>2, <1>3, <1>4, <1>5, <1>6, <1>7 DEF Reconcile

LEMMA VisitMoves ==
  ASSUME VisitInvariant, NEW r \in Runs, Visit(r)
  PROVE  Moves
<1> USE DEF VisitInvariant, FenceInvariant
<1>0. r \in Slots /\ body \in [Runs -> Bodies] /\ body[r].rev \in Nat
  BY DEF Slots, TypeOK, Bodies
<1>t. body[r].pc \notin {"unborn", "refused", "ended", "admitting"}
  BY DEF Visit, At, BodyStarts, BodyNeverStarts, BodyProgresses, BodyRenews, RenewDone,
         RenewFails, BodyContinues, BodyCompletes, BodyFails, BodyStops, BodyEnds, Active,
         AdmittingShape
<1>a. ASSUME NEW pc, Goto(r, pc), pc \notin {"unborn", "admitting"},
             pc \in {"starting", "working", "renewing", "renewed"} => Live(r)
      PROVE  BodyMoves /\ body'[r].pc = pc
  BY <1>0, <1>t, <1>a DEF BodyMoves, Goto, At, Live, Bodies
<1>b. /\ UNCHANGED late => LateMoves
      /\ UNCHANGED <<row, bot>> => RowMoves
      /\ UNCHANGED <<activeRun, aborted>> => MemoryMoves
      /\ UNCHANGED journal => JournalMoves
      /\ UNCHANGED rec => RecMoves
      /\ UNCHANGED body => BodyMoves
      /\ UNCHANGED trans => TransMoves
      /\ UNCHANGED maint => MaintMoves
  BY DEF LateMoves, RowMoves, MemoryMoves, JournalMoves, RecMoves, BodyMoves, TransMoves,
         MaintMoves, Closing
<1>c. At(r, "renewing") => RenewCall(r) \in InFlight
  BY CallsInFlight
<1>1. CASE BodyStarts(r)
  BY <1>1, <1>a, <1>b DEF BodyStarts, Moves, stored, Live, At
<1>2. CASE BodyNeverStarts(r)
  BY <1>2, <1>a, <1>b DEF BodyNeverStarts, Moves, stored
<1>3. CASE BodyProgresses(r)
  <2>1. JournalMoves
    BY <1>3 DEF BodyProgresses, JournalMoves, Active
  <2> QED
    BY <1>3, <2>1, <1>b DEF BodyProgresses, Moves, memory
<1>4. CASE BodyRenews(r)
  BY <1>4, <1>a, <1>b DEF BodyRenews, Moves, stored, Live
<1>5. CASE RenewDone(r)
  <2>1. RowMoves
    BY <1>5, <1>c DEF RenewDone, RowMoves, stored
  <2> QED
    BY <1>5, <2>1, <1>a, <1>b DEF RenewDone, Moves, stored, Live
<1>6. ASSUME NEW type \in {"completed", "failed", "stopped"}, NEW pause \in Nat,
             FinalizeRun(r, r, type, pause), Goto(r, "closing"), UNCHANGED <<row, bot, maint, trans>>,
             pause = 0 \/ (At(r, "working") /\ pause = body[r].rev),
             type = "completed" => stopReq # r, LateMoves
      PROVE  Moves
  <2>1. BodyMoves /\ ~Live(r)'
    BY <1>6, <1>a DEF Live, At
  <2> QED
    BY <1>0, <1>6, <2>1, <1>b, FinalizeRunMoves DEF Moves
<1>7. CASE RenewFails(r)
  <2>1. LateMoves
    BY <1>7, <1>c DEF RenewFails, LateMoves
  <2>2. /\ FinalizeRun(r, r, "failed", 0) /\ Goto(r, "closing")
        /\ UNCHANGED <<row, bot, maint, trans>>
    BY <1>7 DEF RenewFails
  <2> QED
    BY <2>1, <2>2, <1>6
<1>8. CASE BodyContinues(r)
  BY <1>8, <1>a, <1>b DEF BodyContinues, Moves, stored, Live
<1>9. CASE BodyCompletes(r)
  BY <1>9, <1>6, <1>b DEF BodyCompletes, Stopped
<1>10. CASE BodyFails(r)
  BY <1>0, <1>10, <1>6, <1>b DEF BodyFails
<1>11. CASE BodyStops(r)
  <2>1. LateMoves
    BY <1>11, <1>c DEF BodyStops, LateMoves
  <2> QED
    BY <1>11, <2>1, <1>6 DEF BodyStops
<1>12. CASE BodyEnds(r)
  <2>1. BodyMoves /\ ~Live(r)'
    BY <1>12, <1>a DEF BodyEnds, Live, At
  <2>2. MemoryMoves
    BY <1>12, <2>1 DEF BodyEnds, MemoryMoves
  <2> QED
    BY <1>12, <2>1, <2>2, <1>b DEF BodyEnds, Moves
<1> QED
  BY <1>1, <1>2, <1>3, <1>4, <1>5, <1>7, <1>8, <1>9, <1>10, <1>11, <1>12 DEF Visit

\* Variables that a step leaves alone.
LEMMA StillMoves ==
  /\ UNCHANGED late => LateMoves
  /\ UNCHANGED <<row, bot>> => RowMoves
  /\ UNCHANGED <<activeRun, aborted>> => MemoryMoves
  /\ UNCHANGED journal => JournalMoves
  /\ UNCHANGED rec => RecMoves
  /\ UNCHANGED body => BodyMoves
  /\ UNCHANGED trans => TransMoves
  /\ trans' = Free => TransMoves
  /\ UNCHANGED maint => MaintMoves
  BY DEF LateMoves, RowMoves, MemoryMoves, JournalMoves, RecMoves, BodyMoves, TransMoves,
         MaintMoves, Closing

LEMMA TransitionMoves ==
  ASSUME VisitInvariant, Transition
  PROVE  Moves
<1> USE StillMoves DEF VisitInvariant, FenceInvariant
<1>0. trans \in Transitions /\ "trans" \in Slots /\ body \in [Runs -> Bodies]
  BY DEF TypeOK, Slots
\* The transition moves on to another of its stages.
<1>a. ASSUME NEW pc \in {"reaped", "reapContext", "done", "stopAgain"}, Step(pc),
             pc = "reapContext" => trans.pc = "reapStale",
             pc = "stopAgain" => trans.pc = "stopping"
      PROVE  TransMoves
  BY <1>0, <1>a DEF Step, TransMoves, Transitions
\* It executes the statement it waits for.
<1>b. ASSUME Execute(TransCall), UNCHANGED journal,
             trans.pc \in {"claiming", "reapStopped", "reapStale", "stopping"}
      PROVE  RowMoves
  BY <1>b, CallsInFlight DEF RowMoves
\* Its run's code leaves the admission.
<1>c. ASSUME trans.pc \in {"claiming", "claimed", "refused"}, NEW pc, Goto(trans.run, pc),
             trans'.pc \notin {"claiming", "claimed", "refused"},
             pc \in {"ended", "refused"} \/ (pc = "starting" /\ Admitted)
      PROVE  BodyMoves
  <2>1. At(trans.run, "admitting") /\ trans.run \in Runs
    BY <1>c DEF AdmittingShape, AdmissionShape
  <2>2. pc \notin {"unborn", "admitting"}
    BY <1>c
  <2> QED
    BY <1>0, <1>c, <2>1, <2>2 DEF BodyMoves, Goto, At, Live, Bodies
<1>1. CASE RecoverStaleRun
  <2>1. TransMoves
    BY <1>1 DEF RecoverStaleRun, TransMoves, Free
  <2> QED
    BY <1>1, <2>1 DEF RecoverStaleRun, Moves, stored
<1>2. CASE StopDecides
  <2>1. TransMoves
    BY <1>2 DEF TransMoves
  <2>2. MemoryMoves
    BY <1>2 DEF MemoryMoves, StopDecides
  <2> QED
    BY <1>2, <2>1, <2>2 DEF StopDecides, Moves, Requeue
<1>3. CASE ReapStaleRun
  <2>1. TransMoves
    BY <1>3 DEF TransMoves
  <2>2. RecMoves
    BY <1>0, <1>3, StartReconcileMoves DEF ReapStaleRun, StopRequested, TypeOK
  <2> QED
    BY <1>3, <2>1, <2>2 DEF ReapStaleRun, Moves, Requeue
<1>4. CASE ReapStoppedDone
  <2>1. RowMoves /\ TransMoves
    BY <1>4, <1>a, <1>b DEF ReapStoppedDone, InTrans
  <2> QED
    BY <1>4, <2>1 DEF ReapStoppedDone, Moves
<1>5. CASE ReapStaleDone
  <2>1. RowMoves
    BY <1>5, <1>b DEF ReapStaleDone, InTrans
  <2>2. TransMoves /\ MemoryMoves
    BY <1>5, <1>a DEF ReapStaleDone, AbortReaped, MemoryMoves, InTrans
  <2> QED
    BY <1>5, <2>1, <2>2 DEF ReapStaleDone, Moves
<1>6. CASE ReapContextArrives
  <2>1. TransMoves /\ MemoryMoves
    BY <1>6, <1>a DEF ReapContextArrives, AbortReaped, MemoryMoves
  <2> QED
    BY <1>6, <2>1 DEF ReapContextArrives, Moves, Requeue
<1>7. CASE AdmissionChecks
  <2>1. TransMoves
    BY <1>7 DEF TransMoves
  <2> QED
    BY <1>7, <2>1 DEF AdmissionChecks, Moves, Requeue, stored
<1>8. CASE BeginRun
  <2>1. JournalMoves /\ TransMoves
    BY <1>8 DEF JournalMoves, TransMoves
  <2>2. BodyMoves
    BY <1>8, <1>0 DEF BodyMoves, BeginRun
  <2> QED
    BY <1>8, <2>1, <2>2 DEF BeginRun, Moves
<1>9. CASE ClaimDone
  <2>1. RowMoves /\ TransMoves
    BY <1>9, <1>b DEF ClaimDone, TransMoves, InTrans, stored
  <2> QED
    BY <1>9, <2>1 DEF ClaimDone, Moves, stored
<1>10. CASE ClaimFails
  <2>1. trans.pc = "claiming" /\ trans.run \in Runs /\ trans'.pc = "done"
    BY <1>0, <1>10 DEF ClaimFails, InTrans, Step, AdmissionShape, Transitions
  <2>2. BodyMoves
    BY <1>10, <2>1, <1>c DEF ClaimFails
  <2>3. TransMoves /\ LateMoves
    BY <1>10, <2>1, <1>a, CallsInFlight DEF ClaimFails, LateMoves
  <2>4. JournalMoves /\ RecMoves /\ MemoryMoves
    <3>1. UNCHANGED trans.run /\ ~Live(trans.run)'
      <4>1. trans'.run = trans.run
        BY <1>0, <1>10 DEF ClaimFails, Step, Transitions
      <4>2. body'[trans.run].pc = "ended"
        BY <1>0, <1>10, <2>1 DEF ClaimFails, Goto, Bodies
      <4> QED
        BY <4>1, <4>2 DEF Live, At
    <3>2. FinalizeRun("trans", trans.run, "failed", 0) /\ UNCHANGED <<row, bot>>
      BY <1>10 DEF ClaimFails
    <3> QED
      BY <1>0, <2>1, <3>1, <3>2, FinalizeRunMoves
  <2> QED
    BY <1>10, <2>2, <2>3, <2>4 DEF ClaimFails, Moves
<1>11. CASE ClaimRefused
  <2>1. BodyMoves
    BY <1>11, <1>c DEF ClaimRefused, InTrans, Free
  <2>2. JournalMoves
    BY <1>11 DEF JournalMoves
  <2> QED
    BY <1>11, <2>1, <2>2 DEF ClaimRefused, Moves
<1>12. CASE Admitted
  <2>1. BodyMoves
    <3>1. trans.pc = "claimed" /\ trans' = Free /\ Free.pc = "free"
      BY <1>12 DEF Admitted, InTrans, Free
    <3>2. Goto(trans.run, "starting") \/ Goto(trans.run, "ended")
      BY <1>12 DEF Admitted
    <3> QED
      BY <1>12, <3>1, <3>2, <1>c
  <2>2. MemoryMoves
    BY <1>12 DEF MemoryMoves
  <2> QED
    BY <1>12, <2>1, <2>2 DEF Admitted, Moves
<1>13. CASE MaintenanceChecks
  <2>1. MaintMoves
    BY <1>13 DEF MaintMoves
  <2> QED
    BY <1>13, <2>1 DEF MaintenanceChecks, Moves, Requeue, stored
<1>14. CASE MarkRunStopped
  <2>1. RowMoves
    BY <1>14, <1>b DEF MarkRunStopped, InTrans
  <2>2. TransMoves
    BY <1>14, <1>a DEF MarkRunStopped, InTrans
  <2> QED
    BY <1>14, <2>1, <2>2 DEF MarkRunStopped, Moves
<1>15. CASE TransEnds
  BY <1>15 DEF TransEnds, Moves, Requeue, stored
<1>16. CASE TransFails
  <2>1. LateMoves
    BY <1>16, CallsInFlight DEF TransFails, LateMoves
  <2> QED
    BY <1>16, <2>1 DEF TransFails, Moves, stored
<1>17. CASE MaintenanceDone
  <2>1. JournalMoves /\ MaintMoves
    BY <1>17 DEF JournalMoves, MaintMoves, MaintenanceDone
  <2> QED
    BY <1>17, <2>1 DEF MaintenanceDone, Moves
<1>18. CASE MaintenanceFails
  <2>1. MaintMoves
    BY <1>18 DEF MaintMoves, MaintenanceFails
  <2> QED
    BY <1>18, <2>1 DEF MaintenanceFails, Moves, stored
<1>19. CASE StopReadsAgain
  BY <1>19 DEF StopReadsAgain, Moves, Requeue
<1> QED
  BY <1>19, <1>1, <1>2, <1>3, <1>4, <1>5, <1>6, <1>7, <1>8, <1>9, <1>10, <1>11, <1>12, <1>13, <1>14,
     <1>15, <1>16, <1>17, <1>18 DEF Transition

LEMMA RequestMoves ==
  ASSUME VisitInvariant,
         \/ \E r \in Runs : AdmitTick(r)
         \/ \E op \in MaintOps : BeginMaintenance(op)
         \/ \E c \in Callers : Request(c)
         \/ AlarmFires
  PROVE  Moves
<1> USE StillMoves DEF VisitInvariant, FenceInvariant
<1>1. ASSUME NEW r \in Runs, AdmitTick(r) PROVE Moves
  <2>1. TransMoves
    BY <1>1 DEF AdmitTick, TransMoves, Free
  <2>2. RecMoves
    BY <1>1, StartReconcileMoves DEF AdmitTick, StopRequested, Slots, TypeOK
  <2> QED
    BY <1>1, <2>1, <2>2 DEF AdmitTick, Moves
<1>2. ASSUME NEW op \in MaintOps, BeginMaintenance(op) PROVE Moves
  <2>1. TransMoves
    BY <1>2 DEF BeginMaintenance, TransMoves, Free
  <2> QED
    BY <1>2, <2>1 DEF BeginMaintenance, Moves, stored
<1>3. ASSUME NEW c \in Callers, StopTick(c) \/ RecoverJournal(c) PROVE Moves
  <2>1. /\ UNCHANGED <<row, bot, late, journal, activeRun, aborted, maint, body, trans>>
        /\ \E stop \in BOOLEAN : StartReconcile(c, stop, alarm)
    BY <1>3 DEF StopTick, RecoverJournal, StopRequested
  <2>2. RecMoves
    BY <2>1, StartReconcileMoves DEF Slots, TypeOK
  <2> QED
    BY <2>1, <2>2 DEF Moves
<1>4. CASE AlarmFires
  <2>1. RecMoves
    BY <1>4, StartReconcileMoves DEF AlarmFires, StopRequested, Slots
  <2> QED
    BY <1>4, <2>1 DEF AlarmFires, Moves
<1>5. ASSUME NEW c \in Callers, NEW x \in {Idle, [Idle EXCEPT !.pc = "queued"]},
             rec' = [rec EXCEPT ![c] = x]
      PROVE  RecMoves
  <2>1. \A s \in Slots : rec'[s] = IF s = c THEN x ELSE rec[s]
    BY <1>5 DEF TypeOK
  <2>2. x.pc \in {"idle", "queued"}
    BY DEF Idle
  <2>3. \A s \in Slots : Closing(s)' => s # c
    BY <2>1, <2>2 DEF Closing
  <2> QED
    BY <2>1, <2>3 DEF RecMoves
<1>7. ASSUME NEW c \in Callers, StopQueues(c) \/ StopFindsNothing(c) PROVE Moves
  <2>1. RecMoves
    BY <1>5, <1>7 DEF StopQueues, StopFindsNothing
  <2> QED
    BY <1>7, <2>1 DEF StopQueues, StopFindsNothing, Moves, stored
<1>8. ASSUME NEW c \in Callers, StopReadsRow(c) PROVE Moves
  <2>1. RecMoves
    BY <1>5, <1>8 DEF StopReadsRow
  <2>2. TransMoves
    BY <1>8 DEF TransMoves
  <2> QED
    BY <1>8, <2>1, <2>2 DEF StopReadsRow, Moves, Requeue, stored
<1> QED
  BY <1>1, <1>2, <1>3, <1>4, <1>7, <1>8 DEF Request

LEMMA ClockOwnerMoves ==
  ASSUME VisitInvariant, InactivityElapses \/ LeaseElapses \/ Owner
  PROVE  Moves
<1> USE StillMoves DEF VisitInvariant, FenceInvariant
<1>1. CASE InactivityElapses
  <2>1. JournalMoves
    BY <1>1 DEF InactivityElapses, JournalMoves
  <2>2. RowMoves
    BY <1>1 DEF InactivityElapses, RowMoves
  <2> QED
    BY <1>1, <2>1, <2>2 DEF InactivityElapses, Moves, memory
<1>2. CASE LeaseElapses
  <2>1. RowMoves
    BY <1>2 DEF LeaseElapses, RowMoves
  <2> QED
    BY <1>2, <2>1 DEF LeaseElapses, Moves, memory, stored
<1>3. CASE Owner
  <2>1. RowMoves
    BY <1>3 DEF RowMoves
  <2>2. UNCHANGED <<late, stored, memory>>
    BY <1>3 DEF Owner, OwnerPauses, OwnerResumes, OwnerReschedules, OwnerDeletes, Edit
  <2> QED
    BY <2>1, <2>2 DEF Moves, memory, stored
<1> QED
  BY <1>1, <1>2, <1>3

LEMMA FaultMoves ==
  ASSUME VisitInvariant, LateCall \/ Crash \/ AbortHungTransition
  PROVE  Moves
<1> USE StillMoves DEF VisitInvariant, FenceInvariant
<1>1. CASE LateCall
  <2>1. RowMoves /\ LateMoves
    BY <1>1 DEF LateCall, RowMoves, LateMoves, stored
  <2> QED
    BY <1>1, <2>1 DEF LateCall, Moves, stored, memory
<1>2. ASSUME Reset
      PROVE  /\ LateMoves /\ RecMoves /\ BodyMoves /\ TransMoves /\ MemoryMoves /\ MaintMoves
             /\ RowMoves
  <2>1. RecMoves
    BY <1>2 DEF Reset, RecMoves, Closing, Idle
  <2>2. BodyMoves
    <3>1. body \in [Runs -> Bodies]
      BY DEF TypeOK
    <3>2. trans'.pc = "free"
      BY <1>2 DEF Reset, Free
    <3>3. ASSUME NEW r \in Runs, body'[r] # body[r]
          PROVE  /\ body'[r].pc = "ended" /\ body'[r].rev = body[r].rev
                 /\ body[r].pc \notin {"unborn", "refused", "ended"}
      BY <1>2, <3>1, <3>3 DEF Reset, At, Bodies
    <3> QED
      BY <3>2, <3>3 DEF BodyMoves, Live, At
  <2>3. LateMoves /\ TransMoves /\ MemoryMoves /\ MaintMoves /\ RowMoves
    BY <1>2 DEF Reset, LateMoves, MemoryMoves, MaintMoves
  <2> QED
    BY <2>1, <2>2, <2>3
<1>3. CASE Crash
  BY <1>2, <1>3 DEF Crash, Moves
<1>4. CASE AbortHungTransition
  <2>1. Reset
    BY <1>4 DEF AbortHungTransition
  <2>2. JournalMoves
    <3>1. CASE journal.kind = "active"
      <4>1. /\ journal'.kind = "finalizing" /\ journal'.run = journal.run
            /\ journal'.type = "failed" /\ journal'.pause = journal.pause
        BY <1>4, <3>1 DEF AbortHungTransition, finish, TypeOK, Journals
      <4>2. journal.pause = 0 /\ UNCHANGED <<row, bot>>
        BY <2>1, <3>1 DEF JournalOutcome, Reset
      <4> QED
        BY <3>1, <4>1, <4>2 DEF JournalMoves, Closes
    <3>2. CASE journal.kind # "active"
      BY <1>4, <3>2 DEF AbortHungTransition
    <3> QED
      BY <3>1, <3>2
  <2> QED
    BY <1>2, <2>1, <2>2 DEF Moves
<1> QED
  BY <1>1, <1>3, <1>4

LEMMA NextMoves == VisitInvariant /\ [Next]_vars => Moves
<1> SUFFICES ASSUME VisitInvariant, [Next]_vars PROVE Moves
  OBVIOUS
<1>1. CASE UNCHANGED vars
  BY <1>1, StillMoves DEF vars, stored, memory, Moves
<1>2. CASE Next
  BY <1>2, ReconcileMoves, VisitMoves, TransitionMoves, RequestMoves, ClockOwnerMoves, FaultMoves
     DEF Next
<1> QED
  BY <1>1, <1>2

(***************************************************************************)
(* What the moves mean for the row and the journal.                        *)
(***************************************************************************)
\* The run without a journal never has one.
LEMMA JournalIsNotLegacy ==
  ASSUME VisitInvariant
  PROVE  journal.run \in Runs => journal.run # Legacy
<1>1. journal.claim \in RunOrNone
  BY DEF VisitInvariant, FenceInvariant, TypeOK, Journals
<1>2. journal.run \in Runs => WritePending(journal.run, journal.claim)
  BY RunsAssumption DEF VisitInvariant, FenceInvariant, JournalShape, WritePending
<1> QED
  BY <1>1, <1>2 DEF VisitInvariant, LegacyIsOver

\* A statement that is under way, whoever waits for it or waits no more.
LEMMA CallKinds ==
  ASSUME VisitInvariant, NEW c \in late \cup InFlight
  PROVE  /\ c \in Calls
         /\ c.op = "claim" => ClaimPending(c.run, c.expect)
         /\ c.op = "reap" => c.run = Legacy
         /\ c.op = "release" => /\ c.run \in Runs /\ ~Unborn(c.run)
                                /\ c.run = journal.run => journal.kind = "finalizing"
         /\ c.propose => c.run \notin Spotlight
<1> USE DEF VisitInvariant, FenceInvariant
<1>1. CASE c \in late
  BY <1>1 DEF TypeOK, ClaimPending, VictimIsOver, ReleaseIsOfClosed, ProposalsAreOrdinary
<1>2. ASSUME NEW s \in Slots, rec[s].pc \in {"pause", "fence", "release"}, c = ReconcilerCall(s)
      PROVE  /\ c \in Calls /\ c.op \notin {"claim", "reap"}
             /\ c.op = "release" => /\ rec[s].pc = "release" /\ c.run = rec[s].j.run
             /\ c.propose => c.run \notin Spotlight
  BY <1>2, ReconcilerCallType DEF ReconcilerCall, Call, runKeepsStandingSchedule
<1>3. ASSUME NEW s \in Slots, rec[s].pc = "release"
      PROVE  /\ rec[s].j.run \in Runs /\ ~Unborn(rec[s].j.run)
             /\ rec[s].j.run = journal.run => journal.kind = "finalizing"
  <2>1. rec[s].j.run \in RunOrNone /\ rec[s].j.claim \in RunOrNone
    BY DEF TypeOK, Reconcilers, Journals
  <2>2. WritePending(rec[s].j.run, rec[s].j.claim)
    BY <1>3 DEF WritePending, Busy
  <2> QED
    BY <1>3, <2>1, <2>2, PendingIsRun
       DEF UnbornIsFresh, ReconcilerHoldsFinal, ReleaseIsOfClosed, Closing, Busy
<1>4. ASSUME NEW r \in Runs, c = RenewCall(r)
      PROVE  c \in Calls /\ c.op = "renew" /\ ~c.propose
  BY <1>4, RenewCallType DEF RenewCall, Call
<1>5. ASSUME trans.pc \in {"claiming", "reapStopped", "reapStale", "stopping"}, c = TransCall
      PROVE  /\ c \in Calls
             /\ c.op = "claim" => ClaimPending(c.run, c.expect)
             /\ c.op = "reap" => c.run = Legacy
             /\ c.op = "release" => \/ c.run = Legacy /\ Legacy \in Runs
                                    \/ /\ c.run \in Runs /\ ~Unborn(c.run)
                                       /\ c.run = journal.run => journal.kind = "finalizing"
             /\ c.propose => c.run \notin Spotlight
  BY <1>5, TransCallType
     DEF TransCall, Call, ClaimPending, VictimIsOver, ProposalsAreOrdinary
<1>6. Legacy \in Runs => ~Unborn(Legacy) /\ journal.run # Legacy
  BY JournalIsNotLegacy DEF LegacyIsOver, Unborn, At
<1> QED
  BY <1>1, <1>2, <1>3, <1>4, <1>5, <1>6 DEF InFlight

\* The row is taken by the run of the journal, and freed of a run whose
\* journal is closed, or by a deletion.
RowTaken ==
  /\ HeldBy(journal.run)' /\ journal.run \in Runs /\ journal.run # Legacy
  /\ Running => row.active = journal.run
  /\ row.enabled /\ UNCHANGED <<journal, bot>>

RowFreed ==
  /\ ~Running' /\ row'.active = NoRun /\ Running /\ UNCHANGED <<journal, bot>>
  /\ row.active = journal.run => journal.kind = "finalizing"

RowDeleted == ~Running' /\ row'.active = NoRun /\ bot'.deleted /\ UNCHANGED journal

LEMMA HolderMoves ==
  ASSUME VisitInvariant, Moves
  PROVE  \/ row'.status = row.status /\ row'.active = row.active
         \/ RowTaken \/ RowFreed \/ RowDeleted
<1> USE DEF VisitInvariant, FenceInvariant
<1>0. row \in Rows /\ row.token \in RunOrNone
  BY DEF TypeOK, Rows
<1>1. ASSUME NEW c \in late \cup InFlight, Execute(c), UNCHANGED journal
      PROVE  \/ row'.status = row.status /\ row'.active = row.active
             \/ RowTaken \/ RowFreed
  <2>0. c \in Calls /\ c.run \in RunOrNone /\ c.expect \in RunOrNone
    BY CallKinds DEF Calls
  <2>1. CASE c.op = "claim" /\ claimGuard(c)
    <3>1. ClaimPending(c.run, row.token)
      BY <2>1, CallKinds DEF claimGuard
    <3>2. journal.run = c.run /\ c.run \in Runs
      BY <1>0, <2>0, <3>1 DEF ClaimIsDeadOrCurrent, WritesAreRuns, WritePending
    <3>3. journal.kind # "none" /\ c.run # Legacy
      BY <3>2, RunsAssumption, JournalIsNotLegacy DEF JournalShape
    <3>4. Running => row.active = c.run
      BY <3>2, <3>3 DEF RunningRowIsJournaled, LegacyRowIsFirst, HeldBy
    <3>5. PICK l \in Leases(c.run) : row' = claimRuntimeRun(c, l)
      BY <1>1, <2>1 DEF Execute
    <3>6. row'.status = "running" /\ row'.active = c.run /\ UNCHANGED bot
      BY <1>0, <1>1, <2>1, <3>5 DEF claimRuntimeRun, Rows, Execute
    <3> QED
      BY <1>1, <2>1, <3>2, <3>3, <3>4, <3>6 DEF RowTaken, HeldBy, Running, claimGuard
  <2>2. CASE c.op \in {"release", "reap"} /\ row' = released(c) /\ ownsRow(c)
    <3>1. row'.status # "running" /\ row'.active = NoRun
      BY <1>0, <2>0, <2>2 DEF released, Rows, Calls
    <3>2. c.run \in Runs
      BY <2>2 DEF ownsRow, RowShape
    <3>3. c.run = journal.run => journal.kind = "finalizing"
      BY <2>2, <3>2, CallKinds, JournalIsNotLegacy
    <3>4. UNCHANGED bot
      BY <1>1, <2>2 DEF Execute
    <3> QED
      BY <1>1, <2>2, <3>1, <3>3, <3>4 DEF RowFreed, ownsRow, Running
  <2>3. CASE \/ c.op = "claim" /\ ~claimGuard(c)
             \/ c.op \in {"release", "reap"} /\ ~(row' = released(c) /\ ownsRow(c))
             \/ c.op \in {"fence", "renew", "pause"}
    BY <1>0, <1>1, <2>0, <2>3
       DEF Execute, claimRuntimeRun, releaseRuntimeRun, releaseStaleRuntimeRun, consumeClaimToken,
           renewRuntimeRunLease, pauseBot, Rows
  <2> QED
    BY <2>0, <2>1, <2>2, <2>3 DEF Calls
<1>2. CASE Owner
  <2>1. CASE OwnerPauses \/ OwnerResumes \/ OwnerReschedules
    BY <1>0, <2>1 DEF OwnerPauses, OwnerResumes, OwnerReschedules, Edit, Rows
  <2>2. CASE OwnerDeletes
    <3>1. row'.status = "idle" /\ row'.active = NoRun /\ bot'.deleted /\ UNCHANGED journal
      BY <1>0, <2>2 DEF OwnerDeletes, Edit, Rows, stored
    <3> QED
      BY <3>1 DEF RowDeleted, Running
  <2> QED
    BY <1>2, <2>1, <2>2 DEF Owner
<1>3. RowMoves
  BY DEF Moves
<1> QED
  BY <1>0, <1>1, <1>2, <1>3 DEF RowMoves, Rows

\* A revision of the participant never comes back, nor does a deleted one.
LEMMA BotGrows ==
  ASSUME VisitInvariant, Moves
  PROVE  bot'.rev >= bot.rev /\ (bot.deleted => bot'.deleted)
<1> USE DEF VisitInvariant, FenceInvariant
<1>0. bot \in Bots
  BY DEF TypeOK
<1>1. ASSUME NEW c \in late \cup InFlight, Execute(c)
      PROVE  bot'.rev >= bot.rev /\ (bot.deleted => bot'.deleted)
  BY <1>0, <1>1 DEF Execute, Bots
<1>2. CASE Owner
  BY <1>0, <1>2 DEF Owner, OwnerPauses, OwnerResumes, OwnerReschedules, OwnerDeletes, Edit, Bots
<1> QED
  BY <1>0, <1>1, <1>2 DEF Moves, RowMoves, Bots

\* Only the beginning of a run brings a new write of the token.
LEMMA PendingMoves ==
  ASSUME FenceInvariant, [Next]_vars, NEW x \in RunOrNone, NEW t \in RunOrNone, WritePending(x, t)'
  PROVE  WritePending(x, t) \/ (BeginRun /\ x = trans.run)
<1>1. Quiet \/ BeginRun \/ ClaimRefused \/ \E s \in Slots : ReleaseSettles(s)
  <2>1. CASE UNCHANGED vars
    BY <2>1, StillRow, StillRec, StillRest DEF vars, stored, memory, Quiet
  <2>2. CASE Next
    BY <2>2, ReconcileQuiet, TransitionQuiet, VisitQuiet, RequestQuiet, ClockOwnerQuiet, FaultQuiet
       DEF Next
  <2> QED
    BY <2>1, <2>2
<1>2. CASE Quiet
  BY <1>2, QuietPending DEF FenceInvariant
<1>3. ASSUME UNCHANGED late, trans' = trans \/ trans' = Free, journal' = journal \/ journal' = NoJournal,
             \A s \in Slots : rec'[s] = rec[s] \/ rec'[s] = Idle
      PROVE  WritePending(x, t)
  BY <1>3 DEF WritePending, ClaimPending, Busy, NoJournal, Idle, Free
<1>4. CASE ClaimRefused
  BY <1>3, <1>4 DEF ClaimRefused
<1>5. ASSUME NEW s \in Slots, ReleaseSettles(s) PROVE WritePending(x, t)
  <2>1. \A q \in Slots : rec'[q] = rec[q] \/ rec'[q] = Idle
    BY <1>5 DEF ReleaseSettles, FenceInvariant, TypeOK
  <2> QED
    BY <1>3, <1>5, <2>1 DEF ReleaseSettles
<1>6. CASE BeginRun
  <2>1. journal'.run = trans.run /\ trans'.run = trans.run
    BY <1>6 DEF BeginRun, FenceInvariant, TypeOK, Transitions, NoJournal
  <2> QED
    BY <1>6, <2>1 DEF BeginRun, WritePending, ClaimPending, Busy
<1> QED
  BY <1>1, <1>2, <1>4, <1>5, <1>6

\* The run that is begun was unborn.
LEMMA BegunFacts ==
  ASSUME VisitInvariant, BeginRun
  PROVE  /\ trans.run \in Runs /\ Unborn(trans.run) /\ trans.run # Legacy
         /\ journal.kind = "none" /\ maint = NoMaint /\ activeRun = NoRun
         /\ ~HeldBy(Legacy) /\ ~bot.deleted
         /\ journal'.kind = "active" /\ journal'.run = trans.run
         /\ journal'.type = "none" /\ journal'.pause = 0 /\ trans'.run = trans.run
         /\ trans'.pc = "claiming"
         /\ body' = [body EXCEPT ![trans.run] = [pc |-> "admitting", rev |-> bot.rev]]
         /\ UNCHANGED <<row, bot, late, activeRun, aborted, maint, rec>>
<1> USE DEF VisitInvariant, FenceInvariant
<1>1. trans.pc = "setup" /\ ~bot.deleted
      /\ body' = [body EXCEPT ![trans.run] = [pc |-> "admitting", rev |-> bot.rev]]
      /\ UNCHANGED <<row, bot, late, activeRun, aborted, maint, rec>>
  BY DEF BeginRun, InTrans
<1>2. /\ trans.run \in Runs /\ Unborn(trans.run) /\ journal.kind = "none" /\ maint = NoMaint
      /\ activeRun = NoRun /\ ~HeldBy(Legacy)
  BY <1>1 DEF AdmissionShape, MaintenanceShape, SetupShape, LiveIsKnown, LegacyRowIsFirst
<1>3. trans.run # Legacy
  BY <1>2 DEF LegacyIsOver, Unborn, At
<1>4. /\ journal'.kind = "active" /\ journal'.run = trans.run
      /\ journal'.type = "none" /\ journal'.pause = 0
      /\ trans'.run = trans.run /\ trans'.pc = "claiming"
  BY DEF BeginRun, NoJournal, TypeOK, Transitions
<1> QED
  BY <1>1, <1>2, <1>3, <1>4

\* Where reapStaleRun goes next, and whom it is about to free.
LEMMA ReapStages ==
  ASSUME VisitInvariant, ReapStaleRun
  PROVE  /\ trans'.pc \in {"reaped", "reapStopped", "reapStale"}
         /\ trans'.pc # "reaped" => trans'.victim = Legacy /\ Legacy \in Runs
         /\ trans'.propose => trans'.victim \notin Spotlight
<1> USE DEF VisitInvariant, FenceInvariant
<1>1. CASE journal.kind # "none"
  BY <1>1 DEF ReapStaleRun, Step, TypeOK, Transitions, ProposalsAreOrdinary
<1>2. CASE journal.kind = "none"
  <2>1. /\ trans'.victim = row.active
        /\ trans'.propose => ~runKeepsStandingSchedule(row.active)
        /\ trans'.pc \in {"reaped", "reapStopped", "reapStale"}
        /\ trans'.pc # "reaped" => Running
    BY <1>2 DEF ReapStaleRun, TypeOK, Transitions
  <2>2. Running => row.active = Legacy /\ Legacy \in Runs
    BY <1>2, RunsAssumption DEF JournalShape, RowShape, RunningRowIsJournaled
  <2> QED
    BY <2>1, <2>2 DEF runKeepsStandingSchedule
<1> QED
  BY <1>1, <1>2

\* Where a /stop that holds the queue goes, and whom it is about to free.
LEMMA StopStages ==
  ASSUME VisitInvariant
  PROVE  /\ StopDecides => /\ trans'.pc \in {"free", "stopping"} /\ trans.pc = "stopRead"
                           /\ trans'.pc = "stopping" => activeRun # trans.victim
                           /\ trans' = Free \/ (/\ trans'.op = trans.op
                                                /\ trans'.victim = trans.victim
                                                /\ trans'.propose = trans.propose)
                           /\ trans'.propose => trans'.victim \notin Spotlight
         /\ (\E c \in Callers : StopReadsRow(c)) =>
              /\ trans'.pc = "stopRead" /\ Running /\ trans'.victim = row.active
              /\ trans'.propose => trans'.victim \notin Spotlight
<1> USE DEF VisitInvariant, FenceInvariant
<1>1. ASSUME StopDecides
      PROVE  /\ trans'.pc \in {"free", "stopping"} /\ trans.pc = "stopRead"
             /\ trans'.pc = "stopping" => activeRun # trans.victim
             /\ trans' = Free \/ (/\ trans'.op = trans.op
                                  /\ trans'.victim = trans.victim
                                  /\ trans'.propose = trans.propose)
  BY <1>1 DEF StopDecides, InTrans, Step, Free, TypeOK, Transitions
<1>2. ASSUME StopDecides, trans'.propose PROVE trans'.victim \notin Spotlight
  <2>1. trans' # Free
    BY <1>2 DEF Free
  <2> QED
    BY <1>1, <1>2, <2>1 DEF ProposalsAreOrdinary
<1>3. ASSUME NEW c \in Callers, StopReadsRow(c)
      PROVE  /\ trans'.pc = "stopRead" /\ Running /\ trans'.victim = row.active
             /\ trans'.propose => trans'.victim \notin Spotlight
  BY <1>3 DEF StopReadsRow, Free, runKeepsStandingSchedule
<1> QED
  BY <1>1, <1>2, <1>3

(***************************************************************************)
(* Each part of the invariant is kept.                                     *)
(***************************************************************************)
LEMMA LegacyIsOverKept ==
  ASSUME VisitInvariant, [Next]_vars, Moves
  PROVE  LegacyIsOver'
<1> USE DEF VisitInvariant, FenceInvariant
<1>1. Legacy \in Runs => body'[Legacy] = body[Legacy]
  BY BegunFacts DEF Moves, BodyMoves, LegacyIsOver, At
<1>2. ASSUME NEW t \in RunOrNone, WritePending(Legacy, t)' PROVE FALSE
  <2>1. Legacy \in RunOrNone
    BY RunsAssumption DEF RunOrNone
  <2>2. ~WritePending(Legacy, t)
    BY DEF LegacyIsOver
  <2> QED
    BY <1>2, <2>1, <2>2, PendingMoves, BegunFacts
<1> QED
  BY <1>1, <1>2 DEF LegacyIsOver, At

LEMMA LegacyRowIsFirstKept ==
  ASSUME VisitInvariant, Moves
  PROVE  LegacyRowIsFirst'
<1> USE DEF VisitInvariant, FenceInvariant
<1> SUFFICES ASSUME HeldBy(Legacy)'
             PROVE  journal'.kind = "none" /\ trans'.pc \notin {"setup", "claiming", "claimed", "refused"}
  BY DEF LegacyRowIsFirst
<1>1. HeldBy(Legacy)
  BY HolderMoves DEF HeldBy, Running, RowTaken, RowFreed, RowDeleted
<1>2. journal.kind = "none" /\ trans.pc \notin {"setup", "claiming", "claimed", "refused"} /\ Running
  BY <1>1 DEF LegacyRowIsFirst, HeldBy
<1>3. ~BeginRun
  BY <1>1, BegunFacts
<1>4. journal'.kind = "none"
  BY <1>2, <1>3 DEF Moves, JournalMoves, Closes, ClaimRefused, ReleaseSettles, MaintenanceDone,
                    NoJournal, stored
<1>5. trans'.pc \notin {"setup", "claiming", "claimed", "refused"}
  <2>1. CASE ReapStaleRun
    BY <2>1, ReapStages
  <2>2. CASE StopDecides \/ \E c \in Callers : StopReadsRow(c)
    BY <2>2, StopStages
  <2>3. CASE AdmissionChecks
    BY <1>2, <2>3 DEF AdmissionChecks, Free
  <2> QED
    BY <1>2, <1>3, <2>1, <2>2, <2>3 DEF Moves, TransMoves, ClaimDone, InTrans, Free
<1> QED
  BY <1>4, <1>5

\* A journal that is closed stays as it is until it is dropped.
LEMMA FinalStays ==
  ASSUME VisitInvariant, Moves, journal.kind = "finalizing"
  PROVE  journal' = journal \/ journal' = NoJournal
  BY BegunFacts DEF Moves, JournalMoves, Closes, ClaimRefused, ReleaseSettles, MaintenanceDone, stored

\* No run becomes unborn.
LEMMA BornStays ==
  ASSUME VisitInvariant, Moves, NEW r \in Runs, ~Unborn(r)
  PROVE  ~Unborn(r)'
  BY BegunFacts DEF Moves, BodyMoves, Unborn, At

LEMMA VictimIsOverKept ==
  ASSUME VisitInvariant, Moves, TypeOK'
  PROVE  VictimIsOver'
<1> USE DEF VisitInvariant, FenceInvariant
<1>0. /\ AdmissionChecks => trans' = Free \/ trans'.pc = "setup"
      /\ ClaimDone => trans'.pc \in {"claimed", "refused"}
      /\ BeginRun => trans'.pc = "claiming"
      /\ Free.pc = "free"
  BY BegunFacts DEF AdmissionChecks, ClaimDone, Step, TypeOK, Transitions, Free
<1>1. trans'.pc \in {"reapStopped", "reapStale", "reapContext"}
        => trans'.victim = Legacy /\ Legacy \in Runs
  <2>1. CASE ReapStaleRun
    BY <2>1, ReapStages
  <2>2. CASE ~ReapStaleRun
    BY <1>0, <2>2, StopStages DEF Moves, TransMoves, VictimIsOver
  <2> QED
    BY <2>1, <2>2
<1>2. ASSUME trans'.pc \in {"stopRead", "stopping", "stopAgain"}
      PROVE  /\ trans'.victim \in Runs /\ ~Unborn(trans'.victim)
             /\ \/ \E c \in Callers : StopReadsRow(c)
                \/ trans'.victim = trans.victim
  <2>1. ASSUME NEW c \in Callers, StopReadsRow(c)
        PROVE  trans'.victim \in Runs /\ ~Unborn(trans'.victim)
    <3>1. row.active \in Runs /\ HeldBy(row.active)
      BY <2>1 DEF StopReadsRow, RowShape, HeldBy
    <3> QED
      BY <2>1, <3>1, StopStages DEF UnbornIsFresh
  <2>2. CASE ~\E c \in Callers : StopReadsRow(c)
    <3>1. /\ trans'.victim = trans.victim
          /\ trans.pc \in {"stopRead", "stopping", "stopAgain"}
      BY <1>0, <1>2, <2>2, StopStages, ReapStages DEF Moves, TransMoves
    <3> QED
      BY <3>1 DEF VictimIsOver
  <2> QED
    BY <2>1, <2>2
<1>3. trans'.pc \in {"stopRead", "stopping", "stopAgain"}
        => trans'.victim \in Runs /\ \A r \in Runs : r = trans'.victim => ~Unborn(r)'
  BY <1>2, BornStays
<1>4. ASSUME trans'.pc = "stopping", journal'.run = trans'.victim
      PROVE  journal'.kind = "finalizing"
  <2>1. trans'.victim \in Runs /\ ~Unborn(trans'.victim) /\ trans'.victim = trans.victim
    BY <1>2, <1>4, StopStages
  <2>2. ~BeginRun
    BY <1>4, <1>0
  <2>3. journal.run = trans.victim
    BY <1>4, <2>1, <2>2, RunsAssumption
       DEF Moves, JournalMoves, Closes, ClaimRefused, ReleaseSettles, MaintenanceDone, stored, NoJournal,
           TypeOK, Journals
  <2>4. CASE trans = trans'
    <3>1. journal.kind = "finalizing"
      BY <1>4, <2>3, <2>4 DEF VictimIsOver
    <3> QED
      BY <1>4, <2>1, <3>1, FinalStays, RunsAssumption DEF NoJournal
  <2>5. CASE StopDecides
    <3>1. activeRun # trans.victim /\ trans.pc = "stopRead" /\ journal' = journal
      BY <1>4, <2>5, StopStages DEF StopDecides
    <3>2. journal.kind # "active"
      BY <2>3, <3>1 DEF StopKnowsVisit
    <3>3. journal.kind # "none"
      BY <2>1, <2>3, RunsAssumption DEF JournalShape
    <3> QED
      BY <3>1, <3>2, <3>3 DEF TypeOK, Journals
  <2> QED
    BY <1>0, <1>4, <2>2, <2>4, <2>5, StopStages, ReapStages DEF Moves, TransMoves
<1>5. \A c \in late' : c.op = "reap" => c.run = Legacy
  BY CallKinds DEF Moves, LateMoves
<1> QED
  BY <1>1, <1>3, <1>4, <1>5 DEF VictimIsOver, Unborn, At

LEMMA JournalOutcomeKept ==
  ASSUME VisitInvariant, Moves
  PROVE  JournalOutcome'
<1> USE DEF VisitInvariant, FenceInvariant
<1>1. NoJournal.kind = "none"
  BY DEF NoJournal
<1>2. CASE BeginRun
  BY <1>2, BegunFacts DEF JournalOutcome
<1>3. CASE UNCHANGED journal \/ journal' = NoJournal \/ Closes
  BY <1>1, <1>3 DEF JournalOutcome, Closes
<1>4. ASSUME journal.kind = "active", NEW b \in BOOLEAN, journal' = [journal EXCEPT !.stale = b]
      PROVE  JournalOutcome'
  BY <1>4 DEF JournalOutcome, TypeOK, Journals
<1> QED
  BY <1>2, <1>3, <1>4 DEF Moves, JournalMoves, ClaimRefused, ReleaseSettles, MaintenanceDone, stored

\* A journal's run changes only where one is begun or dropped.
LEMMA SameRunSameJournal ==
  ASSUME VisitInvariant, Moves, NEW s \in Slots, Busy(s), rec[s].j.run = journal'.run
  PROVE  journal.run = journal'.run
<1> USE DEF VisitInvariant, FenceInvariant
<1>1. rec[s].j.run \in Runs
  BY PendingIsRun
<1>2. ~BeginRun
  <2>1. rec[s].j.run \in RunOrNone /\ rec[s].j.claim \in RunOrNone
    BY DEF TypeOK, Reconcilers, Journals
  <2>2. WritePending(rec[s].j.run, rec[s].j.claim)
    BY DEF WritePending
  <2> QED
    BY <2>1, <2>2, BegunFacts DEF UnbornIsFresh
<1>3. journal' # NoJournal
  BY <1>1, RunsAssumption DEF NoJournal
<1> QED
  BY <1>2, <1>3 DEF Moves, JournalMoves, Closes, ClaimRefused, ReleaseSettles, MaintenanceDone, stored,
                    TypeOK, Journals

\* A reconciler that closes a journal keeps it, or has just taken it up.
LEMMA RecJournalMoves ==
  ASSUME TypeOK, Moves, NEW s \in Slots, Closing(s)'
  PROVE  \/ Closing(s) /\ rec'[s].j = rec[s].j
         \/ journal'.kind = "finalizing" /\ rec'[s].j = journal'
<1>1. \A j, n : Finalizer(j, n).j = j
  BY DEF Finalizer
<1>2. rec[s] \in Reconcilers
  BY DEF TypeOK
<1>3. CASE rec'[s] = rec[s]
  BY <1>3 DEF Closing
<1>4. CASE /\ rec[s].pc \in {"pause", "fence", "release"}
           /\ rec'[s] = [rec[s] EXCEPT !.pc = AfterCall(@)]
  BY <1>2, <1>4 DEF Closing, Reconcilers
<1>5. CASE ~(rec'[s] = rec[s])
           /\ ~(/\ rec[s].pc \in {"pause", "fence", "release"}
                /\ rec'[s] = [rec[s] EXCEPT !.pc = AfterCall(@)])
  BY <1>1, <1>5 DEF Moves, RecMoves
<1> QED
  BY <1>3, <1>4, <1>5

LEMMA ReconcilerHoldsFinalKept ==
  ASSUME VisitInvariant, Moves, FenceInvariant'
  PROVE  ReconcilerHoldsFinal'
<1> USE DEF VisitInvariant, FenceInvariant
<1> SUFFICES ASSUME NEW s \in Slots, Closing(s)', rec'[s].j.run = journal'.run
             PROVE  rec'[s].j = journal' /\ journal'.kind = "finalizing"
  BY DEF ReconcilerHoldsFinal, Closing
<1>1. CASE Closing(s) /\ rec'[s].j = rec[s].j
  <2>1. Busy(s) /\ rec[s].j.run \in Runs
    BY <1>1, PendingIsRun DEF Busy, Closing
  <2>2. rec[s].j = journal /\ journal.kind = "finalizing"
    BY <1>1, <2>1, SameRunSameJournal DEF ReconcilerHoldsFinal
  <2>3. journal' = journal
    BY <1>1, <2>1, <2>2, FinalStays, RunsAssumption DEF NoJournal
  <2> QED
    BY <1>1, <2>2, <2>3
<1>2. \/ Closing(s) /\ rec'[s].j = rec[s].j
      \/ journal'.kind = "finalizing" /\ rec'[s].j = journal'
  BY RecJournalMoves
<1> QED
  BY <1>1, <1>2

LEMMA PauseIsOfThePastKept ==
  ASSUME VisitInvariant, Moves
  PROVE  PauseIsOfThePast'
<1> USE DEF VisitInvariant, FenceInvariant
<1>0. /\ bot.rev \in Nat /\ bot'.rev \in Nat /\ bot'.rev >= bot.rev
      /\ journal.pause \in Nat /\ \A r \in Runs : body[r].rev \in Nat
  <2>1. bot'.rev \in Nat
    <3>1. ASSUME NEW c \in late \cup InFlight, Execute(c) PROVE bot'.rev \in Nat
      BY <3>1 DEF Execute, TypeOK, Bots
    <3>2. Owner => bot'.rev \in Nat
      BY DEF Owner, OwnerPauses, OwnerResumes, OwnerReschedules, OwnerDeletes, Edit, TypeOK, Bots
    <3> QED
      BY <3>1, <3>2 DEF Moves, RowMoves, TypeOK, Bots
  <2> QED
    BY <2>1, BotGrows DEF TypeOK, Bots, Bodies, Journals
<1>1. \A r \in Runs : body'[r].rev <= bot'.rev
  <2> TAKE r \in Runs
  <2>1. CASE body'[r].rev = body[r].rev
    BY <1>0, <2>1 DEF PauseIsOfThePast
  <2>2. CASE BeginRun /\ r = trans.run
    BY <1>0, <2>2, BegunFacts DEF TypeOK, Bodies
  <2> QED
    BY <2>1, <2>2 DEF Moves, BodyMoves
<1>2. journal'.pause <= bot'.rev
  <2>1. CASE journal'.pause = journal.pause \/ journal'.pause = 0
    BY <1>0, <2>1 DEF PauseIsOfThePast
  <2>2. CASE Closes
    BY <1>0, <2>2 DEF Closes, PauseIsOfThePast
  <2>3. journal'.pause = journal.pause \/ journal'.pause = 0 \/ Closes
    BY BegunFacts DEF Moves, JournalMoves, ClaimRefused, ReleaseSettles, MaintenanceDone, stored, NoJournal,
                      TypeOK, Journals
  <2> QED
    BY <2>1, <2>2, <2>3
<1> QED
  BY <1>1, <1>2 DEF PauseIsOfThePast

\* Settled is settled for good.
LEMMA SettledStays ==
  ASSUME VisitInvariant, TypeOK', Moves, PauseSettled, journal' = journal
  PROVE  PauseSettled'
  BY BotGrows DEF PauseSettled, VisitInvariant, FenceInvariant, TypeOK, Bots, Journals

LEMMA ReleaseIsOfClosedKept ==
  ASSUME VisitInvariant, Moves, TypeOK', ReconcilerHoldsFinal'
  PROVE  ReleaseIsOfClosed'
<1> USE DEF VisitInvariant, FenceInvariant
<1>1. ASSUME NEW s \in Slots, rec'[s].pc \in {"fence", "release", "released"},
             rec'[s].j.run = journal'.run
      PROVE  PauseSettled'
  <2>1. rec'[s].j = journal' /\ Closing(s)'
    BY <1>1 DEF ReconcilerHoldsFinal, Closing
  <2>2. ASSUME Closing(s), rec'[s].j = rec[s].j
        PROVE  rec[s].j = journal /\ journal' = journal
    BY <2>1, <2>2, SameRunSameJournal DEF ReconcilerHoldsFinal, Closing, Busy
  <2>3. CASE Closing(s) /\ rec'[s].j = rec[s].j /\ rec[s].pc \in {"fence", "release", "released"}
    BY <2>2, <2>3, SettledStays DEF ReleaseIsOfClosed
  <2>4. CASE \E j, n : rec'[s] = Finalizer(j, n)
    BY <1>1, <2>1, <2>4 DEF Finalizer, PauseSettled
  <2>5. CASE rec[s].pc = "pause" /\ Execute(ReconcilerCall(s)) /\ ~bot.deleted /\ rec'[s].j = rec[s].j
    <3>1. rec[s].j = journal /\ journal' = journal
      BY <2>2, <2>5 DEF Closing
    <3>2. ReconcilerCall(s).op = "pause" /\ ReconcilerCall(s).rev = journal.pause
      BY <2>5, <3>1 DEF ReconcilerCall, Call
    <3>3. bot' = IF bot.rev = journal.pause THEN [bot EXCEPT !.rev = @ + 1] ELSE bot
      BY <2>5, <3>2 DEF Execute
    <3> QED
      BY <3>1, <3>3 DEF PauseSettled, PauseIsOfThePast, TypeOK, Bots, Journals
  <2>6. rec[s] \in Reconcilers
    BY DEF TypeOK
  <2> QED
    BY <2>1, <2>3, <2>4, <2>5, <2>6, <1>1 DEF Moves, RecMoves, Closing, Reconcilers
<1>2. ASSUME NEW c \in late', c.op = "release"
      PROVE  /\ c.run \in Runs /\ ~Unborn(c.run)'
             /\ c.run = journal'.run => journal'.kind = "finalizing"
  <2>1. /\ c.run \in Runs /\ ~Unborn(c.run)
        /\ c.run = journal.run => journal.kind = "finalizing"
    BY <1>2, CallKinds DEF Moves, LateMoves
  <2>2. ~BeginRun \/ c.run # journal'.run
    BY <2>1, BegunFacts
  <2>3. ASSUME c.run = journal'.run
        PROVE  c.run = journal.run
    BY <2>1, <2>2, <2>3, RunsAssumption
       DEF Moves, JournalMoves, Closes, ClaimRefused, ReleaseSettles, MaintenanceDone, stored, NoJournal,
           TypeOK, Journals
  <2>4. ASSUME c.run = journal'.run
        PROVE  journal' = journal
    BY <2>1, <2>3, <2>4, FinalStays, RunsAssumption DEF NoJournal
  <2> QED
    BY <2>1, <2>3, <2>4, BornStays
<1> QED
  BY <1>1, <1>2 DEF ReleaseIsOfClosed, Unborn, At

LEMMA AdmittingShapeKept ==
  ASSUME VisitInvariant, Moves
  PROVE  AdmittingShape'
<1> USE DEF VisitInvariant, FenceInvariant
<1> SUFFICES ASSUME trans'.pc \in {"claiming", "claimed", "refused"}
             PROVE  /\ body'[trans'.run].pc = "admitting"
                    /\ journal'.run = trans'.run => journal'.pause = 0
  BY DEF AdmittingShape, At
<1>1. CASE BeginRun
  BY <1>1, BegunFacts DEF TypeOK
<1>2. CASE ~BeginRun
  <2>1. trans.pc \in {"claiming", "claimed", "refused"} /\ trans'.run = trans.run
    <3>1. CASE ReapStaleRun
      BY <3>1, ReapStages
    <3>2. CASE StopDecides \/ \E c \in Callers : StopReadsRow(c)
      BY <3>2, StopStages
    <3>3. CASE AdmissionChecks
      BY <3>3 DEF AdmissionChecks, Free, Step, TypeOK, Transitions
    <3>4. CASE ClaimDone
      BY <3>4 DEF ClaimDone, InTrans, Step, TypeOK, Transitions
    <3> QED
      BY <1>2, <3>1, <3>2, <3>3, <3>4 DEF Moves, TransMoves, Free
  <2>2. At(trans.run, "admitting") /\ trans.run \in Runs
        /\ (journal.run = trans.run => journal.pause = 0)
    BY <2>1 DEF AdmittingShape, AdmissionShape
  <2>3. body'[trans.run] = body[trans.run]
    BY <1>2, <2>2 DEF Moves, BodyMoves
  <2>4. ASSUME journal'.run = trans.run PROVE journal'.pause = 0
    <3>1. CASE Closes
      BY <2>2, <2>4, <3>1 DEF Closes, At
    <3>2. CASE ~Closes
      BY <1>2, <2>2, <2>4, <3>2, RunsAssumption
         DEF Moves, JournalMoves, ClaimRefused, ReleaseSettles, MaintenanceDone, stored, NoJournal,
             TypeOK, Journals
    <3> QED
      BY <3>1, <3>2
  <2> QED
    BY <2>1, <2>2, <2>3, <2>4 DEF At
<1> QED
  BY <1>1, <1>2

\* A visit that may publish did so before, or has just been admitted.
LEMMA LiveMoves ==
  ASSUME VisitInvariant, Moves, NEW r \in Runs, Live(r)'
  PROVE  Live(r) \/ (Admitted /\ r = trans.run)
<1>1. CASE body'[r] = body[r]
  BY <1>1 DEF Live, At
<1>2. CASE BeginRun /\ r = trans.run
  BY <1>2, BegunFacts DEF Live, At, VisitInvariant, FenceInvariant, TypeOK
<1> QED
  BY <1>1, <1>2 DEF Moves, BodyMoves

\* What an admission that is over has done.
LEMMA AdmittedFacts ==
  ASSUME VisitInvariant, Admitted
  PROVE  /\ trans.pc = "claimed" /\ activeRun = NoRun /\ trans' = Free /\ aborted' = aborted
         /\ UNCHANGED <<row, bot, journal, maint>>
         /\ Active(trans.run) => activeRun' = trans.run
         /\ ~Active(trans.run) => activeRun' = activeRun /\ ~Active(trans.run) /\ body'[trans.run].pc = "ended"
<1> USE DEF VisitInvariant, FenceInvariant
<1>1. trans.pc = "claimed" /\ trans.run \in Runs /\ activeRun = NoRun
  BY DEF Admitted, InTrans, AdmissionShape, LiveIsKnown
<1> QED
  BY <1>1 DEF Admitted, Goto, TypeOK, Bodies

LEMMA LiveIsKnownKept ==
  ASSUME VisitInvariant, Moves
  PROVE  LiveIsKnown'
<1> USE DEF VisitInvariant, FenceInvariant
<1>1. ASSUME NEW r \in Runs, Live(r)' PROVE activeRun' = r \/ r \in aborted'
  <2>1. CASE Admitted
    <3>1. CASE r = trans.run
      BY <1>1, <2>1, <3>1, AdmittedFacts DEF Live, At
    <3>2. CASE r # trans.run
      <4>1. Live(r) /\ r # NoRun
        BY <1>1, <3>2, LiveMoves, RunsAssumption
      <4> QED
        BY <2>1, <4>1, AdmittedFacts DEF LiveIsKnown
    <3> QED
      BY <3>1, <3>2
  <2>2. CASE Reset
    <3>1. body'[r].pc \in {"unborn", "refused", "ended"}
      BY <2>2 DEF Reset, At, TypeOK, Bodies
    <3> QED
      BY <1>1, <3>1 DEF Live, At
  <2>3. CASE ~Admitted /\ ~Reset
    <3>1. Live(r) /\ (activeRun = r \/ r \in aborted)
      BY <1>1, <2>3, LiveMoves DEF LiveIsKnown
    <3> QED
      BY <1>1, <2>3, <3>1 DEF Moves, MemoryMoves
  <2> QED
    BY <2>1, <2>2, <2>3
<1>2. ASSUME trans'.pc \in {"setup", "claiming", "claimed", "refused"} PROVE activeRun' = NoRun
  <2>1. activeRun = NoRun
    <3>1. CASE ReapStaleRun
      BY <1>2, <3>1, ReapStages
    <3>2. CASE StopDecides \/ \E c \in Callers : StopReadsRow(c)
      BY <1>2, <3>2, StopStages
    <3>3. CASE AdmissionChecks
      BY <1>2, <3>3 DEF AdmissionChecks, Free
    <3>4. CASE ClaimDone
      BY <3>4 DEF ClaimDone, InTrans, LiveIsKnown
    <3> QED
      BY <1>2, <3>1, <3>2, <3>3, <3>4, BegunFacts DEF Moves, TransMoves, Free, LiveIsKnown
  <2>2. ~Admitted
    BY <1>2, AdmittedFacts DEF Free
  <2> QED
    BY <2>1, <2>2 DEF Moves, MemoryMoves, Reset
<1> QED
  BY <1>1, <1>2 DEF LiveIsKnown

\* A journal that is active was so before, or has just been begun.
LEMMA ActiveMoves ==
  ASSUME VisitInvariant, Moves, NEW r \in Runs, Active(r)'
  PROVE  Active(r) \/ (BeginRun /\ r = trans.run)
<1>1. BeginRun => journal'.run = trans.run
  BY BegunFacts
<1> QED
  BY <1>1 DEF Moves, JournalMoves, Closes, ClaimRefused, ReleaseSettles, MaintenanceDone, stored, NoJournal,
         Active, VisitInvariant, FenceInvariant, TypeOK, Journals

\* The row of an active journal's run is not taken from it.
LEMMA ActiveKeepsRow ==
  ASSUME VisitInvariant, Moves, NEW r \in Runs, Active(r), HeldBy(r), ~bot'.deleted
  PROVE  HeldBy(r)'
  BY HolderMoves DEF HeldBy, Running, RowTaken, RowFreed, RowDeleted, Active

\* Only an answered claim leads to the stage that follows it.
LEMMA ClaimedStage ==
  ASSUME VisitInvariant, Moves, trans'.pc = "claimed"
  PROVE  (trans' = trans \/ ClaimDone) /\ trans'.run = trans.run
<1> USE DEF VisitInvariant, FenceInvariant
<1>1. ~ReapStaleRun /\ ~BeginRun
  BY ReapStages, BegunFacts
<1>2. ~StopDecides /\ ~\E c \in Callers : StopReadsRow(c)
  BY StopStages
<1>3. ~AdmissionChecks
  BY DEF AdmissionChecks, Free, Step, TypeOK, Transitions
<1>4. trans' = trans \/ ClaimDone
  BY <1>1, <1>2, <1>3 DEF Moves, TransMoves, Free
<1> QED
  BY <1>4 DEF ClaimDone, Step, TypeOK, Transitions

LEMMA ClaimedHoldsRowKept ==
  ASSUME VisitInvariant, Moves
  PROVE  ClaimedHoldsRow'
<1> USE DEF VisitInvariant, FenceInvariant
<1> SUFFICES ASSUME trans'.pc = "claimed", Active(trans.run)', ~bot'.deleted, trans'.run = trans.run
             PROVE  HeldBy(trans.run)'
  BY ClaimedStage DEF ClaimedHoldsRow
<1>1. trans' = trans \/ ClaimDone
  BY ClaimedStage
<1>2. CASE trans' = trans
  <2>1. trans.run \in Runs /\ ~BeginRun
    BY <1>2, BegunFacts DEF AdmissionShape
  <2>2. Active(trans.run) /\ ~bot.deleted
    BY <1>2, <2>1, ActiveMoves, BotGrows DEF Active
  <2> QED
    BY <1>2, <2>1, <2>2, ActiveKeepsRow DEF ClaimedHoldsRow, HeldBy, Running
<1>3. CASE ClaimDone
  <2>1. trans.pc = "claiming" /\ claimGuard(TransCall) /\ Execute(TransCall)
    BY <1>3 DEF ClaimDone, InTrans, Step, TypeOK, Transitions
  <2>2. TransCall.op = "claim" /\ TransCall.run = trans.run
    BY <2>1 DEF TransCall, Call
  <2>3. row'.status = "running" /\ row'.active = trans.run
    BY <2>1, <2>2 DEF Execute, claimRuntimeRun, TypeOK, Rows
  <2> QED
    BY <2>3 DEF HeldBy, Running
<1> QED
  BY <1>1, <1>2, <1>3

LEMMA PublishingRunHoldsRowKept ==
  ASSUME VisitInvariant, Moves
  PROVE  PublishingRunHoldsRow'
<1> USE DEF VisitInvariant, FenceInvariant
<1> SUFFICES ASSUME NEW r \in Runs, Live(r)', Active(r)', ~bot'.deleted
             PROVE  HeldBy(r)'
  BY DEF PublishingRunHoldsRow, HeldBy
<1>1. Live(r) \/ (Admitted /\ r = trans.run)
  BY LiveMoves
<1>2. ~BeginRun
  <2> SUFFICES ASSUME BeginRun PROVE FALSE
    OBVIOUS
  <2>1. r = trans.run /\ body'[r].pc = "admitting"
    BY BegunFacts DEF Active, TypeOK
  <2> QED
    BY <2>1 DEF Live, At
<1>3. Active(r) /\ ~bot.deleted
  BY <1>2, ActiveMoves, BotGrows
<1>4. HeldBy(r)
  BY <1>1, <1>3, AdmittedFacts DEF PublishingRunHoldsRow, ClaimedHoldsRow, HeldBy
<1> QED
  BY <1>3, <1>4, ActiveKeepsRow

\* What an owner's edit leaves behind.
LEMMA OwnerEdits ==
  ASSUME VisitInvariant, Owner
  PROVE  (bot'.deleted => ~row'.enabled) /\ (row'.enabled <=> row'.due # "none")
<1>1. row \in Rows /\ (row.enabled <=> row.due # "none")
  BY DEF VisitInvariant, FenceInvariant, TypeOK, ScheduleFollowsPause
<1>2. CASE OwnerPauses
  BY <1>1, <1>2 DEF OwnerPauses, Edit, Rows
<1>3. CASE OwnerResumes
  <2>1. row' = [row EXCEPT !.enabled = TRUE, !.due = IF @ = "none" THEN "owner" ELSE @]
        /\ ~bot'.deleted
    BY <1>3 DEF OwnerResumes, Edit
  <2> QED
    BY <1>1, <2>1 DEF Rows
<1>4. CASE OwnerReschedules
  BY <1>1, <1>4 DEF OwnerReschedules, Edit, Rows
<1>5. CASE OwnerDeletes
  BY <1>1, <1>5 DEF OwnerDeletes, Edit, Rows
<1> QED
  BY <1>2, <1>3, <1>4, <1>5 DEF Owner

LEMMA DeletedIsDisabledKept ==
  ASSUME VisitInvariant, Moves
  PROVE  DeletedIsDisabled'
<1> USE DEF VisitInvariant, FenceInvariant
<1>0. row \in Rows /\ bot \in Bots
  BY DEF TypeOK
<1>1. ASSUME NEW c \in late \cup InFlight, Execute(c) PROVE DeletedIsDisabled'
  <2>1. c \in Calls
    BY CallKinds
  <2>2. (bot'.deleted <=> bot.deleted) /\ (row'.enabled => row.enabled)
    BY <1>0, <1>1, <2>1
       DEF Execute, claimRuntimeRun, releaseRuntimeRun, releaseStaleRuntimeRun, released,
           consumeClaimToken, renewRuntimeRunLease, pauseBot, Rows, Bots
  <2> QED
    BY <2>2 DEF DeletedIsDisabled
<1>2. CASE Owner
  BY <1>2, OwnerEdits DEF DeletedIsDisabled
<1> QED
  BY <1>0, <1>1, <1>2 DEF Moves, RowMoves, DeletedIsDisabled, Rows

LEMMA ProposalsAreOrdinaryKept ==
  ASSUME VisitInvariant, Moves
  PROVE  ProposalsAreOrdinary'
<1> USE DEF VisitInvariant, FenceInvariant
<1>1. \A c \in late' : c.propose => c.run \notin Spotlight
  BY CallKinds DEF Moves, LateMoves
<1>2. trans'.propose => trans'.victim \notin Spotlight
  <2>1. CASE ReapStaleRun
    BY <2>1, ReapStages
  <2>2. CASE StopDecides \/ \E c \in Callers : StopReadsRow(c)
    BY <2>2, StopStages DEF ProposalsAreOrdinary
  <2>3. CASE AdmissionChecks \/ BeginRun \/ ClaimDone
    <3>1. trans' = Free \/ (trans'.propose = trans.propose /\ trans'.victim = trans.victim)
      <4>1. AdmissionChecks => trans' = Free \/ Step("setup")
        BY DEF AdmissionChecks
      <4>2. BeginRun => trans' = [trans EXCEPT !.pc = "claiming", !.expect = row.token]
        BY DEF BeginRun
      <4>3. ClaimDone => \E pc : Step(pc)
        BY DEF ClaimDone
      <4> QED
        BY <2>3, <4>1, <4>2, <4>3 DEF Step, TypeOK, Transitions
    <3>2. CASE trans' = Free
      BY <3>2 DEF Free
    <3>3. CASE trans'.propose = trans.propose /\ trans'.victim = trans.victim
      BY <3>3, Zenon DEF ProposalsAreOrdinary
    <3> QED
      BY <3>1, <3>2, <3>3
  <2>4. CASE trans'.propose = trans.propose /\ trans'.victim = trans.victim
    BY <2>4, Zenon DEF ProposalsAreOrdinary
  <2>5. CASE trans' = Free \/ trans'.propose = FALSE
    BY <2>5 DEF Free
  <2>6. CASE UNCHANGED trans
    BY <2>6 DEF ProposalsAreOrdinary
  <2> QED
    BY <2>1, <2>2, <2>3, <2>4, <2>5, <2>6 DEF Moves, TransMoves
<1> QED
  BY <1>1, <1>2 DEF ProposalsAreOrdinary

LEMMA MaintenanceRunsAloneKept ==
  ASSUME VisitInvariant, Moves, FenceInvariant', LiveIsKnown'
  PROVE  MaintenanceRunsAlone'
<1> USE DEF VisitInvariant, FenceInvariant
<1> SUFFICES ASSUME maint' # NoMaint
             PROVE  ~Running' /\ journal'.kind = "none" /\ activeRun' = NoRun
  BY RunsAssumption DEF MaintenanceRunsAlone, LiveIsKnown
<1>1. ~Running /\ journal.kind = "none" /\ activeRun = NoRun
  BY DEF Moves, MaintMoves, MaintenanceChecks, MaintenanceRunsAlone
<1>2. ~Running'
  BY <1>1, HolderMoves, RunsAssumption
     DEF Running, RowTaken, RowFreed, RowDeleted, JournalShape
<1>3. journal'.kind = "none"
  BY DEF MaintenanceShape
<1>4. activeRun' = NoRun
  BY <1>1, AdmittedFacts DEF Moves, MemoryMoves, Reset, Active
<1> QED
  BY <1>2, <1>3, <1>4

LEMMA ScheduleFollowsPauseKept ==
  ASSUME VisitInvariant, Moves
  PROVE  ScheduleFollowsPause'
<1> USE DEF VisitInvariant, FenceInvariant
<1>0. row \in Rows /\ (row.enabled <=> row.due # "none")
  BY DEF TypeOK, ScheduleFollowsPause
<1>1. ASSUME NEW c \in late \cup InFlight, Execute(c) PROVE row'.enabled <=> row'.due # "none"
  <2>1. c \in Calls
    BY CallKinds
  <2>2. \A l \in {"live", "expired"} :
          LET x == claimRuntimeRun(c, l) IN x.enabled <=> x.due # "none"
    BY <1>0 DEF claimRuntimeRun, claimGuard, Rows
  <2>3. released(c).enabled <=> released(c).due # "none"
    BY <1>0 DEF released, releasedDue, Rows
  <2>4. Leases(c.run) \subseteq {"live", "expired"}
    BY DEF Leases
  <2> QED
    BY <1>0, <1>1, <2>1, <2>2, <2>3, <2>4
       DEF Execute, releaseRuntimeRun, releaseStaleRuntimeRun, consumeClaimToken,
           renewRuntimeRunLease, pauseBot, Rows
<1>2. CASE Owner
  BY <1>2, OwnerEdits DEF ScheduleFollowsPause
<1> QED
  BY <1>0, <1>1, <1>2 DEF Moves, RowMoves, ScheduleFollowsPause, Rows

(***************************************************************************)
(* A /stop that waits for the queue.                                       *)
(***************************************************************************)
Claims == {"claiming", "claimed", "refused"}

\* Who may begin to wait, how an admission ends, and how the object forgets its visit.
StopMoves ==
  /\ \A s \in Slots : rec'[s].pc = "queued" => rec[s].pc = "queued" \/ journal.kind = "none"
  /\ rec["trans"].pc = "idle" =>
       /\ rec'["trans"].pc # "idle" => trans'.pc \in {"reap", "reaped", "done"}
       /\ trans.pc \in Claims => \/ trans'.pc \in Claims /\ trans'.run = trans.run
                                 \/ Admitted \/ Reset
                                 \/ ~(journal'.kind = "active" /\ journal'.run = trans.run)
  /\ \/ activeRun' = activeRun
     \/ Admitted \/ Reset
     \/ \A r \in Runs : activeRun = r => ~Active(r)'
     \/ \E r \in Runs : r = activeRun /\ At(r, "closing") /\ UNCHANGED journal
  /\ \A r \in Runs : At(r, "closing")' => At(r, "closing") \/ ~Active(r)'

\* Steps that change nothing of this.
LEMMA StillStopMoves ==
  ASSUME rec' = rec \/ \A s \in Slots : rec'[s].pc # "queued" /\ (s = "trans" => rec'[s] = rec[s]),
         trans' = trans \/ trans.pc \notin Claims,
         activeRun' = activeRun,
         \A r \in Runs : At(r, "closing")' => At(r, "closing")
  PROVE  StopMoves
  BY DEF StopMoves, Slots

LEMMA FinalizeRunStops ==
  ASSUME TypeOK, NEW s \in Slots, NEW run \in Runs,
         NEW type \in {"completed", "failed", "stopped"}, NEW pause \in Nat,
         FinalizeRun(s, run, type, pause)
  PROVE  /\ ~Active(run)'
         /\ activeRun' = activeRun \/ \A r \in Runs : activeRun = r => ~Active(r)'
         /\ \A q \in Slots : rec'[q].pc = "queued" => rec[q].pc = "queued"
         /\ \A q \in Slots : q # s => rec'[q] = rec[q]
<1>1. CASE ~Active(run)
  BY <1>1 DEF FinalizeRun, Active
<1>2. CASE Active(run)
  <2>1. journal'.kind = "finalizing"
    BY <1>2 DEF FinalizeRun, finish, TypeOK, Journals
  <2>2. \A q \in Slots : rec'[q] = IF q = s THEN Finalizer(journal', 1) ELSE rec[q]
    BY <1>2 DEF FinalizeRun, TypeOK
  <2>3. Finalizer(journal', 1).pc # "queued"
    BY DEF Finalizer
  <2> QED
    BY <2>1, <2>2, <2>3 DEF Active
<1> QED
  BY <1>1, <1>2

LEMMA StartReconcileStops ==
  ASSUME TypeOK, NEW s \in Slots, NEW stop \in BOOLEAN, NEW armed \in BOOLEAN,
         StartReconcile(s, stop, armed)
  PROVE  /\ \A q \in Slots : rec'[q].pc = "queued" => rec[q].pc = "queued"
         /\ \A q \in Slots : q # s => rec'[q] = rec[q]
<1>1. \A q \in Slots : rec'[q] = IF q = s THEN Reconciler(stop) ELSE rec[q]
  BY DEF StartReconcile, TypeOK
<1>2. Reconciler(stop).pc # "queued"
  BY DEF Reconciler, Finalizer, Idle
<1> QED
  BY <1>1, <1>2

LEMMA ReconcileStops ==
  ASSUME VisitInvariant, NEW s \in Slots, Reconcile(s)
  PROVE  StopMoves
<1> USE DEF VisitInvariant, FenceInvariant
<1>0. /\ rec[s] \in Reconcilers /\ rec \in [Slots -> Reconcilers] /\ "trans" \in Slots
      /\ rec[s].pc \notin {"idle", "queued"}
  BY DEF TypeOK, Slots, Reconcile, ContextArrives, ContextFails, LateContextArrives,
         LateContextFails, ReconcilerCallDone, ReconcilerCallFails, ReleaseSettles
<1>1. UNCHANGED body
  BY DEF Reconcile, ContextArrives, ContextFails, LateContextArrives, LateContextFails,
         ReconcilerCallDone, ReconcilerCallFails, ReleaseSettles
<1>2. trans' = trans \/ (trans' = Free /\ s = "trans")
  BY DEF Reconcile, ContextArrives, ContextFails, LateContextArrives, LateContextFails,
         ReconcilerCallDone, ReconcilerCallFails, ReleaseSettles, Throws
<1>3. \E x : rec' = [rec EXCEPT ![s] = x] /\ x.pc # "queued"
  <2>1. \A j, n : Finalizer(j, n).pc # "queued"
    BY DEF Finalizer
  <2>2. Idle.pc # "queued"
    BY DEF Idle
  <2>3. rec[s].pc \in {"pause", "fence", "release"} =>
          [rec[s] EXCEPT !.pc = AfterCall(rec[s].pc)].pc # "queued"
    BY <1>0 DEF AfterCall, Reconcilers
  <2>4. CASE ReconcilerCallDone(s)
    BY <2>2, <2>3, <2>4 DEF ReconcilerCallDone
  <2>5. CASE ContextArrives(s) \/ LateContextArrives(s)
    BY <2>1, <2>2, <2>5 DEF ContextArrives, LateContextArrives, Throws
  <2>6. CASE ContextFails(s) \/ LateContextFails(s) \/ ReconcilerCallFails(s) \/ ReleaseSettles(s)
    BY <2>2, <2>6 DEF ContextFails, LateContextFails, ReconcilerCallFails, ReleaseSettles, Throws
  <2> QED
    BY <2>4, <2>5, <2>6 DEF Reconcile
<1>4. /\ \A q \in Slots : rec'[q].pc = "queued" => rec[q].pc = "queued"
      /\ \A q \in Slots : q # s => rec'[q] = rec[q]
  BY <1>0, <1>3
<1>5. activeRun' = activeRun \/ \A r \in Runs : activeRun = r => ~Active(r)'
  <2>1. CASE ContextArrives(s)
    <3>0. PICK run : run = rec[s].j.run
      OBVIOUS
    <3>1. journal' = IF Active(run)
                       THEN finish(IF rec[s].stop THEN "stopped" ELSE "failed") ELSE journal
      BY <2>1, <3>0 DEF ContextArrives
    <3>2. ~Active(run)'
      BY <3>1 DEF finish, Active, TypeOK, Journals
    <3>3. activeRun' = activeRun \/ activeRun = run
      BY <2>1, <3>0 DEF ContextArrives, Abort
    <3> QED
      BY <3>2, <3>3 DEF Active
  <2>2. CASE ~ContextArrives(s)
    BY <2>2 DEF Reconcile, ContextFails, LateContextArrives, LateContextFails,
         ReconcilerCallDone, ReconcilerCallFails, ReleaseSettles
  <2> QED
    BY <2>1, <2>2
<1> QED
  BY <1>0, <1>1, <1>2, <1>4, <1>5 DEF StopMoves, At

LEMMA VisitStops ==
  ASSUME VisitInvariant, NEW r \in Runs, Visit(r)
  PROVE  StopMoves
<1> USE DEF VisitInvariant, FenceInvariant
<1>0. /\ r \in Slots /\ "trans" \in Slots /\ r # "trans" /\ body \in [Runs -> Bodies]
      /\ rec \in [Slots -> Reconcilers] /\ UNCHANGED trans
  BY RunsAssumption DEF Slots, TypeOK, Visit, BodyStarts, BodyNeverStarts, BodyProgresses,
         BodyRenews, RenewDone, RenewFails, BodyContinues, BodyCompletes, BodyFails, BodyStops,
         BodyEnds, memory
<1>1. ASSUME NEW pc, Goto(r, pc), pc # "closing", UNCHANGED <<activeRun, rec>>
      PROVE  StopMoves
  BY <1>0, <1>1, StillStopMoves DEF Goto, At
<1>2. ASSUME NEW type \in {"completed", "failed", "stopped"}, NEW pause \in Nat,
             FinalizeRun(r, r, type, pause), Goto(r, "closing")
      PROVE  StopMoves
  <2>1. /\ ~Active(r)'
        /\ activeRun' = activeRun \/ \A q \in Runs : activeRun = q => ~Active(q)'
        /\ \A q \in Slots : rec'[q].pc = "queued" => rec[q].pc = "queued"
        /\ rec'["trans"] = rec["trans"]
    BY <1>0, <1>2, FinalizeRunStops
  <2>2. \A q \in Runs : At(q, "closing")' => At(q, "closing") \/ q = r
    BY <1>0, <1>2 DEF Goto, At
  <2> QED
    BY <1>0, <2>1, <2>2 DEF StopMoves
<1>3. CASE BodyProgresses(r)
  BY <1>3, StillStopMoves DEF BodyProgresses, memory, At
<1>4. CASE BodyEnds(r)
  <2>1. /\ rec' = rec /\ Goto(r, "ended") /\ At(r, "closing") /\ UNCHANGED journal
        /\ activeRun' = activeRun \/ activeRun = r
    BY <1>4 DEF BodyEnds
  <2>2. \A q \in Runs : At(q, "closing")' => At(q, "closing")
    BY <1>0, <2>1 DEF Goto, At
  <2> QED
    BY <1>0, <2>1, <2>2 DEF StopMoves
<1>5. CASE BodyStarts(r) \/ BodyNeverStarts(r) \/ BodyRenews(r) \/ BodyContinues(r)
  BY <1>1, <1>5 DEF BodyStarts, BodyNeverStarts, BodyRenews, BodyContinues
<1>6. CASE RenewDone(r)
  BY <1>1, <1>6 DEF RenewDone
<1>7. body[r].rev \in Nat
  BY <1>0 DEF Bodies
<1>8. CASE RenewFails(r) \/ BodyCompletes(r) \/ BodyFails(r) \/ BodyStops(r)
  BY <1>2, <1>7, <1>8 DEF RenewFails, BodyCompletes, BodyFails, BodyStops
<1> QED
  BY <1>3, <1>4, <1>5, <1>6, <1>8 DEF Visit

LEMMA TransitionStops ==
  ASSUME VisitInvariant, Transition
  PROVE  StopMoves
<1> USE DEF VisitInvariant, FenceInvariant
<1>0. trans \in Transitions /\ "trans" \in Slots /\ body \in [Runs -> Bodies]
      /\ rec \in [Slots -> Reconcilers]
  BY DEF TypeOK, Slots
<1>1. CASE RecoverStaleRun \/ MaintenanceDone \/ MaintenanceFails
  <2>1. /\ UNCHANGED <<rec, activeRun, body>>
        /\ trans' = trans \/ trans.pc \notin Claims
    BY <1>1 DEF RecoverStaleRun, QueueFree, MaintenanceDone, MaintenanceFails, Claims, ClaimIsAlone
  <2> QED
    BY <2>1, StillStopMoves DEF At
<1>2. CASE StopDecides \/ StopReadsAgain \/ MarkRunStopped
  <2>1. UNCHANGED <<rec, activeRun, body>> /\ trans.pc \notin Claims
    BY <1>2 DEF StopDecides, StopReadsAgain, MarkRunStopped, Requeue, InTrans, Claims
  <2> QED
    BY <2>1, StillStopMoves DEF At
<1>3. CASE ReapStaleRun
  <2>1. /\ UNCHANGED <<activeRun, body>> /\ trans.pc = "reap"
    BY <1>3 DEF ReapStaleRun, Requeue, InTrans
  <2>2. CASE rec' = rec
    BY <2>1, <2>2, StillStopMoves DEF At, Claims
  <2>3. CASE rec' # rec
    <3>1. trans'.pc = "reaped" /\ StartReconcile("trans", StopRequested, alarm)
      BY <1>0, <1>3, <2>3 DEF ReapStaleRun, Step, Transitions
    <3>2. \A q \in Slots : rec'[q].pc = "queued" => rec[q].pc = "queued"
      BY <1>0, <3>1, StartReconcileStops DEF TypeOK, StopRequested
    <3> QED
      BY <2>1, <3>1, <3>2 DEF StopMoves, At, Claims
  <2> QED
    BY <2>2, <2>3
<1>4. CASE ReapStoppedDone \/ ReapStaleDone \/ ReapContextArrives
  <2>1. UNCHANGED <<rec, activeRun, body>> /\ trans.pc \notin Claims
    BY <1>4 DEF ReapStoppedDone, ReapStaleDone, ReapContextArrives, Requeue, InTrans, Claims
  <2> QED
    BY <2>1, StillStopMoves DEF At
<1>5. CASE AdmissionChecks \/ MaintenanceChecks \/ TransEnds \/ TransFails
  <2>1. UNCHANGED <<rec, activeRun, body>> /\ trans.pc \notin Claims
    BY <1>5 DEF AdmissionChecks, MaintenanceChecks, TransEnds, TransFails, Requeue, InTrans, Claims
  <2> QED
    BY <2>1, StillStopMoves DEF At
<1>6. CASE BeginRun
  <2>1. /\ UNCHANGED <<rec, activeRun>> /\ trans.pc = "setup" /\ trans.run \in Runs
        /\ body' = [body EXCEPT ![trans.run] = [pc |-> "admitting", rev |-> bot.rev]]
    BY <1>6, BegunFacts DEF BeginRun, InTrans
  <2>2. \A r \in Runs : At(r, "closing")' => At(r, "closing")
    BY <1>0, <2>1 DEF At
  <2> QED
    BY <2>1, <2>2, StillStopMoves DEF Claims
<1>7. CASE ClaimDone
  <2>1. UNCHANGED <<rec, activeRun, body>> /\ trans'.pc \in Claims /\ trans'.run = trans.run
    BY <1>0, <1>7 DEF ClaimDone, Step, Transitions, Claims
  <2> QED
    BY <2>1 DEF StopMoves, At
<1>8. CASE ClaimFails
  <2>1. trans.pc = "claiming" /\ trans.run \in Runs /\ trans'.pc = "done" /\ trans'.run = trans.run
    BY <1>0, <1>8 DEF ClaimFails, InTrans, Step, AdmissionShape, Transitions
  <2>2. FinalizeRun("trans", trans.run, "failed", 0) /\ Goto(trans.run, "ended")
    BY <1>8 DEF ClaimFails
  <2>3. \E run \in Runs : run = trans.run /\ FinalizeRun("trans", run, "failed", 0)
    BY <2>1, <2>2
  <2>4. PICK run \in Runs : run = trans.run /\ FinalizeRun("trans", run, "failed", 0)
    BY <2>3
  <2>5. /\ ~Active(run)'
        /\ activeRun' = activeRun \/ \A r \in Runs : activeRun = r => ~Active(r)'
        /\ \A q \in Slots : rec'[q].pc = "queued" => rec[q].pc = "queued"
    BY <1>0, <2>4, FinalizeRunStops
  <2>6. \A q \in Runs : At(q, "closing")' => At(q, "closing")
    BY <1>0, <2>1, <2>2 DEF Goto, At
  <2>7. ~(journal'.kind = "active" /\ journal'.run = trans.run)
    BY <2>4, <2>5 DEF Active
  <2> QED
    BY <2>1, <2>5, <2>6, <2>7 DEF StopMoves
<1>9. CASE ClaimRefused
  <2>1. trans.run \in Runs /\ trans' = Free
        /\ journal' = IF journal.run = trans.run THEN NoJournal ELSE journal
    BY <1>9 DEF ClaimRefused, InTrans, AdmissionShape
  <2>2. UNCHANGED <<rec, activeRun>>
    BY <1>9 DEF ClaimRefused
  <2>3. ~(journal'.kind = "active" /\ journal'.run = trans.run)
    BY <2>1 DEF NoJournal
  <2>4. \A q \in Runs : At(q, "closing")' => At(q, "closing")
    BY <1>0, <1>9 DEF ClaimRefused, Goto, At
  <2> QED
    BY <2>2, <2>3, <2>4 DEF StopMoves
<1>10. CASE Admitted
  <2>1. UNCHANGED rec
    BY <1>10 DEF Admitted
  <2>2. \A q \in Runs : At(q, "closing")' => At(q, "closing")
    <3>1. PICK pc \in {"starting", "ended"} : body' = [body EXCEPT ![trans.run].pc = pc]
      BY <1>10 DEF Admitted, Goto
    <3>2. ASSUME NEW q \in Runs, body'[q].pc = "closing" PROVE body[q].pc = "closing"
      BY <1>0, <3>1, <3>2 DEF TypeOK, Bodies
    <3> QED
      BY <3>2 DEF At
  <2> QED
    BY <1>10, <2>1, <2>2 DEF StopMoves
<1> QED
  BY <1>1, <1>2, <1>3, <1>4, <1>5, <1>6, <1>7, <1>8, <1>9, <1>10 DEF Transition

LEMMA RequestStops ==
  ASSUME VisitInvariant,
         \/ \E r \in Runs : AdmitTick(r)
         \/ \E op \in MaintOps : BeginMaintenance(op)
         \/ \E c \in Callers : Request(c)
         \/ AlarmFires
  PROVE  StopMoves
<1> USE DEF VisitInvariant, FenceInvariant
<1>0. /\ "trans" \in Slots /\ "alarm" \in Slots /\ rec \in [Slots -> Reconcilers] /\ alarm \in BOOLEAN
      /\ \A c \in Callers : c \in Slots /\ c # "trans"
      /\ QueueFree => trans.pc \notin Claims
  BY RunsAssumption DEF Slots, TypeOK, QueueFree, Claims, ClaimIsAlone
<1>1. ASSUME NEW r \in Runs, AdmitTick(r) PROVE StopMoves
  <2>1. /\ UNCHANGED <<activeRun, body>> /\ trans'.pc = "reap" /\ trans.pc \notin Claims
        /\ StartReconcile("trans", StopRequested, alarm)
    BY <1>0, <1>1 DEF AdmitTick, Free
  <2>2. \A q \in Slots : rec'[q].pc = "queued" => rec[q].pc = "queued"
    BY <1>0, <2>1, StartReconcileStops DEF StopRequested
  <2> QED
    BY <2>1, <2>2 DEF StopMoves, At
<1>2. ASSUME NEW op \in MaintOps, BeginMaintenance(op) PROVE StopMoves
  BY <1>0, <1>2, StillStopMoves DEF BeginMaintenance, At
<1>3. ASSUME NEW s \in Slots, s # "trans", NEW stop \in BOOLEAN, NEW armed \in BOOLEAN,
             StartReconcile(s, stop, armed), UNCHANGED <<activeRun, body, trans>>
      PROVE  StopMoves
  <2>1. /\ \A q \in Slots : rec'[q].pc = "queued" => rec[q].pc = "queued"
        /\ rec'["trans"] = rec["trans"]
    BY <1>0, <1>3, StartReconcileStops
  <2> QED
    BY <1>3, <2>1 DEF StopMoves, At
<1>4. ASSUME NEW c \in Callers, StopTick(c) \/ RecoverJournal(c) PROVE StopMoves
  BY <1>0, <1>3, <1>4 DEF StopTick, RecoverJournal, StopRequested
<1>5. CASE AlarmFires
  BY <1>0, <1>3, <1>5 DEF AlarmFires, StopRequested
<1>6. ASSUME NEW c \in Callers, StopQueues(c) PROVE StopMoves
  <2>1. rec'["trans"] = rec["trans"] /\ UNCHANGED <<trans, activeRun, body>> /\ journal.kind = "none"
    BY <1>0, <1>6 DEF StopQueues
  <2> QED
    BY <2>1 DEF StopMoves, At
<1>7. ASSUME NEW c \in Callers, StopReadsRow(c) \/ StopFindsNothing(c) PROVE StopMoves
  <2>1. /\ rec' = [rec EXCEPT ![c] = Idle] /\ UNCHANGED <<activeRun, body>>
        /\ trans.pc \notin Claims
    BY <1>0, <1>7 DEF StopReadsRow, StopFindsNothing, Requeue
  <2>2. /\ \A q \in Slots : rec'[q].pc = "queued" => rec[q].pc = "queued"
        /\ rec'["trans"] = rec["trans"]
    BY <1>0, <2>1 DEF Idle
  <2> QED
    BY <2>1, <2>2 DEF StopMoves, At
<1> QED
  BY <1>1, <1>2, <1>4, <1>5, <1>6, <1>7 DEF Request

LEMMA NextStops ==
  ASSUME VisitInvariant, [Next]_vars
  PROVE  StopMoves
<1>1. CASE UNCHANGED vars
  BY <1>1, StillStopMoves DEF vars, stored, memory, At
<1>2. CASE InactivityElapses \/ LeaseElapses \/ Owner \/ LateCall
  BY <1>2, StillStopMoves DEF InactivityElapses, LeaseElapses, Owner, OwnerPauses, OwnerResumes,
     OwnerReschedules, OwnerDeletes, Edit, LateCall, memory, stored, At
<1>3. CASE Reset
  <2>1. \A s \in Slots : rec'[s].pc = "idle"
    BY <1>3 DEF Reset, Idle
  <2>2. \A r \in Runs : At(r, "closing")' => At(r, "closing")
    BY <1>3 DEF Reset, At, VisitInvariant, FenceInvariant, TypeOK
  <2> QED
    BY <1>3, <2>1, <2>2 DEF StopMoves, Slots
<1>4. CASE Next
  BY <1>2, <1>3, <1>4, ReconcileStops, VisitStops, TransitionStops, RequestStops
     DEF Next, Crash, AbortHungTransition
<1> QED
  BY <1>1, <1>4

\* Which calls a stage of the queue belongs to, and that it moves alone.
LEMMA ClaimStages ==
  ASSUME VisitInvariant, Moves, trans'.pc \in Claims
  PROVE  \/ trans' = trans
         \/ BeginRun /\ trans'.op = "admit" /\ rec' = rec /\ rec["trans"].pc = "idle"
         \/ ClaimDone /\ trans.pc \in Claims /\ trans'.op = trans.op /\ rec' = rec
<1> USE DEF VisitInvariant, FenceInvariant, Claims
<1>1. ~ReapStaleRun /\ ~StopDecides /\ ~\E c \in Callers : StopReadsRow(c)
  BY ReapStages, StopStages
<1>2. ~AdmissionChecks
  BY DEF AdmissionChecks, Free, Step, TypeOK, Transitions
<1>3. BeginRun => trans'.op = "admit" /\ rec' = rec /\ rec["trans"].pc = "idle"
  BY DEF BeginRun, InTrans, AdmissionShape, TypeOK, Transitions
<1>4. ClaimDone => trans.pc = "claiming" /\ trans'.op = trans.op /\ rec' = rec
  BY DEF ClaimDone, InTrans, Step, TypeOK, Transitions
<1> QED
  BY <1>1, <1>2, <1>3, <1>4 DEF Moves, TransMoves, Free

LEMMA ClaimIsAloneKept ==
  ASSUME VisitInvariant, Moves, StopMoves
  PROVE  ClaimIsAlone'
<1> USE DEF VisitInvariant, FenceInvariant, Claims
<1> SUFFICES ASSUME trans'.pc \in Claims
             PROVE  trans'.op = "admit" /\ rec'["trans"].pc = "idle"
  BY DEF ClaimIsAlone
<1>1. CASE trans' = trans
  <2>1. trans.op = "admit" /\ rec["trans"].pc = "idle"
    BY <1>1 DEF ClaimIsAlone
  <2> QED
    BY <1>1, <2>1 DEF StopMoves
<1> QED
  BY <1>1, ClaimStages DEF ClaimIsAlone

LEMMA ClosingIsClosedKept ==
  ASSUME VisitInvariant, Moves, StopMoves
  PROVE  ClosingIsClosed'
<1> USE DEF VisitInvariant, FenceInvariant
<1> SUFFICES ASSUME NEW r \in Runs, At(r, "closing")', Active(r)'
             PROVE  FALSE
  BY DEF ClosingIsClosed
<1>1. At(r, "closing") /\ ~Active(r)
  BY DEF StopMoves, ClosingIsClosed
<1>2. BeginRun /\ r = trans.run
  BY <1>1, ActiveMoves
<1> QED
  BY <1>1, <1>2, BegunFacts DEF Unborn, At

LEMMA StopKnowsVisitKept ==
  ASSUME VisitInvariant, Moves, StopMoves, TypeOK'
  PROVE  StopKnowsVisit'
<1> USE DEF VisitInvariant, FenceInvariant
<1> SUFFICES ASSUME (\E s \in Slots : rec'[s].pc = "queued") \/ trans'.pc = "stopRead",
                    journal'.kind = "active"
             PROVE  \/ activeRun' = journal'.run
                    \/ trans'.pc \in Claims /\ trans'.run = journal'.run
  BY DEF StopKnowsVisit, Claims, Slots
<1>0. journal'.run \in RunOrNone /\ journal.run \in RunOrNone
  BY DEF TypeOK, Journals
<1>1. CASE BeginRun
  BY <1>1, BegunFacts DEF Claims
<1>2. CASE ~BeginRun
  <2>1. journal.kind = "active" /\ journal.run = journal'.run
    BY <1>2 DEF Moves, JournalMoves, Closes, ClaimRefused, ReleaseSettles, MaintenanceDone, stored,
       NoJournal, TypeOK, Journals
  <2>2. journal.run \in Runs /\ Active(journal.run)
    BY <1>0, <2>1, RunsAssumption DEF JournalShape, RunOrNone, Active
  <2>3. (\E s \in Slots : rec[s].pc = "queued") \/ trans.pc = "stopRead"
    <3>1. CASE trans'.pc = "stopRead"
      <4>1. trans' = trans \/ \E c \in Callers : StopReadsRow(c)
        <5>1. ~ReapStaleRun /\ ~StopDecides
          BY <3>1, ReapStages, StopStages
        <5>2. ~AdmissionChecks /\ ~ClaimDone
          BY <3>1 DEF AdmissionChecks, ClaimDone, Free, Step, TypeOK, Transitions
        <5> QED
          BY <1>2, <3>1, <5>1, <5>2 DEF Moves, TransMoves, Free
      <4> QED
        BY <2>1, <3>1, <4>1 DEF StopReadsRow, Slots
    <3>2. CASE \E s \in Slots : rec'[s].pc = "queued"
      BY <2>1, <3>2 DEF StopMoves
    <3> QED
      BY <3>1, <3>2
  <2>4. \/ activeRun = journal.run
        \/ trans.pc \in Claims /\ trans.run = journal.run
    BY <2>1, <2>3 DEF StopKnowsVisit, Claims
  <2>5. ~Reset
    BY DEF Reset, Idle, Free
  <2>6. CASE activeRun = journal.run
    <3>1. ~Admitted
      BY <2>2, <2>6, AdmittedFacts, RunsAssumption
    <3>2. At(journal.run, "closing") => ~Active(journal.run)
      BY <2>2 DEF ClosingIsClosed
    <3>3. activeRun' = activeRun
      BY <2>1, <2>2, <2>5, <2>6, <3>1, <3>2 DEF StopMoves, Active
    <3> QED
      BY <2>1, <2>6, <3>3
  <2>7. CASE trans.pc \in Claims /\ trans.run = journal.run
    <3>1. rec["trans"].pc = "idle"
      BY <2>7 DEF ClaimIsAlone, Claims
    <3>2. CASE Admitted
      BY <2>1, <2>2, <2>7, <3>2, AdmittedFacts
    <3>3. CASE ~Admitted
      <4>1. trans'.pc \in Claims /\ trans'.run = trans.run
        BY <2>1, <2>5, <2>7, <3>1, <3>3 DEF StopMoves
      <4> QED
        BY <2>1, <2>7, <4>1
    <3> QED
      BY <3>2, <3>3
  <2> QED
    BY <2>4, <2>6, <2>7
<1> QED
  BY <1>1, <1>2

(***************************************************************************)
(* The invariant.                                                          *)
(***************************************************************************)
LEMMA VisitInit == Init => VisitInvariant
<1> SUFFICES ASSUME Init PROVE VisitInvariant
  OBVIOUS
<1>1. FenceInvariant
  BY FenceInit
<1>2. /\ journal = NoJournal /\ late = {} /\ trans = Free /\ maint = NoMaint /\ activeRun = NoRun
      /\ rec = [s \in Slots |-> Idle] /\ bot = [rev |-> 1, deleted |-> FALSE]
      /\ body = [r \in Runs |-> [pc |-> IF r = Legacy THEN "ended" ELSE "unborn", rev |-> 0]]
  BY DEF Init
<1>3. row.enabled <=> row.due # "none"
  BY DEF Init
<1>4. /\ NoJournal.kind = "none" /\ NoJournal.pause = 0 /\ Idle.pc = "idle"
      /\ Free.pc = "free" /\ Free.propose = FALSE
  BY DEF NoJournal, Idle, Free
<1>5. \A t \in RunOrNone : ~WritePending(Legacy, t)
  BY <1>2, <1>4 DEF WritePending, ClaimPending, Busy
<1>6. LegacyIsOver /\ LegacyRowIsFirst /\ VictimIsOver /\ JournalOutcome /\ ReconcilerHoldsFinal
  BY <1>2, <1>4, <1>5
     DEF LegacyIsOver, At, LegacyRowIsFirst, VictimIsOver, JournalOutcome, ReconcilerHoldsFinal, Closing
<1>7. PauseIsOfThePast /\ ReleaseIsOfClosed /\ AdmittingShape /\ LiveIsKnown /\ ClaimedHoldsRow
  BY <1>2, <1>4
     DEF PauseIsOfThePast, ReleaseIsOfClosed, AdmittingShape, LiveIsKnown, Live, At, ClaimedHoldsRow
<1>8. DeletedIsDisabled /\ ProposalsAreOrdinary /\ MaintenanceRunsAlone /\ PublishingRunHoldsRow
  BY <1>2, <1>4
     DEF DeletedIsDisabled, ProposalsAreOrdinary, MaintenanceRunsAlone, PublishingRunHoldsRow, Live, At
<1>9. ClosingIsClosed /\ ClaimIsAlone /\ StopKnowsVisit
  BY <1>2, <1>4 DEF ClosingIsClosed, ClaimIsAlone, StopKnowsVisit, At
<1> QED
  BY <1>1, <1>3, <1>6, <1>7, <1>8, <1>9 DEF VisitInvariant, ScheduleFollowsPause

LEMMA VisitNext == VisitInvariant /\ [Next]_vars => VisitInvariant'
<1> SUFFICES ASSUME VisitInvariant, [Next]_vars PROVE VisitInvariant'
  OBVIOUS
<1>1. FenceInvariant' /\ TypeOK'
  BY FenceNext DEF VisitInvariant, FenceInvariant
<1>2. Moves
  BY NextMoves
<1>3. LegacyIsOver' /\ LegacyRowIsFirst' /\ VictimIsOver'
  BY <1>1, <1>2, LegacyIsOverKept, LegacyRowIsFirstKept, VictimIsOverKept
<1>4. JournalOutcome' /\ ReconcilerHoldsFinal' /\ PauseIsOfThePast'
  BY <1>1, <1>2, JournalOutcomeKept, ReconcilerHoldsFinalKept, PauseIsOfThePastKept
<1>5. ReleaseIsOfClosed' /\ AdmittingShape' /\ LiveIsKnown' /\ ClaimedHoldsRow'
  BY <1>1, <1>2, <1>4, ReleaseIsOfClosedKept, AdmittingShapeKept, LiveIsKnownKept, ClaimedHoldsRowKept
<1>6. DeletedIsDisabled' /\ ProposalsAreOrdinary' /\ PublishingRunHoldsRow' /\ ScheduleFollowsPause'
  BY <1>2, DeletedIsDisabledKept, ProposalsAreOrdinaryKept, PublishingRunHoldsRowKept,
     ScheduleFollowsPauseKept
<1>7. MaintenanceRunsAlone'
  BY <1>1, <1>2, <1>5, MaintenanceRunsAloneKept
<1>8. StopMoves
  BY NextStops
<1>9. ClosingIsClosed' /\ ClaimIsAlone' /\ StopKnowsVisit'
  BY <1>1, <1>2, <1>8, ClosingIsClosedKept, ClaimIsAloneKept, StopKnowsVisitKept
<1> QED
  BY <1>1, <1>3, <1>4, <1>5, <1>6, <1>7, <1>9 DEF VisitInvariant

LEMMA VisitsAreOrdered == Spec => []VisitInvariant
  BY VisitInit, VisitNext, PTL DEF Spec

(***************************************************************************)
(* What the object promises.                                               *)
(***************************************************************************)
\* runAdmittedTick of two visits may overlap in time, but of two visits that
\* have not been aborted there is only one: the object's slot names it.
THEOREM OneVisitPublishes == Spec => []OneLiveVisit
<1>1. VisitInvariant => OneLiveVisit
  BY DEF VisitInvariant, LiveIsKnown, OneLiveVisit
<1> QED
  BY <1>1, VisitsAreOrdered, PTL

\* Until its journal is closed, the D1 row of a visit that may publish stays its
\* own: no release, reap or claim that executes late takes it away.
THEOREM PublishersHoldTheRow == Spec => []PublishingRunHoldsRow
<1>1. VisitInvariant => PublishingRunHoldsRow
  BY DEF VisitInvariant
<1> QED
  BY <1>1, VisitsAreOrdered, PTL

\* next_due_at is set exactly while the participant is enabled, in whatever
\* order claims, releases, reaps, pauses and edits execute.
THEOREM ScheduleMatchesPause == Spec => []ScheduleFollowsPause
<1>1. VisitInvariant => ScheduleFollowsPause
  BY DEF VisitInvariant
<1> QED
  BY <1>1, VisitsAreOrdered, PTL

\* A compaction or an erasure holds the object's maintenance slot only while no
\* run holds the row, no journal is kept and every visit has been aborted.
THEOREM MaintenanceIsAlone == Spec => []MaintenanceRunsAlone
<1>1. VisitInvariant => MaintenanceRunsAlone
  BY DEF VisitInvariant
<1> QED
  BY <1>1, VisitsAreOrdered, PTL

\* No step of anybody records a run as completed after /stop named it.
NoneCompletesStopped ==
  \A r \in Runs :
    Active(r) /\ stopReq = r /\ journal'.run = r => journal'.type # "completed"

THEOREM StopsAreHonoured == Spec => StoppedRunIsNotCompleted
<1>1. ASSUME VisitInvariant, [Next]_vars PROVE NoneCompletesStopped
  <2>1. Moves
    BY <1>1, NextMoves
  <2> SUFFICES ASSUME NEW r \in Runs, Active(r), stopReq = r, journal'.run = r
               PROVE  journal'.type # "completed"
    BY DEF NoneCompletesStopped
  <2>2. journal.kind = "active" /\ journal.run = r /\ journal.type = "none"
    BY <1>1 DEF Active, VisitInvariant, JournalOutcome
  <2> QED
    BY <1>1, <2>1, <2>2, BegunFacts, RunsAssumption
       DEF Moves, JournalMoves, Closes, ClaimRefused, ReleaseSettles, MaintenanceDone, stored, NoJournal,
           VisitInvariant, FenceInvariant, TypeOK, Journals
<1>2. VisitInvariant /\ [Next]_vars => [NoneCompletesStopped]_vars
  BY <1>1
<1> QED
  BY <1>2, VisitsAreOrdered, PTL DEF Spec, StoppedRunIsNotCompleted, NoneCompletesStopped

\* A step that drops or replaces a journal with a pause intent comes after the
\* participant's revision has moved past the intent: a /stop may free the row
\* before that, but no successor is admitted.
PauseComesFirst ==
  journal.pause # 0 /\ ~bot'.deleted /\ journal'.run # journal.run => bot.rev > journal.pause

THEOREM PausesComeFirst == Spec => PausePrecedesSuccessor
<1>1. ASSUME VisitInvariant, [Next]_vars PROVE PauseComesFirst
  <2>1. Moves
    BY <1>1, NextMoves
  <2> USE <1>1 DEF VisitInvariant, FenceInvariant
  <2> SUFFICES ASSUME journal.pause # 0, ~bot'.deleted, journal'.run # journal.run
               PROVE  PauseSettled
    BY DEF PauseComesFirst, PauseSettled
  <2>2. journal.kind = "finalizing" /\ journal.run \in Runs
    BY DEF JournalOutcome, NoJournal, JournalShape, TypeOK, Journals, RunOrNone
  <2>3. ClaimRefused \/ \E s \in Slots : ReleaseSettles(s)
    BY <2>1, <2>2, BegunFacts DEF Moves, JournalMoves, Closes, MaintenanceDone, stored, MaintenanceShape
  <2>4. CASE ClaimRefused
    BY <2>4 DEF ClaimRefused, InTrans, AdmittingShape
  <2>5. ASSUME NEW s \in Slots, ReleaseSettles(s) PROVE PauseSettled
    BY <2>5 DEF ReleaseSettles, ReleaseIsOfClosed
  <2> QED
    BY <2>3, <2>4, <2>5
<1>2. VisitInvariant /\ [Next]_vars => [PauseComesFirst]_vars
  BY <1>1
<1> QED
  BY <1>2, VisitsAreOrdered, PTL DEF Spec, PausePrecedesSuccessor, PauseComesFirst

\* The row keeps the schedule of a spotlight visit when it is claimed, released,
\* reaped or stopped: whoever may write "run" is not a spotlight visit.
ScheduleKept ==
  row' # row /\ {row.active, row'.active} \cap Spotlight # {} /\ row'.due = "run" => row.due = "run"

LEMMA ScheduleIsKept ==
  ASSUME VisitInvariant, [Next]_vars
  PROVE  ScheduleKept
<1> USE DEF VisitInvariant, FenceInvariant
<1> SUFFICES ASSUME {row.active, row'.active} \cap Spotlight # {}, row'.due = "run"
             PROVE  row.due = "run"
  BY DEF ScheduleKept
<1>0. Moves /\ row \in Rows /\ Spotlight \subseteq Runs /\ NoRun \notin Runs
  BY NextMoves, RunsAssumption DEF TypeOK
<1>1. ASSUME NEW c \in late \cup InFlight, Execute(c) PROVE row.due = "run"
  <2>0. c \in Calls /\ c.run \in RunOrNone /\ (c.propose => c.run \notin Spotlight)
    BY CallKinds DEF Calls
  <2>1. CASE c.op = "claim" /\ claimGuard(c)
    <3>1. PICK l \in Leases(c.run) : row' = claimRuntimeRun(c, l)
      BY <1>1, <2>1 DEF Execute
    <3>2. /\ row'.active = c.run /\ row'.status = "running"
          /\ row'.due = IF c.run \in Spotlight THEN row.due ELSE "run"
      BY <1>0, <2>1, <3>1 DEF claimRuntimeRun, runKeepsStandingSchedule, Rows
    <3>3. ClaimPending(c.run, row.token)
      BY <2>1, CallKinds DEF claimGuard
    <3>4. journal.run = c.run /\ c.run \in Runs
      BY <1>0, <2>0, <3>3 DEF ClaimIsDeadOrCurrent, WritesAreRuns, WritePending, Rows
    <3>5. row.active \in {c.run, NoRun}
      BY <3>4, <1>0, JournalIsNotLegacy
         DEF RowShape, RunningRowIsJournaled, LegacyRowIsFirst, HeldBy, JournalShape
    <3> QED
      BY <1>0, <3>2, <3>5
  <2>2. CASE c.op \in {"release", "reap"} /\ row' = released(c) /\ ownsRow(c)
    <3>1. /\ row'.active = NoRun /\ row.active = c.run
          /\ row'.due = releasedDue(c)
      BY <1>0, <2>2 DEF released, ownsRow, Rows
    <3> QED
      BY <1>0, <2>0, <3>1 DEF releasedDue
  <2>3. CASE \/ c.op = "claim" /\ ~claimGuard(c)
             \/ c.op \in {"release", "reap"} /\ ~(row' = released(c) /\ ownsRow(c))
             \/ c.op \in {"fence", "renew", "pause"}
    BY <1>0, <1>1, <2>0, <2>3
       DEF Execute, claimRuntimeRun, releaseRuntimeRun, releaseStaleRuntimeRun, consumeClaimToken,
           renewRuntimeRunLease, pauseBot, Rows
  <2> QED
    BY <2>0, <2>1, <2>2, <2>3 DEF Calls
<1>2. CASE Owner
  <2>1. CASE OwnerResumes
    <3>1. row' = [row EXCEPT !.enabled = TRUE, !.due = IF @ = "none" THEN "owner" ELSE @]
      BY <2>1 DEF OwnerResumes, Edit
    <3> QED
      BY <1>0, <3>1 DEF Rows
  <2> QED
    BY <1>0, <1>2, <2>1 DEF Owner, OwnerPauses, OwnerReschedules, OwnerDeletes, Edit, Rows
<1> QED
  BY <1>0, <1>1, <1>2 DEF Moves, RowMoves, Rows

\* A spotlight visit never moves the participant's own schedule.
THEOREM SpotlightsKeepSchedules == Spec => SpotlightKeepsSchedule
<1>1. VisitInvariant /\ [Next]_vars => [ScheduleKept]_vars
  BY ScheduleIsKept
<1> QED
  BY <1>1, VisitsAreOrdered, PTL DEF Spec, SpotlightKeepsSchedule, ScheduleKept

(***************************************************************************)
(* RunAdmission implements VisitFence.                                     *)
(***************************************************************************)
LEMMA FenceInitMaps == Init => Fence!Init
<1> SUFFICES ASSUME Init PROVE Fence!Init
  OBVIOUS
<1>1. holder = NoRun
  BY DEF Init, holder, JournaledRuns, Running
<1>2. phase = [r \in JournaledRuns |-> "new"]
  BY RunsAssumption DEF Init, phase, JournaledRuns, NoJournal, At
<1>3. bot.deleted = FALSE
  BY DEF Init
<1> QED
  BY <1>1, <1>2, <1>3 DEF Fence!Init

\* How the journal and the bodies move a run's phase.
LEMMA PhaseValues ==
  ASSUME NEW r \in JournaledRuns
  PROVE  /\ phase[r] = IF journal.run = r THEN IF journal.kind = "active" THEN "open" ELSE "closing"
                       ELSE IF Unborn(r) THEN "new" ELSE "closed"
         /\ phase'[r] = IF journal'.run = r THEN IF journal'.kind = "active" THEN "open" ELSE "closing"
                        ELSE IF Unborn(r)' THEN "new" ELSE "closed"
  BY DEF phase, Unborn, At

\* Only the journal's run is unsettled.
LEMMA UnsettledRun ==
  ASSUME VisitInvariant
  PROVE  Fence!Unsettled = {r \in JournaledRuns : r = journal.run}
  BY DEF Fence!Unsettled, phase, At

\* A step that neither begins a run nor closes or drops a journal keeps the phases.
LEMMA SamePhase ==
  ASSUME VisitInvariant, Moves, ~BeginRun, journal'.run = journal.run,
         journal'.kind = "active" <=> journal.kind = "active"
  PROVE  phase' = phase
<1>1. \A r \in Runs : Unborn(r)' <=> Unborn(r)
  BY DEF Moves, BodyMoves, Unborn, At
<1> QED
  BY <1>1 DEF phase, JournaledRuns, Unborn, At

\* One run's phase changes, and no other's.
LEMMA OnePhase ==
  ASSUME NEW r \in JournaledRuns, NEW v,
         \A q \in JournaledRuns : phase'[q] = IF q = r THEN v ELSE phase[q]
  PROVE  phase' = [phase EXCEPT ![r] = v]
  BY DEF phase

\* What the row shows of its holder.
LEMMA HolderSteps ==
  ASSUME VisitInvariant, Moves
  PROVE  \/ holder' = holder
         \/ RowTaken /\ holder = NoRun /\ holder' = journal.run /\ journal.run \in JournaledRuns
         \/ /\ RowFreed /\ holder' = NoRun /\ holder = journal.run /\ journal.run \in JournaledRuns
            /\ journal.kind = "finalizing"
         \/ RowDeleted /\ holder' = NoRun
<1> USE DEF VisitInvariant, FenceInvariant
<1>1. CASE row'.status = row.status /\ row'.active = row.active
  BY <1>1 DEF holder, Running
<1>2. CASE RowTaken
  <2>1. holder' = journal.run /\ journal.run \in JournaledRuns
    BY <1>2 DEF RowTaken, holder, HeldBy, Running, JournaledRuns
  <2>2. holder \in {NoRun, journal.run}
    BY <1>2 DEF RowTaken, holder
  <2> QED
    BY <1>2, <2>1, <2>2
<1>3. CASE RowFreed
  <2>1. holder' = NoRun
    BY <1>3 DEF RowFreed, holder
  <2>2. CASE holder = NoRun
    BY <2>1, <2>2
  <2>3. CASE holder # NoRun
    <3>1. Running /\ row.active \in JournaledRuns /\ holder = row.active
      BY <2>3 DEF holder
    <3>2. journal.run = row.active
      BY <3>1 DEF RunningRowIsJournaled, JournaledRuns
    <3> QED
      BY <1>3, <2>1, <3>1, <3>2 DEF RowFreed
  <2> QED
    BY <2>2, <2>3
<1>4. CASE RowDeleted
  BY <1>4 DEF RowDeleted, holder
<1> QED
  BY <1>1, <1>2, <1>3, <1>4, HolderMoves

LEMMA DeletionMoves ==
  ASSUME VisitInvariant, Moves
  PROVE  bot'.deleted = bot.deleted \/ (bot'.deleted = TRUE /\ holder' = NoRun)
<1> USE DEF VisitInvariant, FenceInvariant
<1>0. row \in Rows /\ bot \in Bots
  BY DEF TypeOK
<1>1. ASSUME NEW c \in late \cup InFlight, Execute(c) PROVE bot'.deleted = bot.deleted
  <2>1. bot' = bot \/ bot' = [bot EXCEPT !.rev = @ + 1]
    BY <1>1 DEF Execute
  <2> QED
    BY <1>0, <2>1 DEF Bots
<1>2. CASE OwnerPauses \/ OwnerResumes \/ OwnerReschedules
  <2>1. ~bot.deleted /\ bot' = [rev |-> bot.rev + 1, deleted |-> FALSE]
    BY <1>2 DEF OwnerPauses, OwnerResumes, OwnerReschedules, Edit
  <2>2. bot'.deleted = FALSE
    BY <2>1
  <2>3. bot.deleted \in BOOLEAN
    BY <1>0 DEF Bots
  <2>4. bot.deleted = FALSE
    BY <2>1, <2>3
  <2> QED
    BY <2>2, <2>4
<1>3. CASE OwnerDeletes
  <2>1. row'.status = "idle" /\ bot'.deleted = TRUE
    BY <1>0, <1>3 DEF OwnerDeletes, Edit, Rows
  <2> QED
    BY <2>1 DEF holder, Running
<1> QED
  BY <1>1, <1>2, <1>3 DEF Moves, RowMoves, Owner

\* The journal's run keeps its phase: the row is taken, freed or deleted, or
\* nothing happens that VisitFence speaks of.
LEMMA RowStepMaps ==
  ASSUME VisitInvariant, Moves, phase' = phase
  PROVE  [Fence!Next]_(Fence!vars)
<1> USE DEF VisitInvariant, FenceInvariant
<1>0. bot \in Bots
  BY DEF TypeOK
<1>1. CASE holder' = holder
  <2>1. CASE bot'.deleted = bot.deleted
    BY <1>1, <2>1 DEF Fence!vars
  <2>2. CASE bot'.deleted = TRUE /\ holder' = NoRun
    BY <2>2 DEF Fence!Next, Fence!Delete
  <2> QED
    BY <2>1, <2>2, DeletionMoves
<1>2. CASE RowTaken /\ holder = NoRun /\ holder' = journal.run /\ journal.run \in JournaledRuns
  <2>1. journal.run \in Fence!Unsettled /\ ~bot.deleted /\ bot'.deleted = bot.deleted
    BY <1>2, UnsettledRun DEF RowTaken, DeletedIsDisabled
  <2>2. Fence!Claim(journal.run)
    BY <1>2, <2>1 DEF Fence!Claim
  <2> QED
    BY <1>2, <2>2 DEF Fence!Next
<1>3. CASE /\ RowFreed /\ holder' = NoRun /\ holder = journal.run /\ journal.run \in JournaledRuns
           /\ journal.kind = "finalizing"
  <2>1. phase[journal.run] = "closing" /\ bot'.deleted = bot.deleted
    BY <1>3, PhaseValues DEF RowFreed
  <2>2. Fence!Release(journal.run)
    BY <1>3, <2>1 DEF Fence!Release
  <2> QED
    BY <1>3, <2>2 DEF Fence!Next
<1>4. CASE RowDeleted /\ holder' = NoRun
  <2>1. bot'.deleted = TRUE
    BY <1>0, <1>4, DeletionMoves DEF RowDeleted, Bots
  <2> QED
    BY <1>4, <2>1 DEF Fence!Next, Fence!Delete
<1> QED
  BY <1>1, <1>2, <1>3, <1>4, HolderSteps

\* A journal's run is settled: nothing of it is left in the row.
LEMMA SettleMaps ==
  ASSUME VisitInvariant, Moves, UNCHANGED <<row, bot>>,
         journal.run \in Runs, journal' = NoJournal, ~HeldBy(journal.run), ~BeginRun
  PROVE  Fence!Next
<1> USE DEF VisitInvariant, FenceInvariant
<1> DEFINE r == journal.run
<1>1. r \in JournaledRuns /\ journal'.run = NoRun /\ NoRun \notin Runs
  BY JournalIsNotLegacy, RunsAssumption DEF JournaledRuns, NoJournal
<1>2. ~Unborn(r)
  <2>1. WritePending(r, journal.claim) /\ journal.claim \in RunOrNone /\ r \in RunOrNone
    BY RunsAssumption DEF WritePending, JournalShape, TypeOK, Journals
  <2> QED
    BY <2>1 DEF UnbornIsFresh
<1>3. \A q \in Runs : Unborn(q)' <=> Unborn(q)
  BY DEF Moves, BodyMoves, Unborn, At
<1>4. r \in Fence!Unsettled /\ holder # r
  BY <1>1, UnsettledRun DEF holder, HeldBy
<1>5. \A q \in JournaledRuns : phase'[q] = IF q = r THEN "closed" ELSE phase[q]
  BY <1>1, <1>2, <1>3, PhaseValues DEF JournaledRuns
<1>6. phase' = [phase EXCEPT ![r] = "closed"] /\ holder' = holder /\ bot'.deleted = bot.deleted
  BY <1>1, <1>5, OnePhase DEF holder, Running
<1>7. Fence!Settle(r)
  BY <1>4, <1>6 DEF Fence!Settle
<1> QED
  BY <1>1, <1>7 DEF Fence!Next

LEMMA FenceNextMaps == VisitInvariant /\ [Next]_vars => [Fence!Next]_(Fence!vars)
<1> SUFFICES ASSUME VisitInvariant, [Next]_vars PROVE [Fence!Next]_(Fence!vars)
  OBVIOUS
<1> USE DEF VisitInvariant, FenceInvariant
<1>0. Moves
  BY NextMoves
<1>1. CASE BeginRun
  <2> DEFINE r == trans.run
  <2>1. r \in JournaledRuns /\ journal'.run = r /\ journal'.kind = "active" /\ Unborn(r)
        /\ journal.run = NoRun /\ UNCHANGED <<row, bot>> /\ ~bot.deleted /\ NoRun \notin Runs
    BY <1>1, BegunFacts, RunsAssumption DEF JournaledRuns, JournalShape
  <2>2. \A q \in Runs : q # r => (Unborn(q)' <=> Unborn(q))
    BY <1>1, BegunFacts DEF Unborn, At, TypeOK
  <2>3. phase[r] = "new" /\ Fence!Unsettled = {}
    BY <2>1, PhaseValues, UnsettledRun DEF JournaledRuns
  <2>4. \A q \in JournaledRuns : phase'[q] = IF q = r THEN "open" ELSE phase[q]
    BY <2>1, <2>2, PhaseValues DEF JournaledRuns
  <2>5. phase' = [phase EXCEPT ![r] = "open"] /\ holder' = holder /\ bot'.deleted = bot.deleted
    BY <2>1, <2>4, OnePhase DEF holder, Running
  <2>6. Fence!Begin(r)
    BY <2>1, <2>3, <2>5 DEF Fence!Begin
  <2> QED
    BY <2>1, <2>6 DEF Fence!Next
<1>2. CASE Closes /\ ~BeginRun
  <2> DEFINE r == journal.run
  <2>1. r \in JournaledRuns /\ phase[r] = "open"
    BY <1>2, JournalIsNotLegacy, PhaseValues
       DEF Closes, JournalShape, TypeOK, Journals, RunOrNone, JournaledRuns
  <2>2. \A q \in Runs : Unborn(q)' <=> Unborn(q)
    BY <1>0, <1>2 DEF Moves, BodyMoves, Unborn, At
  <2>3. \A q \in JournaledRuns : phase'[q] = IF q = r THEN "closing" ELSE phase[q]
    BY <1>2, <2>1, <2>2, PhaseValues DEF Closes, JournaledRuns
  <2>4. phase' = [phase EXCEPT ![r] = "closing"] /\ holder' = holder /\ bot'.deleted = bot.deleted
    BY <1>2, <2>1, <2>3, OnePhase DEF Closes, holder, Running
  <2>5. Fence!Close(r)
    BY <2>1, <2>4 DEF Fence!Close
  <2> QED
    BY <2>1, <2>5 DEF Fence!Next
<1>3. CASE journal'.run = journal.run /\ (journal'.kind = "active" <=> journal.kind = "active") /\ ~BeginRun
  BY <1>0, <1>3, SamePhase, RowStepMaps
<1>4. ASSUME NEW s \in Slots, ReleaseSettles(s), journal' # journal, ~BeginRun
      PROVE  Fence!Next
  <2>1. rec[s].pc = "released" /\ rec[s].j.run = journal.run /\ journal' = NoJournal
        /\ UNCHANGED <<row, bot>>
    BY <1>4 DEF ReleaseSettles
  <2>2. journal.run \in Runs /\ ~HeldBy(journal.run)
    BY <2>1, ReleasedFacts
  <2> QED
    BY <1>0, <1>4, <2>1, <2>2, SettleMaps
<1>5. CASE ClaimRefused /\ journal' # journal /\ ~BeginRun
  <2>1. trans.pc = "refused" /\ trans.run = journal.run /\ journal' = NoJournal
        /\ UNCHANGED <<row, bot>>
    BY <1>5 DEF ClaimRefused, InTrans
  <2>2. journal.run \in Runs /\ ~HeldBy(journal.run)
    BY <2>1 DEF AdmissionShape, ClaimIsSingle
  <2> QED
    BY <1>0, <1>5, <2>1, <2>2, SettleMaps
<1>6. CASE MaintenanceDone /\ ~BeginRun
  <2>1. journal.kind = "none" /\ journal.run = NoRun
    BY <1>6 DEF MaintenanceDone, MaintenanceShape, JournalShape
  <2>2. journal'.kind = "none" /\ journal'.run = NoRun
    BY <1>6, <2>1 DEF MaintenanceDone, stored, NoJournal
  <2> QED
    BY <1>3, <1>6, <2>1, <2>2
<1>7. ASSUME journal.kind = "active", NEW b \in BOOLEAN, journal' = [journal EXCEPT !.stale = b]
      PROVE  journal'.run = journal.run /\ journal'.kind = journal.kind
  BY <1>7 DEF TypeOK, Journals
<1> QED
  BY <1>0, <1>1, <1>2, <1>3, <1>4, <1>5, <1>6, <1>7 DEF Moves, JournalMoves

\* Through every fault, the object and its row behave as VisitFence says: the row
\* is held by one run at a time, between that run's beginning and its settling.
THEOREM VisitsImplementFence == Spec => ImplementsVisitFence
  BY FenceInitMaps, FenceNextMaps, VisitsAreOrdered, PTL DEF Spec, ImplementsVisitFence, Fence!Spec

\* What the steps of VisitFence keep: one run is unsettled, and the holder is that run.
HolderInvariant ==
  /\ Fence!TypeOK
  /\ \A q, r \in Fence!Unsettled : q = r
  /\ holder # NoRun => holder \in Fence!Unsettled

LEMMA HolderInit == Fence!Init => HolderInvariant
  BY DEF Fence!Init, HolderInvariant, Fence!TypeOK, Fence!Unsettled

LEMMA HolderNext == HolderInvariant /\ [Fence!Next]_(Fence!vars) => HolderInvariant'
<1> SUFFICES ASSUME HolderInvariant, [Fence!Next]_(Fence!vars) PROVE HolderInvariant'
  OBVIOUS
<1> USE DEF HolderInvariant, Fence!TypeOK, Fence!Unsettled
<1>1. ASSUME NEW r \in JournaledRuns, Fence!Begin(r) PROVE HolderInvariant'
  BY <1>1 DEF Fence!Begin
<1>2. ASSUME NEW r \in JournaledRuns, Fence!Claim(r) PROVE HolderInvariant'
  BY <1>2 DEF Fence!Claim
<1>3. ASSUME NEW r \in JournaledRuns, Fence!Close(r) PROVE HolderInvariant'
  BY <1>3 DEF Fence!Close
<1>4. ASSUME NEW r \in JournaledRuns, Fence!Release(r) PROVE HolderInvariant'
  BY <1>4 DEF Fence!Release
<1>5. ASSUME NEW r \in JournaledRuns, Fence!Settle(r) PROVE HolderInvariant'
  BY <1>5 DEF Fence!Settle
<1>6. CASE Fence!Delete
  BY <1>6 DEF Fence!Delete
<1>7. CASE UNCHANGED Fence!vars
  BY <1>7 DEF Fence!vars
<1> QED
  BY <1>1, <1>2, <1>3, <1>4, <1>5, <1>6, <1>7 DEF Fence!Next

\* Nobody but the one run that is still to be settled ever holds the row: what
\* claimRuntimeRun's caller may rely on when it is told that the row is taken.
THEOREM HolderWillBeSettled == Spec => []Fence!HolderIsUnsettled
<1>1. HolderInvariant => Fence!HolderIsUnsettled
  BY DEF HolderInvariant, Fence!HolderIsUnsettled
<1>2. Fence!Spec => []HolderInvariant
  BY HolderInit, HolderNext, PTL DEF Fence!Spec
<1> QED
  BY <1>1, <1>2, VisitsImplementFence, PTL DEF ImplementsVisitFence

(***************************************************************************)
(* The terminal events. As above, the moves of the variables come first;   *)
(* here they say which event there is when a handler goes on to close a    *)
(* journal.                                                                *)
(***************************************************************************)
TerminalMoves ==
  \/ UNCHANGED terminal
  \/ \E r \in Runs : /\ terminal' = FirstTerminal(r)
                     /\ r = Legacy => trans.pc \in {"reapStopped", "stopping"}
  \/ \E s \in Slots : LateContextArrives(s)
  \/ ReapContextArrives
  \/ MaintenanceDone /\ maint # "compact" /\ terminal' = [r \in Runs |-> 0]

\* A reconciler that closes a journal goes on with it, or has seen its event, or
\* has seen that there is none.
ClosingMoves ==
  \A s \in Slots : Closing(s)' =>
    \/ /\ Closing(s) /\ rec'[s].j = rec[s].j
       /\ rec'[s].pc = "lateContext" <=> rec[s].pc = "lateContext"
    \/ rec'[s].j.run \in Runs /\ terminal'[rec'[s].j.run] > 0 /\ rec'[s].pc # "lateContext"
    \/ journal.kind = "finalizing" /\ terminal[journal.run] = 0 /\ rec'[s].pc = "lateContext"

\* A journal is closed together with its event, unless its transition hung.
ClosedMoves ==
  journal'.kind = "finalizing" =>
    \/ journal.kind = "finalizing" /\ journal'.run = journal.run
    \/ journal'.run \in Runs /\ terminal'[journal'.run] > 0
    \/ limits.hangs > 0

ReapMoves ==
  trans'.pc = "reapContext" =>
    \/ UNCHANGED trans
    \/ /\ UNCHANGED terminal /\ trans'.victim = trans.victim
       /\ ~hasTerminalEvent(trans.victim)

OpMoves == trans'.op \in {trans.op, "none", "admit", "recover", "stop"} \cup limits.maint

LimitMoves == limits'.maint = limits.maint /\ (limits.hangs = 0 => limits'.hangs = 0)

EventMoves == /\ TerminalMoves /\ ClosingMoves /\ ClosedMoves
              /\ ReapMoves /\ OpMoves /\ LimitMoves

LEMMA FirstTerminalCounts ==
  ASSUME TypeOK, NEW r \in Runs
  PROVE  /\ FirstTerminal(r) \in [Runs -> Nat] /\ FirstTerminal(r)[r] > 0
         /\ \A q \in Runs : FirstTerminal(r)[q] >= terminal[q]
         /\ \A q \in Runs : FirstTerminal(r)[q] = terminal[q]
                            \/ (q = r /\ terminal[q] = 0 /\ FirstTerminal(r)[q] = 1)
  BY DEF TypeOK, FirstTerminal, hasTerminalEvent

\* What a busy reconciler works on has a journal or had one.
LEMMA ReconciledIsNotLegacy ==
  ASSUME VisitInvariant, NEW s \in Slots, Busy(s)
  PROVE  rec[s].j.run \in Runs /\ rec[s].j.run # Legacy
<1>1. rec[s].j.claim \in RunOrNone
  BY DEF VisitInvariant, FenceInvariant, TypeOK, Reconcilers, Journals
<1>2. WritePending(rec[s].j.run, rec[s].j.claim)
  BY DEF WritePending
<1> QED
  BY <1>1, <1>2, PendingIsRun DEF VisitInvariant, LegacyIsOver

\* Variables that a step leaves alone.
LEMMA StillEvents ==
  ASSUME VisitInvariant
  PROVE  /\ UNCHANGED terminal => TerminalMoves
         /\ UNCHANGED rec => ClosingMoves
         /\ UNCHANGED journal => ClosedMoves
         /\ journal'.kind # "finalizing" => ClosedMoves
         /\ UNCHANGED trans => ReapMoves /\ OpMoves
         /\ trans' = Free => ReapMoves /\ OpMoves
         /\ UNCHANGED limits => LimitMoves
         /\ CountFault => LimitMoves
  BY DEF TerminalMoves, ClosingMoves, Closing, ClosedMoves, ReapMoves, OpMoves, LimitMoves,
         Free, CountFault, VisitInvariant, FenceInvariant, TypeOK, Allowances

LEMMA StartReconcileEvents ==
  ASSUME VisitInvariant, NEW s \in Slots, NEW stop \in BOOLEAN, NEW armed \in BOOLEAN,
         StartReconcile(s, stop, armed), UNCHANGED <<journal, terminal>>
  PROVE  ClosingMoves
<1> USE DEF VisitInvariant, FenceInvariant
<1> SUFFICES ASSUME NEW q \in Slots, Closing(q)', q = s
             PROVE  \/ rec'[q].j.run \in Runs /\ terminal'[rec'[q].j.run] > 0
                       /\ rec'[q].pc # "lateContext"
                    \/ journal.kind = "finalizing" /\ terminal[journal.run] = 0
                       /\ rec'[q].pc = "lateContext"
  BY DEF ClosingMoves, StartReconcile, TypeOK, Closing
<1>1. rec'[s] = Reconciler(stop)
  BY DEF StartReconcile, TypeOK
<1>2. journal.kind = "finalizing" /\ Reconciler(stop) = Finalizer(journal, terminal[journal.run])
  BY <1>1, ReconcilerIsFinalizer DEF Closing
<1>3. journal.run \in Runs
  BY <1>2 DEF JournalShape, TypeOK, Journals, RunOrNone
<1>4. terminal[journal.run] \in Nat
  BY <1>3 DEF TypeOK
<1> QED
  BY <1>1, <1>2, <1>3, <1>4 DEF Finalizer

LEMMA FinalizeRunEvents ==
  ASSUME VisitInvariant, NEW s \in Slots, NEW run \in Runs,
         NEW type \in {"completed", "failed", "stopped"}, NEW pause \in Nat,
         FinalizeRun(s, run, type, pause)
  PROVE  TerminalMoves /\ ClosingMoves /\ ClosedMoves
<1> USE DEF VisitInvariant, FenceInvariant
<1>1. CASE ~Active(run)
  BY <1>1, StillEvents DEF FinalizeRun
<1>2. CASE Active(run)
  <2>1. journal' = [finish(type) EXCEPT !.pause = pause] /\ journal.run = run
    BY <1>2 DEF FinalizeRun, Active
  <2>2. journal'.run = run
    BY <2>1 DEF finish, TypeOK, Journals
  <2>3. run # Legacy
    BY <2>1, JournalIsNotLegacy
  <2>4. terminal' = FirstTerminal(run) /\ terminal'[run] > 0
    BY <1>2, FirstTerminalCounts DEF FinalizeRun
  <2>5. rec' = [rec EXCEPT ![s] = Finalizer(journal', 1)]
    BY <1>2 DEF FinalizeRun
  <2>6. ClosingMoves
    BY <2>2, <2>4, <2>5 DEF ClosingMoves, Closing, Finalizer, TypeOK
  <2> QED
    BY <2>2, <2>3, <2>4, <2>6 DEF TerminalMoves, ClosedMoves
<1> QED
  BY <1>1, <1>2

\* A slot that goes idle closes nothing.
LEMMA IdleEvents ==
  ASSUME TypeOK, NEW s \in Slots, rec' = [rec EXCEPT ![s] = Idle]
  PROVE  ClosingMoves
  BY DEF ClosingMoves, Closing, Idle, TypeOK

LEMMA ReconcileEvents ==
  ASSUME VisitInvariant, NEW s \in Slots, Reconcile(s)
  PROVE  EventMoves
<1> USE StillEvents DEF VisitInvariant, FenceInvariant
<1>0. rec[s] \in Reconcilers /\ rec[s].j \in Journals /\ rec \in [Slots -> Reconcilers]
  BY DEF TypeOK, Reconcilers
<1>1. CASE ContextArrives(s)
  <2> DEFINE run == rec[s].j.run
             ended == IF rec[s].stop THEN "stopped" ELSE "failed"
             final == IF Active(run) THEN finish(ended) ELSE journal
  <2>1. run \in Runs /\ run # Legacy
    BY <1>1, ReconciledIsNotLegacy DEF ContextArrives, Busy
  <2>2. terminal' = FirstTerminal(run) /\ terminal'[run] > 0
    BY <1>1, <2>1, FirstTerminalCounts DEF ContextArrives
  <2>3. journal' = final /\ journal'.run = journal.run
    BY <1>1 DEF ContextArrives, finish, TypeOK, Journals
  <2>4. TerminalMoves
    BY <2>1, <2>2 DEF TerminalMoves
  <2>5. ClosedMoves
    BY <2>1, <2>2, <2>3 DEF ClosedMoves, Active
  <2>6. ClosingMoves
    <3>1. CASE journal.run = run
      <4>1. rec' = [rec EXCEPT ![s] = Finalizer(journal', 1)]
        BY <1>1, <2>3, <3>1 DEF ContextArrives
      <4> QED
        BY <1>0, <2>1, <2>2, <2>3, <3>1, <4>1 DEF ClosingMoves, Closing, Finalizer
    <3>2. CASE journal.run # run
      BY <1>1, <3>2, IdleEvents DEF ContextArrives, Throws
    <3> QED
      BY <3>1, <3>2
  <2>7. UNCHANGED limits /\ (trans' = trans \/ trans' = Free)
    BY <1>1 DEF ContextArrives, Throws
  <2> QED
    BY <2>4, <2>5, <2>6, <2>7 DEF EventMoves
<1>2. CASE ContextFails(s)
  BY <1>2, IdleEvents DEF ContextFails, Throws, EventMoves
<1>3. CASE LateContextArrives(s)
  <2>1. rec[s].j.run \in Runs
    BY <1>3, ReconciledIsNotLegacy DEF LateContextArrives, Busy
  <2>2. terminal'[rec[s].j.run] > 0
    BY <1>3, <2>1 DEF LateContextArrives, TypeOK
  <2>3. ClosingMoves
    BY <1>0, <1>3, <2>1, <2>2 DEF LateContextArrives, ClosingMoves, Closing, Finalizer
  <2>4. TerminalMoves
    BY <1>3 DEF TerminalMoves
  <2> QED
    BY <1>3, <2>3, <2>4 DEF LateContextArrives, EventMoves
<1>4. CASE LateContextFails(s)
  BY <1>4, IdleEvents DEF LateContextFails, EventMoves, stored
<1>5. CASE ReconcilerCallDone(s)
  <2>1. ClosingMoves
    BY <1>0, <1>5 DEF ReconcilerCallDone, ClosingMoves, Closing, AfterCall, Idle
  <2> QED
    BY <1>5, <2>1 DEF ReconcilerCallDone, EventMoves, stored
<1>6. CASE ReconcilerCallFails(s)
  BY <1>6, IdleEvents DEF ReconcilerCallFails, EventMoves, stored
<1>7. CASE ReleaseSettles(s)
  <2>1. ClosedMoves
    BY <1>7 DEF ReleaseSettles, ClosedMoves, NoJournal
  <2> QED
    BY <1>7, <2>1, IdleEvents DEF ReleaseSettles, EventMoves
<1> QED
  BY <1>1, <1>2, <1>3, <1>4, <1>5, <1>6, <1>7 DEF Reconcile

LEMMA VisitEvents ==
  ASSUME VisitInvariant, NEW r \in Runs, Visit(r)
  PROVE  EventMoves
<1> USE StillEvents DEF VisitInvariant, FenceInvariant
<1>0. r \in Slots /\ body[r].rev \in Nat
  BY DEF Slots, TypeOK, Bodies
<1>1. CASE BodyStarts(r)
  BY <1>1 DEF BodyStarts, EventMoves, stored
<1>2. CASE BodyNeverStarts(r)
  BY <1>2 DEF BodyNeverStarts, EventMoves, stored
<1>3. CASE BodyProgresses(r)
  <2>1. ClosedMoves
    BY <1>3 DEF BodyProgresses, ClosedMoves, Active, TypeOK, Journals
  <2> QED
    BY <1>3, <2>1 DEF BodyProgresses, EventMoves, memory
<1>4. CASE BodyRenews(r)
  BY <1>4 DEF BodyRenews, EventMoves, stored
<1>5. CASE RenewDone(r)
  BY <1>5 DEF RenewDone, EventMoves, stored
<1>6. CASE RenewFails(r)
  BY <1>0, <1>6, FinalizeRunEvents DEF RenewFails, EventMoves
<1>7. CASE BodyContinues(r)
  BY <1>7 DEF BodyContinues, EventMoves, stored
<1>8. CASE BodyCompletes(r)
  BY <1>0, <1>8, FinalizeRunEvents DEF BodyCompletes, EventMoves
<1>9. CASE BodyFails(r)
  BY <1>0, <1>9, FinalizeRunEvents DEF BodyFails, EventMoves
<1>10. CASE BodyStops(r)
  BY <1>0, <1>10, FinalizeRunEvents DEF BodyStops, EventMoves
<1>11. CASE BodyEnds(r)
  BY <1>11 DEF BodyEnds, EventMoves
<1> QED
  BY <1>1, <1>2, <1>3, <1>4, <1>5, <1>6, <1>7, <1>8, <1>9, <1>10, <1>11 DEF Visit

LEMMA TransitionEvents ==
  ASSUME VisitInvariant, Transition
  PROVE  EventMoves
<1> USE StillEvents DEF VisitInvariant, FenceInvariant
<1>0. trans \in Transitions /\ "trans" \in Slots
  BY DEF TypeOK, Slots
\* The transition moves on to another of its stages.
<1>a. ASSUME NEW pc, Step(pc), pc # "reapContext"
      PROVE  ReapMoves /\ OpMoves
  BY <1>0, <1>a DEF Step, ReapMoves, OpMoves, Transitions
\* It writes the record of the run it released.
<1>b. ASSUME terminal' = FirstTerminal(trans.victim) \/ UNCHANGED terminal,
             trans.pc \in {"reapStopped", "stopping"}
      PROVE  TerminalMoves
  BY <1>b DEF TerminalMoves, VictimIsOver
<1>1. CASE RecoverStaleRun
  <2>1. ReapMoves /\ OpMoves
    BY <1>1 DEF RecoverStaleRun, ReapMoves, OpMoves, Free
  <2> QED
    BY <1>1, <2>1 DEF RecoverStaleRun, EventMoves, stored
<1>2. CASE StopDecides
  <2>1. trans' = Free \/ Step("stopping")
    BY <1>2 DEF StopDecides
  <2>2. ReapMoves /\ OpMoves
    BY <2>1, <1>a DEF ReapMoves, OpMoves, Free
  <2> QED
    BY <1>2, <2>2 DEF StopDecides, EventMoves, Requeue
<1>3. CASE ReapStaleRun
  <2>1. ReapMoves /\ OpMoves
    BY <1>0, <1>3 DEF ReapStaleRun, Step, ReapMoves, OpMoves, Transitions
  <2>2. ClosingMoves
    BY <1>0, <1>3, StartReconcileEvents DEF ReapStaleRun, StopRequested, TypeOK
  <2> QED
    BY <1>3, <2>1, <2>2 DEF ReapStaleRun, EventMoves, Requeue
<1>4. CASE ReapStoppedDone
  BY <1>4, <1>a, <1>b DEF ReapStoppedDone, InTrans, EventMoves
<1>5. CASE ReapStaleDone
  <2>1. ReapMoves /\ OpMoves
    BY <1>0, <1>5 DEF ReapStaleDone, Step, ReapMoves, OpMoves, Transitions
  <2> QED
    BY <1>5, <2>1 DEF ReapStaleDone, EventMoves
<1>6. CASE ReapContextArrives
  <2>1. TerminalMoves
    BY <1>6 DEF TerminalMoves
  <2> QED
    BY <1>6, <2>1, <1>a DEF ReapContextArrives, EventMoves, Requeue
<1>7. CASE AdmissionChecks
  BY <1>7, <1>a DEF AdmissionChecks, EventMoves, Requeue, stored
<1>8. CASE BeginRun
  <2>1. ReapMoves /\ OpMoves
    BY <1>0, <1>8 DEF BeginRun, ReapMoves, OpMoves, Transitions
  <2>2. ClosedMoves
    BY <1>8 DEF BeginRun, ClosedMoves, NoJournal
  <2> QED
    BY <1>8, <2>1, <2>2 DEF BeginRun, EventMoves
<1>9. CASE ClaimDone
  BY <1>9, <1>a DEF ClaimDone, EventMoves, stored
<1>10. CASE ClaimFails
  <2>1. trans.run \in Runs
    BY <1>10 DEF ClaimFails, InTrans, AdmissionShape
  <2> QED
    BY <1>0, <1>10, <2>1, <1>a, FinalizeRunEvents DEF ClaimFails, EventMoves
<1>11. CASE ClaimRefused
  <2>1. ClosedMoves
    BY <1>11 DEF ClaimRefused, ClosedMoves, NoJournal
  <2> QED
    BY <1>11, <2>1 DEF ClaimRefused, EventMoves
<1>12. CASE Admitted
  BY <1>12 DEF Admitted, EventMoves
<1>13. CASE MaintenanceChecks
  BY <1>13 DEF MaintenanceChecks, EventMoves, Requeue, stored
<1>14. CASE MarkRunStopped
  <2>1. trans' = Free \/ Step("stopAgain")
    BY <1>14 DEF MarkRunStopped
  <2>2. ReapMoves /\ OpMoves
    BY <2>1, <1>a DEF ReapMoves, OpMoves, Free
  <2> QED
    BY <1>14, <1>b, <2>2 DEF MarkRunStopped, InTrans, EventMoves
<1>15. CASE TransEnds
  BY <1>15 DEF TransEnds, EventMoves, Requeue, stored
<1>16. CASE TransFails
  BY <1>16 DEF TransFails, EventMoves, stored
<1>17. CASE MaintenanceDone
  <2>1. TerminalMoves
    BY <1>17 DEF MaintenanceDone, TerminalMoves, stored
  <2>2. ClosedMoves
    BY <1>17 DEF MaintenanceDone, ClosedMoves, NoJournal, stored
  <2> QED
    BY <1>17, <2>1, <2>2 DEF MaintenanceDone, EventMoves
<1>18. CASE MaintenanceFails
  BY <1>18 DEF MaintenanceFails, EventMoves, stored
<1>19. CASE StopReadsAgain
  <2>1. ReapMoves /\ OpMoves
    BY <1>19 DEF StopReadsAgain, ReapMoves, OpMoves, Free
  <2> QED
    BY <1>19, <2>1 DEF StopReadsAgain, EventMoves, Requeue
<1> QED
  BY <1>1, <1>2, <1>3, <1>4, <1>5, <1>6, <1>7, <1>8, <1>9, <1>10, <1>11, <1>12, <1>13, <1>14,
     <1>15, <1>16, <1>17, <1>18, <1>19 DEF Transition

LEMMA RequestEvents ==
  ASSUME VisitInvariant,
         \/ \E r \in Runs : AdmitTick(r)
         \/ \E op \in MaintOps : BeginMaintenance(op)
         \/ \E c \in Callers : Request(c)
         \/ AlarmFires
  PROVE  EventMoves
<1> USE StillEvents DEF VisitInvariant, FenceInvariant
<1>1. ASSUME NEW r \in Runs, AdmitTick(r) PROVE EventMoves
  <2>1. ReapMoves /\ OpMoves
    BY <1>1 DEF AdmitTick, ReapMoves, OpMoves, Free
  <2>2. ClosingMoves
    BY <1>1, StartReconcileEvents DEF AdmitTick, StopRequested, Slots, TypeOK
  <2> QED
    BY <1>1, <2>1, <2>2 DEF AdmitTick, EventMoves
<1>2. ASSUME NEW op \in MaintOps, BeginMaintenance(op) PROVE EventMoves
  <2>1. ReapMoves /\ OpMoves
    BY <1>2 DEF BeginMaintenance, ReapMoves, OpMoves, Free
  <2> QED
    BY <1>2, <2>1 DEF BeginMaintenance, EventMoves, stored
<1>3. ASSUME NEW c \in Callers, StopTick(c) \/ RecoverJournal(c) PROVE EventMoves
  <2>1. /\ UNCHANGED <<journal, terminal, trans, limits>>
        /\ \E stop \in BOOLEAN : StartReconcile(c, stop, alarm)
    BY <1>3 DEF StopTick, RecoverJournal, StopRequested
  <2>2. ClosingMoves
    BY <2>1, StartReconcileEvents DEF Slots, TypeOK
  <2> QED
    BY <2>1, <2>2 DEF EventMoves
<1>5. ASSUME NEW c \in Callers, StopQueues(c) \/ StopReadsRow(c) \/ StopFindsNothing(c)
      PROVE  EventMoves
  <2>1. c \in Slots
    BY DEF Slots
  <2>2. rec'[c].pc \in {"idle", "queued"} /\ \A s \in Slots : s # c => rec'[s] = rec[s]
    BY <1>5, <2>1 DEF StopQueues, StopReadsRow, StopFindsNothing, Idle, TypeOK
  <2>3. ClosingMoves
    BY <2>2 DEF ClosingMoves, Closing
  <2>4. UNCHANGED <<journal, terminal, limits>>
    BY <1>5 DEF StopQueues, StopReadsRow, StopFindsNothing, Requeue, stored
  <2>5. ReapMoves /\ OpMoves
    BY <1>5 DEF StopQueues, StopReadsRow, StopFindsNothing, ReapMoves, OpMoves, Free
  <2> QED
    BY <2>3, <2>4, <2>5 DEF EventMoves
<1>4. CASE AlarmFires
  <2>1. ClosingMoves
    BY <1>4, StartReconcileEvents DEF AlarmFires, StopRequested, Slots
  <2> QED
    BY <1>4, <2>1 DEF AlarmFires, EventMoves
<1> QED
  BY <1>1, <1>2, <1>3, <1>4, <1>5 DEF Request

LEMMA ClockOwnerEvents ==
  ASSUME VisitInvariant, InactivityElapses \/ LeaseElapses \/ Owner
  PROVE  EventMoves
<1> USE StillEvents DEF VisitInvariant, FenceInvariant
<1>1. CASE InactivityElapses
  <2>1. ClosedMoves
    BY <1>1 DEF InactivityElapses, ClosedMoves, TypeOK, Journals
  <2> QED
    BY <1>1, <2>1 DEF InactivityElapses, EventMoves, memory
<1>2. CASE LeaseElapses
  BY <1>2 DEF LeaseElapses, EventMoves, memory, stored
<1>3. CASE Owner
  <2>1. UNCHANGED <<stored, memory>> /\ limits' = [limits EXCEPT !.edits = @ - 1]
    BY <1>3 DEF Owner, OwnerPauses, OwnerResumes, OwnerReschedules, OwnerDeletes, Edit
  <2>2. LimitMoves
    BY <2>1 DEF LimitMoves, TypeOK, Allowances
  <2> QED
    BY <2>1, <2>2 DEF EventMoves, memory, stored
<1> QED
  BY <1>1, <1>2, <1>3

LEMMA FaultEvents ==
  ASSUME VisitInvariant, LateCall \/ Crash \/ AbortHungTransition
  PROVE  EventMoves
<1> USE StillEvents DEF VisitInvariant, FenceInvariant
<1>1. CASE LateCall
  BY <1>1 DEF LateCall, EventMoves, stored, memory
<1>2. ASSUME Reset
      PROVE  ClosingMoves /\ UNCHANGED terminal /\ trans' = Free
  BY <1>2 DEF Reset, ClosingMoves, Closing, Idle
<1>3. CASE Crash
  <2>1. LimitMoves /\ Reset /\ UNCHANGED journal
    BY <1>3 DEF Crash, LimitMoves, TypeOK, Allowances
  <2> QED
    BY <1>2, <2>1 DEF EventMoves
<1>4. CASE AbortHungTransition
  <2>1. LimitMoves /\ ClosedMoves /\ Reset
    BY <1>4 DEF AbortHungTransition, LimitMoves, ClosedMoves, TypeOK, Allowances
  <2> QED
    BY <1>2, <2>1 DEF EventMoves
<1> QED
  BY <1>1, <1>3, <1>4

LEMMA NextEvents == VisitInvariant /\ [Next]_vars => EventMoves
<1> SUFFICES ASSUME VisitInvariant, [Next]_vars PROVE EventMoves
  OBVIOUS
<1>1. CASE UNCHANGED vars
  BY <1>1, StillEvents DEF vars, stored, memory, EventMoves
<1>2. CASE Next
  BY <1>2, ReconcileEvents, VisitEvents, TransitionEvents, RequestEvents, ClockOwnerEvents,
     FaultEvents
     DEF Next
<1> QED
  BY <1>1, <1>2

(***************************************************************************)
(* No event is written twice while no transition hangs.                    *)
(***************************************************************************)
LEMMA EventsInit == Init => EventsAreSingle
  BY DEF Init, EventsAreSingle, AtMostOneFinalEvent, NoJournal, Idle, Free

LEMMA EventsNext ==
  ASSUME VisitInvariant, VisitInvariant', EventMoves, HangFreeEvents
  PROVE  HangFreeEvents'
<1> USE DEF VisitInvariant, FenceInvariant, HangFreeEvents, EventsAreSingle
<1>1. limits'.hangs = 0
  BY DEF EventMoves, LimitMoves
<1>2. ASSUME NEW s \in Slots PROVE rec'[s].pc # "lateContext"
  BY DEF EventMoves, ClosingMoves, Closing, hasTerminalEvent
<1>3. \A s \in Slots : ~LateContextArrives(s)
  BY DEF LateContextArrives
<1>4. ASSUME NEW r \in Runs, terminal' = FirstTerminal(r)
      PROVE  AtMostOneFinalEvent' /\ \A q \in Runs : terminal'[q] >= terminal[q]
  BY <1>4, FirstTerminalCounts DEF AtMostOneFinalEvent, TypeOK
<1>5. ASSUME ReapContextArrives PROVE AtMostOneFinalEvent'
  <2>1. trans.pc = "reapContext" /\ trans.victim \in Runs /\ terminal[trans.victim] = 0
    BY <1>5 DEF ReapContextArrives, InTrans, VictimIsOver, hasTerminalEvent, TypeOK
  <2>2. terminal' = [terminal EXCEPT ![trans.victim] = 1]
    BY <1>5, <2>1 DEF ReapContextArrives
  <2> QED
    BY <2>1, <2>2 DEF AtMostOneFinalEvent, TypeOK
<1>6. AtMostOneFinalEvent'
  BY <1>3, <1>4, <1>5 DEF EventMoves, TerminalMoves, AtMostOneFinalEvent
<1>7. ASSUME journal'.kind = "finalizing" PROVE hasTerminalEvent(journal.run)'
  <2>1. CASE journal'.run \in Runs /\ terminal'[journal'.run] > 0
    BY <2>1 DEF hasTerminalEvent
  <2>2. CASE journal.kind = "finalizing" /\ journal'.run = journal.run
    <3>1. journal.run \in Runs /\ terminal[journal.run] > 0 /\ maint = NoMaint
      BY <2>2 DEF JournalShape, TypeOK, Journals, RunOrNone, hasTerminalEvent, MaintenanceShape
    <3>2. ~MaintenanceDone
      BY <3>1 DEF MaintenanceDone
    <3>3. ReapContextArrives => terminal'[journal.run] >= terminal[journal.run]
      BY <3>1 DEF ReapContextArrives, TypeOK
    <3>4. terminal'[journal.run] >= terminal[journal.run]
      BY <1>3, <1>4, <3>1, <3>2, <3>3 DEF EventMoves, TerminalMoves, TypeOK
    <3> QED
      BY <2>2, <3>1, <3>4 DEF hasTerminalEvent, TypeOK
  <2> QED
    BY <1>7, <2>1, <2>2 DEF EventMoves, ClosedMoves
<1>8. ASSUME trans'.pc = "reapContext" PROVE ~hasTerminalEvent(trans.victim)'
  <2>1. CASE trans' # trans
    BY <1>8, <2>1 DEF EventMoves, ReapMoves, hasTerminalEvent
  <2>2. CASE trans' = trans
    <3>1. trans.pc = "reapContext" /\ trans.victim = Legacy /\ Legacy \in Runs
          /\ terminal[Legacy] = 0
      BY <1>8, <2>2 DEF VictimIsOver, hasTerminalEvent, TypeOK
    <3>2. ~ReapContextArrives
      BY <1>8, <2>2, <3>1 DEF ReapContextArrives, Step, TypeOK, Transitions
    <3>3. terminal'[Legacy] = 0
      BY <1>3, <3>1, <3>2, FirstTerminalCounts DEF EventMoves, TerminalMoves
    <3> QED
      BY <2>2, <3>1, <3>3 DEF hasTerminalEvent
  <2> QED
    BY <2>1, <2>2
<1> QED
  BY <1>1, <1>2, <1>6, <1>7, <1>8

\* run-liveness: however many reconcilers, stops, reaps, resets and late calls
\* meet, a run's terminal event is written once, as long as no transition is
\* aborted for hanging; SecondFinalEvent shows what happens when one is.
THEOREM FinalEventIsSingle == Spec /\ limits.hangs = 0 => []AtMostOneFinalEvent
<1>1. Init /\ limits.hangs = 0 => HangFreeEvents
  BY EventsInit DEF HangFreeEvents
<1>2. VisitInvariant /\ VisitInvariant' /\ HangFreeEvents /\ [Next]_vars => HangFreeEvents'
  BY NextEvents, EventsNext
<1>3. HangFreeEvents => AtMostOneFinalEvent
  BY DEF HangFreeEvents, EventsAreSingle
<1> QED
  BY <1>1, <1>2, <1>3, VisitsAreOrdered, PTL DEF Spec

(***************************************************************************)
(* No event is missing while no history is erased.                         *)
(***************************************************************************)
LEMMA HistoryInit == Init => EventsOutliveJournals
  BY DEF Init, EventsOutliveJournals, NoJournal, NoMaint, Idle, Free, Closing, Unborn, At

\* No event disappears but by an erasure.
LEMMA EventsStay ==
  ASSUME VisitInvariant, TypeOK', EventMoves, maint \in {NoMaint, "compact"}
  PROVE  \A r \in Runs : hasTerminalEvent(r) => hasTerminalEvent(r)'
<1> USE DEF VisitInvariant, FenceInvariant
<1>1. ~(MaintenanceDone /\ maint # "compact")
  BY DEF MaintenanceDone
<1>2. ASSUME NEW s \in Slots, LateContextArrives(s)
      PROVE  \A r \in Runs : terminal'[r] >= terminal[r]
  BY <1>2 DEF LateContextArrives, TypeOK
<1>3. ReapContextArrives => \A r \in Runs : terminal'[r] >= terminal[r]
  BY DEF ReapContextArrives, TypeOK
<1>4. ASSUME NEW q \in Runs, terminal' = FirstTerminal(q)
      PROVE  \A r \in Runs : terminal'[r] >= terminal[r]
  BY <1>4, FirstTerminalCounts
<1>5. UNCHANGED terminal => \A r \in Runs : terminal'[r] >= terminal[r]
  BY DEF TypeOK
<1>6. \A r \in Runs : terminal'[r] >= terminal[r]
  BY <1>1, <1>2, <1>3, <1>4, <1>5 DEF EventMoves, TerminalMoves
<1>7. \A r \in Runs : terminal[r] \in Nat /\ terminal'[r] \in Nat
  BY DEF TypeOK
<1> QED
  BY <1>6, <1>7 DEF hasTerminalEvent

LEMMA HistoryNext ==
  ASSUME VisitInvariant, TypeOK', Moves, EventMoves, limits.maint \subseteq {"compact"},
         EventsOutliveJournals
  PROVE  EventsOutliveJournals'
<1> USE DEF VisitInvariant, FenceInvariant
<1>1. maint' \in {NoMaint, "compact"}
  <2>1. CASE MaintenanceChecks
    <3>1. maint' = maint \/ (maint' = trans.op /\ trans.op \in MaintOps)
      BY <2>1 DEF MaintenanceChecks
    <3>2. trans.op \notin {"clear_history", "clear_storage"}
      BY DEF EventsOutliveJournals
    <3> QED
      BY <3>1, <3>2, LimitsAssumption DEF EventsOutliveJournals
  <2> QED
    BY <2>1 DEF Moves, MaintMoves, EventsOutliveJournals
<1>2. trans'.op \notin {"clear_history", "clear_storage"}
  BY DEF EventMoves, OpMoves, EventsOutliveJournals
<1>3. \A r \in Runs : hasTerminalEvent(r) => hasTerminalEvent(r)'
  BY EventsStay DEF EventsOutliveJournals
<1>4. ASSUME NEW s \in Slots, Closing(s)', rec'[s].pc # "lateContext"
      PROVE  hasTerminalEvent(rec[s].j.run)'
  <2>1. CASE rec'[s].j.run \in Runs /\ terminal'[rec'[s].j.run] > 0
    BY <2>1 DEF hasTerminalEvent
  <2>2. CASE Closing(s) /\ rec'[s].j = rec[s].j /\ rec[s].pc # "lateContext"
    <3>1. hasTerminalEvent(rec[s].j.run) /\ rec[s].j.run \in Runs
      BY <2>2, PendingIsRun DEF EventsOutliveJournals, Closing, Busy
    <3>2. terminal'[rec[s].j.run] > 0
      BY <1>3, <3>1 DEF hasTerminalEvent
    <3> QED
      BY <2>2, <3>2 DEF hasTerminalEvent
  <2> QED
    BY <1>4, <2>1, <2>2 DEF EventMoves, ClosingMoves
<1>5. ASSUME NEW r \in Runs \ {Legacy}, ~Unborn(r)', ~At(r, "refused")', journal'.run # r
      PROVE  hasTerminalEvent(r)'
  <2>1. ~Unborn(r) /\ ~At(r, "refused") /\ body'[r].pc # "refused"
    <3>1. r # trans.run \/ ~BeginRun
      BY <1>5 DEF BeginRun, NoJournal
    <3> QED
      BY <1>5, <3>1 DEF Moves, BodyMoves, Unborn, At
  <2>2. CASE journal.run # r
    BY <1>3, <2>1, <2>2 DEF EventsOutliveJournals
  <2>3. CASE journal.run = r
    <3>1. journal' # journal /\ journal.kind # "none" /\ maint = NoMaint
      BY <1>5, <2>3, RunsAssumption DEF JournalShape, MaintenanceShape
    <3>2. ~BeginRun /\ ~MaintenanceDone /\ ~ClaimRefused
      BY <1>5, <2>1, <2>3, <3>1
         DEF BeginRun, InTrans, MaintenanceShape, MaintenanceDone, ClaimRefused, Goto, TypeOK, Bodies
    <3>3. journal'.run = r \/ \E s \in Slots : ReleaseSettles(s)
      BY <2>3, <3>1, <3>2 DEF Moves, JournalMoves, Closes, TypeOK, Journals
    <3>4. PICK s \in Slots : ReleaseSettles(s)
      BY <1>5, <3>3
    <3>5. rec[s].pc = "released" /\ rec[s].j.run = r
      BY <1>5, <2>3, <3>4 DEF ReleaseSettles
    <3>6. hasTerminalEvent(r)
      BY <3>5 DEF EventsOutliveJournals, Closing
    <3> QED
      BY <1>3, <3>6
  <2> QED
    BY <2>2, <2>3
<1> QED
  BY <1>1, <1>2, <1>4, <1>5 DEF EventsOutliveJournals

\* run-liveness: a run that was begun and not refused is never settled without
\* saying how it ended, whatever fails or is reset, unless its history is erased.
THEOREM SettledRunsAreRecorded == Spec => []SettledRunHasFinalEvent
<1> DEFINE RecordsLast == limits.maint \subseteq {"compact"} => EventsOutliveJournals
<1>1. Init => RecordsLast
  BY HistoryInit
<1>2. VisitInvariant /\ VisitInvariant' /\ [Next]_vars /\ RecordsLast => RecordsLast'
  BY NextMoves, NextEvents, HistoryNext
     DEF VisitInvariant, FenceInvariant, EventMoves, LimitMoves
<1>3. RecordsLast => SettledRunHasFinalEvent
  BY DEF EventsOutliveJournals, SettledRunHasFinalEvent, Unborn, hasTerminalEvent
<1> QED
  <2> HIDE DEF RecordsLast
  <2> QED
    BY <1>1, <1>2, <1>3, VisitsAreOrdered, PTL DEF Spec
=============================================================================
