----------------------- MODULE RunAdmissionInvariant -----------------------
(***************************************************************************)
(* Why an abandoned claim cannot take the row for a run nobody watches.    *)
(*                                                                         *)
(* A claim executes only if it finds the token its journal was begun with. *)
(* Claims and fences replace the token by their own run id.  The run ids   *)
(* are fresh, so no statement waits for the value that another one is      *)
(* about to write, and the token never returns to an earlier value: once   *)
(* the fence has executed, the claim it fences off is dead for good.       *)
(***************************************************************************)
EXTENDS RunAdmission

\* A claim that would turn token t into x is under way.
ClaimPending(x, t) ==
  \/ \E c \in late : c.op = "claim" /\ c.run = x /\ c.expect = t
  \/ trans.pc = "claiming" /\ trans.run = x /\ trans.expect = t

Busy(s) == rec[s].pc \notin {"idle", "queued"}

\* A statement that would turn token t into x is under way, or a journal is
\* there that will make one be issued.
WritePending(x, t) ==
  \/ ClaimPending(x, t)
  \/ \E c \in late : c.op = "fence" /\ c.run = x /\ c.expect = t
  \/ journal.kind # "none" /\ journal.run = x /\ journal.claim = t
  \/ \E s \in Slots : Busy(s) /\ rec[s].j.run = x /\ rec[s].j.claim = t

Unborn(r) == At(r, "unborn")
HeldBy(run) == Running /\ row.active = run

-----------------------------------------------------------------------------
(***************************************************************************)
(* The parts of the inductive invariant.                                   *)
(***************************************************************************)
JournalShape == journal.kind = "none" <=> journal.run = NoRun

RowShape == IF Running THEN row.active \in Runs ELSE row.active = NoRun

\* Until its claim is issued, an admission's run is not begun; it is from then on.
AdmissionShape ==
  /\ trans.op = "admit" /\ trans.pc \in {"reap", "reaped", "reapStopped", "reapStale",
                                         "reapContext", "setup"}
       => trans.run \in Runs /\ Unborn(trans.run)
  /\ trans.pc = "setup" => trans.op = "admit"
  /\ trans.pc \in {"claiming", "claimed", "refused"}
       => trans.run \in Runs /\ ~Unborn(trans.run)

\* Maintenance and a journal exclude each other, and so do maintenance and an
\* admission that has made its last check.
MaintenanceShape ==
  maint # NoMaint \/ trans.pc = "setup" => journal.kind = "none"

SetupShape == trans.pc = "setup" => maint = NoMaint

\* Nothing in D1, in flight or in memory names a run that is not begun.
UnbornIsFresh ==
  \A r \in Runs : Unborn(r) =>
    /\ row.token # r /\ ~HeldBy(r)
    /\ \A x, t \in RunOrNone : WritePending(x, t) => x # r /\ t # r

\* Only runs are written.
WritesAreRuns == \A x, t \in RunOrNone : WritePending(x, t) => x \in Runs

\* No statement waits for the token that another one is about to write.
TokenNeverReturns ==
  \A x, y \in RunOrNone : WritePending(x, row.token) => ~WritePending(y, x)

\* A claim under way is dead, or it is that of the journal.
ClaimIsDeadOrCurrent ==
  \A x \in RunOrNone :
    ClaimPending(x, row.token) => journal.run = x /\ journal.claim = row.token

\* A reconciler at work on the current journal's run has read its claim token.
ReconcilerKnowsToken ==
  \A s \in Slots : Busy(s) /\ rec[s].j.run = journal.run => rec[s].j.claim = journal.claim

\* When a row is released its run's claim is dead; afterwards the row is free of it.
FencedBeforeRelease ==
  \A s \in Slots : rec[s].pc \in {"release", "released"} => row.token # rec[s].j.claim

FreeWhenReleased ==
  \A s \in Slots : rec[s].pc = "released" /\ rec[s].j.run = journal.run
                     => ~HeldBy(rec[s].j.run)

\* While an admission waits for its claim, no other claim of its run is under
\* way, and the row is not held by it unless the claim succeeded.
ClaimIsSingle ==
  trans.pc \in {"claiming", "claimed", "refused"} =>
    /\ \A c \in late : c.op = "claim" => c.run # trans.run
    /\ trans.pc # "claimed" => ~HeldBy(trans.run)

\* The inductive invariant: an abandoned claim of reconcileRunJournal's fence is
\* dead or is that of the current journal, so a running row is always watched.
FenceInvariant ==
  /\ TypeOK
  /\ JournalShape /\ RowShape /\ AdmissionShape /\ MaintenanceShape /\ SetupShape
  /\ UnbornIsFresh /\ WritesAreRuns /\ TokenNeverReturns
  /\ ClaimIsDeadOrCurrent /\ ReconcilerKnowsToken
  /\ FencedBeforeRelease /\ FreeWhenReleased /\ ClaimIsSingle
  /\ RunningRowIsJournaled

-----------------------------------------------------------------------------
(***************************************************************************)
(* What the object knows of a visit, given the fence: who may still free   *)
(* the row, who may drop the journal, and which visits may still publish.  *)
(***************************************************************************)
\* The run without a journal was over before the object watched anything, and
\* nothing is written for it.
LegacyIsOver ==
  /\ Legacy \in Runs => At(Legacy, "ended")
  /\ \A t \in RunOrNone : ~WritePending(Legacy, t)

\* As long as it holds the row no run is begun.
LegacyRowIsFirst ==
  HeldBy(Legacy) => /\ journal.kind = "none"
                    /\ trans.pc \notin {"setup", "claiming", "claimed", "refused"}

\* A reap frees its row only; a /stop that waited for the queue may free any run's
\* that was begun, but no visit's that may still publish.
VictimIsOver ==
  /\ trans.pc \in {"reapStopped", "reapStale", "reapContext"}
       => trans.victim = Legacy /\ Legacy \in Runs
  /\ trans.pc \in {"stopRead", "stopping", "stopAgain"}
       => trans.victim \in Runs /\ ~Unborn(trans.victim)
  /\ trans.pc = "stopping" /\ journal.run = trans.victim => journal.kind = "finalizing"
  /\ \A c \in late : c.op = "reap" => c.run = Legacy

\* A visit that is closing has closed its journal.
ClosingIsClosed == \A r \in Runs : At(r, "closing") => ~Active(r)

\* While an admission waits for its claim, it reconciles nothing.
ClaimIsAlone ==
  trans.pc \in {"claiming", "claimed", "refused"}
    => trans.op = "admit" /\ rec["trans"].pc = "idle"

\* As long as a /stop waits for its turn or for the row, an active journal is that
\* of the object's own visit or of the admission under way.
StopKnowsVisit ==
  (\E s \in Slots : rec[s].pc = "queued") \/ trans.pc = "stopRead" =>
    (journal.kind = "active" =>
       \/ activeRun = journal.run
       \/ trans.pc \in {"claiming", "claimed", "refused"} /\ trans.run = journal.run)

\* A journal's outcome and its pause intent are there when it is closed, never before.
JournalOutcome ==
  /\ journal.kind = "none" => journal = NoJournal
  /\ journal.kind = "active" => journal.type = "none" /\ journal.pause = 0

Closing(s) == rec[s].pc \in {"lateContext", "pause", "fence", "release", "released"}

\* A reconciler that closes the journal's run works on the journal as it is.
ReconcilerHoldsFinal ==
  \A s \in Slots : Closing(s) /\ rec[s].j.run = journal.run
                     => rec[s].j = journal /\ journal.kind = "finalizing"

\* Only a visit's own revision of the participant is ever asked to be paused.
PauseIsOfThePast == journal.pause <= bot.rev /\ \A r \in Runs : body[r].rev <= bot.rev

PauseSettled == journal.pause = 0 \/ bot.rev > journal.pause

\* A reconciler frees the journal's run after its pause; a release that was given
\* up on, a /stop's among them, is of a run that is closed.
ReleaseIsOfClosed ==
  /\ \A s \in Slots : rec[s].pc \in {"fence", "release", "released"} /\ rec[s].j.run = journal.run
                        => PauseSettled
  /\ \A c \in late : c.op = "release" =>
       /\ c.run \in Runs /\ ~Unborn(c.run)
       /\ c.run = journal.run => journal.kind = "finalizing"

\* An admission under way has neither a visit nor a pause intent yet.
AdmittingShape ==
  trans.pc \in {"claiming", "claimed", "refused"} =>
    /\ At(trans.run, "admitting")
    /\ journal.run = trans.run => journal.pause = 0

\* The object knows its visit, or has aborted it; an admission finds the slot empty.
LiveIsKnown ==
  /\ \A r \in Runs : Live(r) => activeRun = r \/ r \in aborted
  /\ trans.pc \in {"setup", "claiming", "claimed", "refused"} => activeRun = NoRun

\* A claim that was answered holds the row until its journal is closed.
ClaimedHoldsRow ==
  trans.pc = "claimed" /\ Active(trans.run) /\ ~bot.deleted => HeldBy(trans.run)

DeletedIsDisabled == bot.deleted => ~row.enabled

\* No one proposes a due time for a spotlight visit.
ProposalsAreOrdinary ==
  /\ \A c \in late : c.propose => c.run \notin Spotlight
  /\ trans.propose => trans.victim \notin Spotlight

\* The inductive invariant of a visit's life.
VisitInvariant ==
  /\ FenceInvariant
  /\ LegacyIsOver /\ LegacyRowIsFirst /\ VictimIsOver
  /\ ClosingIsClosed /\ ClaimIsAlone /\ StopKnowsVisit
  /\ JournalOutcome /\ ReconcilerHoldsFinal /\ PauseIsOfThePast /\ ReleaseIsOfClosed
  /\ AdmittingShape /\ LiveIsKnown /\ ClaimedHoldsRow /\ DeletedIsDisabled
  /\ ProposalsAreOrdinary
  /\ MaintenanceRunsAlone /\ PublishingRunHoldsRow /\ ScheduleFollowsPause

-----------------------------------------------------------------------------
(***************************************************************************)
(* The terminal events.                                                    *)
(***************************************************************************)
\* Without hung transitions a journal is closed together with its event, so
\* the paths that add one to those that are there are never taken twice.
EventsAreSingle ==
  /\ AtMostOneFinalEvent
  /\ journal.kind = "finalizing" => hasTerminalEvent(journal.run)
  /\ \A s \in Slots : rec[s].pc # "lateContext"
  /\ trans.pc = "reapContext" => ~hasTerminalEvent(trans.victim)

HangFreeEvents == limits.hangs = 0 /\ EventsAreSingle

\* Unless a history is erased, the event of a run outlives its journal.
EventsOutliveJournals ==
  /\ maint \in {NoMaint, "compact"} /\ trans.op \notin {"clear_history", "clear_storage"}
  /\ \A s \in Slots : Closing(s) /\ rec[s].pc # "lateContext" => hasTerminalEvent(rec[s].j.run)
  /\ \A r \in Runs \ {Legacy} :
       ~Unborn(r) /\ ~At(r, "refused") /\ journal.run # r => hasTerminalEvent(r)
=============================================================================
