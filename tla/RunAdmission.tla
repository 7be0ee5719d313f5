---------------------------- MODULE RunAdmission ----------------------------
(***************************************************************************)
(* One participant's visits: the BotRuntime Durable Object that admits,    *)
(* watches and closes them, and the D1 row (bot_runtime_index) that fences *)
(* them.  The object's handlers interleave at every await; D1 statements   *)
(* may fail, lose their response, or execute after the object has given up *)
(* on them; the object may be reset at any point.                          *)
(*                                                                         *)
(* Time is the two facts the code derives from it: whether the journal's   *)
(* five minutes without progress are over, and whether the row's lease is. *)
(*                                                                         *)
(* A definition under a "Mutant:" comment is a plausible mistake in the    *)
(* definition that follows it; nothing uses it but mutation runs.          *)
(***************************************************************************)
EXTENDS Naturals, FiniteSets

CONSTANTS
  Runs,        \* run ids (crypto.randomUUID), each used by one visit
  Spotlight,   \* the runs asked for by a spotlight trigger
  Legacy,      \* a run whose row was claimed before the journal existed, or NoRun
  NoRun,       \* SQL NULL, and "no run" in memory
  Callers,     \* concurrent /stop and /recover-stale-run requests
  MaintOps,    \* the maintenance operations that may be asked for
  Limits       \* bounds: what the environment may do, one of these in each behaviour

ASSUME RunsAssumption ==
  /\ NoRun \notin Runs
  /\ Legacy \in Runs \cup {NoRun}
  /\ Spotlight \subseteq Runs
  /\ Callers \cap (Runs \cup {"alarm", "trans"}) = {}
  /\ Runs \cap {"alarm", "trans"} = {}

\* visits: the runs that may be asked for; callers, maint and deletion: what else
\* may be; time: whether five minutes and leases ever pass; edits, faults (failed or abandoned calls), crashes (resets) and hangs
\* (transitions that hit their 60 second limit): how often it may happen.
Allowances ==
  [visits : SUBSET Runs, callers : SUBSET Callers, maint : SUBSET MaintOps,
   deletion : BOOLEAN, time : BOOLEAN, edits : Nat, faults : Nat, crashes : Nat, hangs : Nat]

ASSUME LimitsAssumption ==
  /\ MaintOps \subseteq {"compact", "clear_history", "clear_storage"}
  /\ Limits \subseteq Allowances

VARIABLES
  row,        \* D1: the participant's bot_runtime_index row
  bot,        \* KV: the participant document, as far as the runtime sees it
  late,       \* D1/coordinator calls in flight that nobody awaits any more
  journal,    \* DO storage: run_liveness_v1
  alarm,      \* DO storage: is an alarm set?
  stopReq,    \* DO storage: the run a stop was requested for
  terminal,   \* DO storage: number of terminal events of each run
  cleared,    \* DO storage: the tombstone of a full clear
  activeRun,  \* memory: this.activeRunId
  aborted,    \* memory: runs whose AbortController fired
  maint,      \* memory: this.activeMaintenanceOperation
  body,       \* memory: where each visit's own code is
  rec,        \* memory: where each reconcileRunJournal call is
  trans,      \* memory: the operation that holds the transition queue
  limits      \* what the environment may still do

stored == <<journal, alarm, stopReq, terminal, cleared>>
memory == <<activeRun, aborted, maint, body, rec, trans>>
vars == <<row, bot, late, stored, memory, limits>>

RunOrNone == Runs \cup {NoRun}
Slots == {"alarm", "trans"} \cup Callers \cup Runs

(***************************************************************************)
(* Values                                                                  *)
(***************************************************************************)
NoJournal == [kind |-> "none", run |-> NoRun, claim |-> NoRun,
              stale |-> FALSE, type |-> "none", pause |-> 0]

Journals == [kind : {"none", "active", "finalizing"}, run : RunOrNone,
             claim : RunOrNone, stale : BOOLEAN,
             type : {"none", "completed", "failed", "stopped"}, pause : Nat]

NoMaint == "none"
Idle == [pc |-> "idle", stop |-> FALSE, j |-> NoJournal]
Free == [op |-> "none", pc |-> "free", run |-> NoRun, expect |-> NoRun,
         victim |-> NoRun, propose |-> FALSE]

\* A D1 statement (or the pause PATCH) with the values bound when it was issued.
Call(op, run, expect, status, propose, rev) ==
  [op |-> op, run |-> run, expect |-> expect, status |-> status,
   propose |-> propose, rev |-> rev]

Calls == [op : {"claim", "fence", "release", "reap", "renew", "pause"},
          run : RunOrNone, expect : RunOrNone, status : {"idle", "failed"},
          propose : BOOLEAN, rev : Nat]

Rows == [enabled : BOOLEAN, status : {"idle", "running", "failed"},
         active : RunOrNone, lease : {"none", "live", "expired"},
         due : {"none", "owner", "run"}, token : RunOrNone]

(***************************************************************************)
(* The SQL statements.  Each is one atomic compare-and-set.                *)
(***************************************************************************)
runKeepsStandingSchedule(run) == run \in Spotlight

Running == row.status = "running"
LeaseOver == row.lease # "live"

claimGuard(c) ==
  /\ row.enabled
  /\ row.token = c.expect
  /\ ~Running \/ LeaseOver

\* Mutant: the schedule moves for every trigger.
claimMovesAnySchedule(c, lease) ==
  IF claimGuard(c)
    THEN [row EXCEPT !.status = "running", !.token = c.run, !.active = c.run,
                     !.lease = lease, !.due = "run"]
    ELSE row

claimRuntimeRun(c, lease) ==
  IF claimGuard(c)
    THEN [row EXCEPT !.status = "running", !.token = c.run, !.active = c.run,
                     !.lease = lease,
                     !.due = IF runKeepsStandingSchedule(c.run) THEN @ ELSE "run"]
    ELSE row

\* Mutant: the row is released whoever holds it.
ownsAnyRow(c) == Running

ownsRow(c) == Running /\ row.active = c.run

\* Mutant: the release forgets the pause switch.
releasedDueUnguarded(c) == IF c.propose THEN "run" ELSE row.due

\* next_due_at = CASE WHEN enabled THEN COALESCE(proposal, next_due_at) END
releasedDue(c) == IF ~row.enabled THEN "none"
                  ELSE IF c.propose THEN "run" ELSE row.due

released(c) == [row EXCEPT !.status = c.status, !.active = NoRun,
                           !.lease = "none", !.due = releasedDue(c)]

releaseRuntimeRun(c) == IF ownsRow(c) THEN released(c) ELSE row

releaseStaleRuntimeRun(c) ==
  IF ownsRow(c) /\ LeaseOver THEN released(c) ELSE row

renewRuntimeRunLease(c, lease) ==
  IF ownsRow(c) THEN [row EXCEPT !.lease = lease] ELSE row

\* Mutant: the claim token is not consumed.
keepClaimToken(c) == row

consumeClaimToken(c) ==
  IF row.token = c.expect THEN [row EXCEPT !.token = c.run] ELSE row

\* PATCH with If-Match: the owner coordinator pauses the participant only at
\* the revision the failing visit saw.
pauseBot(c) ==
  IF ~bot.deleted /\ bot.rev = c.rev
    THEN [row EXCEPT !.enabled = FALSE, !.due = "none"] ELSE row

\* A lease that arrives is live unless the five minutes it stands for are over.
Leases(run) == IF journal.run = run /\ journal.stale
                 THEN {"expired"} ELSE {"live", "expired"}

Execute(c) ==
  /\ \/ c.op = "claim"   /\ \E l \in Leases(c.run) : row' = claimRuntimeRun(c, l)
     \/ c.op = "fence"   /\ row' = consumeClaimToken(c)
     \/ c.op = "release" /\ row' = releaseRuntimeRun(c)
     \/ c.op = "reap"    /\ row' = releaseStaleRuntimeRun(c)
     \/ c.op = "renew"   /\ \E l \in Leases(c.run) : row' = renewRuntimeRunLease(c, l)
     \/ c.op = "pause"   /\ row' = pauseBot(c)
  /\ bot' = IF c.op = "pause" /\ ~bot.deleted /\ bot.rev = c.rev
              THEN [bot EXCEPT !.rev = @ + 1] ELSE bot

(***************************************************************************)
(* reconcileRunJournal.  A call runs to its first await when it starts,    *)
(* and from await to await after that; rec[s] is the await it is at and    *)
(* what it carries across it.                                              *)
(***************************************************************************)
Active(run) == journal.kind = "active" /\ journal.run = run

finish(type) == [journal EXCEPT !.kind = "finalizing", !.type = type]

\* Mutant: a hung transition's journal gets no event.
FinalizerSkipsEvent(j, events) ==
  [pc |-> IF j.pause # 0 THEN "pause" ELSE "fence", stop |-> FALSE, j |-> j]

\* Mutant: the pause intent is dropped.
FinalizerSkipsPause(j, events) ==
  [pc |-> IF events = 0 THEN "lateContext" ELSE "fence", stop |-> FALSE, j |-> j]

\* The part of a call that starts from a finalizing journal j.
Finalizer(j, events) ==
  [pc |-> IF events = 0 THEN "lateContext"
          ELSE IF j.pause # 0 THEN "pause" ELSE "fence",
   stop |-> FALSE, j |-> j]

\* Mutant: a stop does not end the visit.
OverdueByTime(stop) == journal.stale

Overdue(stop) == journal.stale \/ stop

Reconciler(stop) ==
  IF journal.kind = "none" \/ cleared THEN Idle
  ELSE IF journal.kind = "finalizing" THEN Finalizer(journal, terminal[journal.run])
  ELSE IF Overdue(stop) THEN [pc |-> "context", stop |-> stop, j |-> journal]
  ELSE Idle

\* Whether starting a call leaves an alarm set, given whether one was set.
ArmedAfter(stop, armed) ==
  IF journal.kind = "none" \/ cleared \/ (journal.kind = "active" /\ Overdue(stop))
    THEN armed ELSE TRUE

StopRequested == journal.kind = "active" /\ stopReq = journal.run

StartReconcile(s, stop, armed) ==
  /\ rec' = [rec EXCEPT ![s] = Reconciler(stop)]
  /\ alarm' = ArmedAfter(stop, armed)

hasTerminalEvent(run) == terminal[run] > 0

\* Mutant: the terminal event is not looked up first.
EveryTerminal(run) == [terminal EXCEPT ![run] = @ + 1]

FirstTerminal(run) ==
  IF hasTerminalEvent(run) THEN terminal ELSE [terminal EXCEPT ![run] = 1]

\* Mutant: the slot is emptied without firing the signal.
EmptySlot(run) ==
  /\ activeRun' = IF activeRun = run THEN NoRun ELSE activeRun
  /\ UNCHANGED aborted

\* this.activeAbortController.abort() and the emptied slot, if run is in it.
Abort(run) ==
  /\ aborted' = IF activeRun = run THEN aborted \cup {run} ELSE aborted
  /\ activeRun' = IF activeRun = run THEN NoRun ELSE activeRun

\* Mutant: the alarm is not retried.
ThrowsForGood(s) ==
  /\ rec' = [rec EXCEPT ![s] = Idle]
  /\ alarm' = alarm
  /\ trans' = IF s = "trans" THEN Free ELSE trans

\* An exception leaves the call: the alarm is retried by the platform, the
\* transition that made the call ends.
Throws(s) ==
  /\ rec' = [rec EXCEPT ![s] = Idle]
  /\ alarm' = (alarm \/ s = "alarm")
  /\ trans' = IF s = "trans" THEN Free ELSE trans

Fault == limits.faults > 0
CountFault == limits' = [limits EXCEPT !.faults = @ - 1]

\* The render context arrived: the closing transaction of an overdue run.
ContextArrives(s) ==
  LET run   == rec[s].j.run
      ended == IF rec[s].stop THEN "stopped" ELSE "failed"
      final == IF Active(run) THEN finish(ended) ELSE journal
  IN /\ rec[s].pc = "context"
     /\ ~bot.deleted
     /\ journal' = final
     /\ terminal' = FirstTerminal(run)
     /\ Abort(run)
     /\ IF journal.run = run
          THEN /\ rec' = [rec EXCEPT ![s] = Finalizer(final, 1)]
               /\ alarm' = TRUE
               /\ UNCHANGED trans
          ELSE Throws(s)    \* finish() found no journal of this run: null
     /\ UNCHANGED <<row, bot, late, stopReq, cleared, maint, body, limits>>

\* botById refuses a deleted participant, and either store may fail.
ContextFails(s) ==
  /\ rec[s].pc = "context"
  /\ \/ bot.deleted /\ UNCHANGED limits
     \/ ~bot.deleted /\ Fault /\ CountFault
  /\ Throws(s)
  /\ UNCHANGED <<row, bot, late, journal, stopReq, terminal, cleared,
                 activeRun, aborted, maint, body>>

\* A journal closed by abortHungTransition gets its terminal event here.
LateContextArrives(s) ==
  /\ rec[s].pc = "lateContext"
  /\ ~bot.deleted
  /\ terminal' = [terminal EXCEPT ![rec[s].j.run] = @ + 1]
  /\ rec' = [rec EXCEPT ![s] = Finalizer(rec[s].j, 1)]
  /\ UNCHANGED <<row, bot, late, journal, alarm, stopReq, cleared,
                 activeRun, aborted, maint, body, trans, limits>>

LateContextFails(s) ==
  /\ rec[s].pc = "lateContext"
  /\ \/ bot.deleted /\ UNCHANGED limits
     \/ ~bot.deleted /\ Fault /\ CountFault
  /\ rec' = [rec EXCEPT ![s] = Idle]
  /\ UNCHANGED <<row, bot, late, stored, activeRun, aborted, maint, body, trans>>

\* The external call a reconciler is waiting for.
\* Mutant: the row takes the journal's status.
FinalStatusRaw(j) == j.type

FinalStatus(j) == IF j.type = "failed" THEN "failed" ELSE "idle"

ReconcilerCall(s) ==
  LET j == rec[s].j
  IN IF rec[s].pc = "pause" THEN Call("pause", j.run, NoRun, "idle", FALSE, j.pause)
     ELSE IF rec[s].pc = "fence" THEN Call("fence", j.run, j.claim, "idle", FALSE, 0)
     ELSE Call("release", j.run, NoRun, FinalStatus(j), ~runKeepsStandingSchedule(j.run), 0)

AfterCall(pc) ==
  IF pc = "pause" THEN "fence" ELSE IF pc = "fence" THEN "release" ELSE "released"

\* Pause, then consume the claim token, then release.  A 404 for a deleted
\* participant is a failed pause; 412 counts as settled.
ReconcilerCallDone(s) ==
  /\ rec[s].pc \in {"pause", "fence", "release"}
  /\ Execute(ReconcilerCall(s))
  /\ rec' = [rec EXCEPT ![s] =
       IF rec[s].pc = "pause" /\ bot.deleted THEN Idle
       ELSE [rec[s] EXCEPT !.pc = AfterCall(rec[s].pc)]]
  /\ UNCHANGED <<late, stored, activeRun, aborted, maint, body, trans, limits>>

ReconcilerCallFails(s) ==
  /\ rec[s].pc \in {"pause", "fence", "release"}
  /\ Fault /\ CountFault
  /\ late' = late \cup {ReconcilerCall(s)}
  /\ rec' = [rec EXCEPT ![s] = Idle]
  /\ UNCHANGED <<row, bot, stored, activeRun, aborted, maint, body, trans>>

\* Mutant: the journal is dropped whichever run it is of.
SettlesAnyJournal(s) ==
  /\ rec[s].pc = "released"
  /\ journal' = NoJournal
  /\ stopReq' = NoRun
  /\ alarm' = FALSE
  /\ rec' = [rec EXCEPT ![s] = Idle]
  /\ UNCHANGED <<row, bot, late, terminal, cleared,
                 activeRun, aborted, maint, body, trans, limits>>

\* The release was answered: the journal has done its work.
ReleaseSettles(s) ==
  LET run == rec[s].j.run
  IN /\ rec[s].pc = "released"
     /\ journal' = IF journal.run = run THEN NoJournal ELSE journal
     /\ stopReq' = IF stopReq = run THEN NoRun ELSE stopReq
     /\ alarm' = (alarm /\ journal'.kind # "none")
     /\ rec' = [rec EXCEPT ![s] = Idle]
     /\ UNCHANGED <<row, bot, late, terminal, cleared,
                    activeRun, aborted, maint, body, trans, limits>>

AlarmFires ==
  /\ alarm
  /\ rec["alarm"].pc = "idle"
  /\ StartReconcile("alarm", StopRequested, FALSE)
  /\ UNCHANGED <<row, bot, late, journal, stopReq, terminal, cleared,
                 activeRun, aborted, maint, body, trans, limits>>

(***************************************************************************)
(* Time.                                                                   *)
(***************************************************************************)
\* Five minutes since the last progress; the lease is never longer.
InactivityElapses ==
  /\ limits.time /\ journal.kind = "active"
  /\ ~journal.stale
  /\ journal' = [journal EXCEPT !.stale = TRUE]
  /\ row' = IF row.active = journal.run THEN [row EXCEPT !.lease = "expired"] ELSE row
  /\ UNCHANGED <<bot, late, alarm, stopReq, terminal, cleared, memory, limits>>

LeaseElapses ==
  /\ limits.time /\ row.lease = "live"
  /\ row' = [row EXCEPT !.lease = "expired"]
  /\ UNCHANGED <<bot, late, stored, memory, limits>>

(***************************************************************************)
(* The visit's own code (runAdmittedTick).                                 *)
(***************************************************************************)
\* finalizeRun, up to the first await of the reconciliation it ends with.
FinalizeRun(s, run, type, pause) ==
  IF ~Active(run)
    THEN UNCHANGED <<journal, terminal, alarm, rec, activeRun, aborted>>
    ELSE /\ journal' = [finish(type) EXCEPT !.pause = pause]
         /\ terminal' = FirstTerminal(run)
         /\ aborted' = IF activeRun = run /\ type # "completed"
                         THEN aborted \cup {run} ELSE aborted
         /\ activeRun' = IF activeRun = run THEN NoRun ELSE activeRun
         /\ alarm' = TRUE
         /\ rec' = [rec EXCEPT ![s] = Finalizer(journal', 1)]

At(r, pc) == body[r].pc = pc
Goto(r, pc) == body' = [body EXCEPT ![r].pc = pc]
\* Mutant: the persisted stop request is not read.
StoppedBySignal(r) == r \in aborted

Stopped(r) == r \in aborted \/ stopReq = r

RenewCall(r) == Call("renew", r, NoRun, "idle", FALSE, 0)

\* The visit reads its first render context.
BodyStarts(r) ==
  /\ At(r, "starting")
  /\ Goto(r, "working")
  /\ UNCHANGED <<row, bot, late, stored, activeRun, aborted, maint, rec, trans, limits>>

\* That read is outside the visit's try block: if it fails, nothing closes the
\* journal or empties the slot, and only the watchdog will.
BodyNeverStarts(r) ==
  /\ At(r, "starting")
  /\ Fault /\ CountFault
  /\ Goto(r, "ended")
  /\ UNCHANGED <<row, bot, late, stored, activeRun, aborted, maint, rec, trans>>

\* Any progress event of a visit that may still publish.
BodyProgresses(r) ==
  /\ At(r, "working")
  /\ r \notin aborted
  /\ Active(r) /\ journal.stale
  /\ journal' = [journal EXCEPT !.stale = FALSE]
  /\ UNCHANGED <<row, bot, late, alarm, stopReq, terminal, cleared, memory, limits>>

BodyRenews(r) ==
  /\ At(r, "working")
  /\ ~Stopped(r)
  /\ Goto(r, IF activeRun = r THEN "renewing" ELSE "renewed")
  /\ UNCHANGED <<row, bot, late, stored, activeRun, aborted, maint, rec, trans, limits>>

RenewDone(r) ==
  /\ At(r, "renewing")
  /\ r \notin aborted
  /\ Execute(RenewCall(r))
  /\ Goto(r, IF ownsRow(RenewCall(r)) THEN "renewed" ELSE "denied")
  /\ UNCHANGED <<late, stored, activeRun, aborted, maint, rec, trans, limits>>

RenewFails(r) ==
  /\ At(r, "renewing")
  /\ r \notin aborted
  /\ Fault /\ CountFault
  /\ late' = late \cup {RenewCall(r)}
  /\ FinalizeRun(r, r, "failed", 0)
  /\ Goto(r, "closing")
  /\ UNCHANGED <<row, bot, stopReq, cleared, maint, trans>>

BodyContinues(r) ==
  /\ At(r, "renewed")
  /\ ~Stopped(r)
  /\ Goto(r, "working")
  /\ UNCHANGED <<row, bot, late, stored, activeRun, aborted, maint, rec, trans, limits>>

BodyCompletes(r) ==
  /\ At(r, "renewed")
  /\ ~Stopped(r)
  /\ FinalizeRun(r, r, "completed", 0)
  /\ Goto(r, "closing")
  /\ UNCHANGED <<row, bot, late, stopReq, cleared, maint, trans, limits>>

\* An error; a persistent compaction failure also asks for a pause.
BodyFails(r) ==
  /\ At(r, "working")
  /\ r \notin aborted
  /\ \E pause \in {0, body[r].rev} : FinalizeRun(r, r, "failed", pause)
  /\ Goto(r, "closing")
  /\ UNCHANGED <<row, bot, late, stopReq, cleared, maint, trans, limits>>

\* throwIfStopped, the fired AbortSignal, or a renewal that lost the row.
BodyStops(r) ==
  /\ \/ At(r, "denied")
     \/ At(r, "renewing") /\ r \in aborted
     \/ (At(r, "working") \/ At(r, "renewed")) /\ Stopped(r)
  /\ late' = IF At(r, "renewing") THEN late \cup {RenewCall(r)} ELSE late
  /\ FinalizeRun(r, r, "stopped", 0)
  /\ Goto(r, "closing")
  /\ UNCHANGED <<row, bot, stopReq, cleared, maint, trans, limits>>

\* The finally block, after finalizeRun's reconciliation returned.
BodyEnds(r) ==
  /\ At(r, "closing")
  /\ rec[r].pc = "idle"
  /\ activeRun' = IF activeRun = r THEN NoRun ELSE activeRun
  /\ stopReq' = IF stopReq = r THEN NoRun ELSE stopReq
  /\ Goto(r, "ended")
  /\ UNCHANGED <<row, bot, late, journal, alarm, terminal, cleared,
                 aborted, maint, rec, trans, limits>>

(***************************************************************************)
(* The transition queue: admission, stale-run recovery, maintenance and    *)
(* stop-without-a-journal exclude each other.                              *)
(***************************************************************************)
QueueFree == trans.op = "none"
Step(pc) == trans' = [trans EXCEPT !.pc = pc]
InTrans(pc) == trans.pc = pc /\ rec["trans"].pc = "idle"
Requeue == UNCHANGED <<row, bot, late, body, limits>>

\* locallyBusyAdmission, asked again inside the queue.
LocallyBusy ==
  \/ journal.kind = "active" /\ ~Overdue(stopReq = journal.run)
  \/ maint # NoMaint
  \/ journal.kind = "none" /\ activeRun # NoRun

AdmitTick(r) ==
  /\ r \in limits.visits
  /\ QueueFree /\ At(r, "unborn")
  /\ ~cleared /\ ~LocallyBusy
  /\ trans' = [Free EXCEPT !.op = "admit", !.pc = "reap", !.run = r]
  /\ StartReconcile("trans", StopRequested, alarm)
  /\ UNCHANGED <<row, bot, late, journal, stopReq, terminal, cleared,
                 activeRun, aborted, maint, body, limits>>

\* The sweep posts /recover-stale-run for a running row whose lease is over.  (The
\* row of a cleared object is idle, its participant being deleted: the branch for
\* cleared storage finds nothing to release.)
RecoverStaleRun ==
  /\ QueueFree /\ journal.kind = "none"
  /\ Running /\ LeaseOver
  /\ trans' = [Free EXCEPT !.op = "recover", !.pc = "reap"]
  /\ UNCHANGED <<row, bot, late, stored, activeRun, aborted, maint, body, rec, limits>>

BeginMaintenance(op) ==
  /\ op \in limits.maint /\ QueueFree
  /\ IF op = "clear_storage" THEN bot.deleted ELSE ~cleared
  /\ activeRun = NoRun /\ maint = NoMaint /\ journal.kind = "none"
  /\ trans' = [Free EXCEPT !.op = op, !.pc = "reap"]
  /\ UNCHANGED <<row, bot, late, stored, activeRun, aborted, maint, body, rec, limits>>

\* Mutant: a row whose lease is over is not reaped.
ReapsOnlyStopped ==
  /\ InTrans("reap")
  /\ IF journal.kind # "none"
       THEN /\ Step("reaped")
            /\ StartReconcile("trans", StopRequested, alarm)
       ELSE /\ trans' = [trans EXCEPT
                 !.victim = row.active,
                 !.propose = row.enabled /\ ~runKeepsStandingSchedule(row.active),
                 !.pc = IF Running /\ row.active \in Runs /\ stopReq = row.active
                           /\ activeRun # row.active
                          THEN "reapStopped" ELSE "reaped"]
            /\ UNCHANGED <<rec, alarm>>
  /\ UNCHANGED <<journal, stopReq, terminal, cleared, activeRun, aborted, maint>>
  /\ Requeue

\* reapStaleRun: an existing journal is reconciled, otherwise the row decides.
ReapStaleRun ==
  /\ InTrans("reap")
  /\ IF journal.kind # "none"
       THEN /\ Step("reaped")
            /\ StartReconcile("trans", StopRequested, alarm)
       ELSE /\ trans' = [trans EXCEPT
                 !.victim = row.active,
                 !.propose = row.enabled /\ ~runKeepsStandingSchedule(row.active),
                 !.pc = IF ~Running THEN "reaped"
                        ELSE IF row.active \in Runs /\ stopReq = row.active
                                /\ activeRun # row.active THEN "reapStopped"
                        ELSE IF LeaseOver THEN "reapStale" ELSE "reaped"]
            /\ UNCHANGED <<rec, alarm>>
  /\ UNCHANGED <<journal, stopReq, terminal, cleared, activeRun, aborted, maint>>
  /\ Requeue

\* The D1 statement the transition is waiting for.
TransCall ==
  IF trans.pc = "claiming" THEN Call("claim", trans.run, trans.expect, "idle", FALSE, 0)
  ELSE Call(IF trans.pc = "reapStale" THEN "reap" ELSE "release",
            trans.victim, NoRun, "idle", trans.propose, 0)

AbortReaped(run) ==
  IF run \in Runs /\ activeRun = run /\ run \notin aborted
    THEN aborted' = aborted \cup {run} /\ stopReq' = run
    ELSE UNCHANGED <<aborted, stopReq>>

\* The winner of the D1 transition writes the local record.
ReapStoppedDone ==
  /\ InTrans("reapStopped")
  /\ Execute(TransCall)
  /\ IF ownsRow(TransCall)
       THEN /\ terminal' = FirstTerminal(trans.victim)
            /\ stopReq' = IF stopReq = trans.victim THEN NoRun ELSE stopReq
       ELSE UNCHANGED <<terminal, stopReq>>
  /\ Step("reaped")
  /\ UNCHANGED <<late, journal, alarm, cleared, activeRun, aborted, maint, body, rec, limits>>

ReapStaleDone ==
  /\ InTrans("reapStale")
  /\ Execute(TransCall)
  /\ IF ownsRow(TransCall) /\ LeaseOver
       THEN IF trans.victim \in Runs /\ ~hasTerminalEvent(trans.victim)
              THEN Step("reapContext") /\ UNCHANGED <<aborted, stopReq>>
              ELSE Step("reaped") /\ AbortReaped(trans.victim)
       ELSE Step("reaped") /\ UNCHANGED <<aborted, stopReq>>
  /\ UNCHANGED <<late, journal, alarm, terminal, cleared, activeRun, maint, body, rec, limits>>

ReapContextArrives ==
  /\ InTrans("reapContext")
  /\ ~bot.deleted
  /\ terminal' = [terminal EXCEPT ![trans.victim] = @ + 1]
  /\ AbortReaped(trans.victim)
  /\ Step("reaped")
  /\ UNCHANGED <<journal, alarm, cleared, activeRun, maint, rec>>
  /\ Requeue

\* readStatus, and the refusals that follow it; otherwise the setup reads.
AdmissionChecks ==
  /\ trans.op = "admit" /\ InTrans("reaped")
  /\ IF activeRun # NoRun \/ maint # NoMaint \/ journal.kind # "none"
        \/ Running \/ ~row.enabled
       THEN trans' = Free ELSE Step("setup")
  /\ UNCHANGED <<stored, activeRun, aborted, maint, rec>>
  /\ Requeue

\* The row's token is read, the journal begun and its alarm armed, and the
\* claim issued.
BeginRun ==
  LET r == trans.run
  IN /\ InTrans("setup")
     /\ ~bot.deleted
     /\ journal' = [NoJournal EXCEPT !.kind = "active", !.run = r, !.claim = row.token]
     /\ alarm' = TRUE
     /\ trans' = [trans EXCEPT !.pc = "claiming", !.expect = row.token]
     /\ body' = [body EXCEPT ![r] = [pc |-> "admitting", rev |-> bot.rev]]
     /\ UNCHANGED <<row, bot, late, stopReq, terminal, cleared,
                    activeRun, aborted, maint, rec, limits>>

ClaimDone ==
  /\ InTrans("claiming")
  /\ Execute(TransCall)
  /\ Step(IF claimGuard(TransCall) THEN "claimed" ELSE "refused")
  /\ UNCHANGED <<late, stored, activeRun, aborted, maint, body, rec, limits>>

\* The claim's outcome is unknown: the run is closed as failed.
ClaimFails ==
  /\ InTrans("claiming")
  /\ Fault /\ CountFault
  /\ late' = late \cup {TransCall}
  /\ FinalizeRun("trans", trans.run, "failed", 0)
  /\ Goto(trans.run, "ended")
  /\ Step("done")
  /\ UNCHANGED <<row, bot, stopReq, cleared, maint>>

ClaimRefused ==
  /\ InTrans("refused")
  /\ journal' = IF journal.run = trans.run THEN NoJournal ELSE journal
  /\ Goto(trans.run, "refused")
  /\ trans' = Free
  /\ UNCHANGED <<row, bot, late, alarm, stopReq, terminal, cleared,
                 activeRun, aborted, maint, rec, limits>>

\* The visit starts, unless its journal was closed while the claim ran.
Admitted ==
  /\ InTrans("claimed")
  /\ IF Active(trans.run)
       THEN /\ activeRun' = trans.run
            /\ stopReq' = NoRun
            /\ Goto(trans.run, "starting")
       ELSE /\ Goto(trans.run, "ended")
            /\ UNCHANGED <<activeRun, stopReq>>
  /\ trans' = Free
  /\ UNCHANGED <<row, bot, late, journal, alarm, terminal, cleared,
                 aborted, maint, rec, limits>>

\* The remaining way out of the queue: nothing is left to do.
TransEnds ==
  /\ InTrans("done") \/ (trans.op = "recover" /\ InTrans("reaped"))
  /\ trans' = Free
  /\ UNCHANGED <<stored, activeRun, aborted, maint, rec>>
  /\ Requeue

\* Mutant: the row is not read again after the reap.
MaintenanceUnchecked ==
  /\ trans.op \in MaintOps /\ InTrans("reaped")
  /\ maint' = IF activeRun # NoRun \/ maint # NoMaint \/ journal.kind # "none"
               THEN maint ELSE trans.op
  /\ trans' = Free
  /\ UNCHANGED <<stored, activeRun, aborted, rec>>
  /\ Requeue

MaintenanceChecks ==
  /\ trans.op \in MaintOps /\ InTrans("reaped")
  /\ maint' = IF Running \/ activeRun # NoRun \/ maint # NoMaint \/ journal.kind # "none"
               THEN maint ELSE trans.op
  /\ trans' = Free
  /\ UNCHANGED <<stored, activeRun, aborted, rec>>
  /\ Requeue

\* A read or a statement of the transition fails and its exception leaves.
TransFails ==
  /\ \E pc \in {"reap", "reapStopped", "reapStale", "reapContext", "reaped",
                "setup", "stopRead", "stopping", "stopAgain"} : InTrans(pc)
  /\ \/ bot.deleted /\ trans.pc \in {"reapContext", "setup"} /\ UNCHANGED limits
     \/ Fault /\ CountFault
  /\ late' = IF trans.pc \in {"reapStopped", "reapStale", "stopping"}
               THEN late \cup {TransCall} ELSE late
  /\ trans' = Free
  /\ UNCHANGED <<row, bot, stored, activeRun, aborted, maint, body, rec>>

\* Maintenance runs outside the queue, holding activeMaintenanceOperation.
MaintenanceDone ==
  /\ maint # NoMaint
  /\ IF maint = "compact" THEN UNCHANGED stored
     ELSE /\ journal' = NoJournal
          /\ stopReq' = NoRun
          /\ terminal' = [r \in Runs |-> 0]
          /\ cleared' = (cleared \/ maint = "clear_storage")
          /\ UNCHANGED alarm
  /\ maint' = NoMaint
  /\ UNCHANGED <<row, bot, late, activeRun, aborted, body, rec, trans, limits>>

\* The erase-history acknowledgement fails before anything is erased.
MaintenanceFails ==
  /\ maint = "clear_history"
  /\ Fault /\ CountFault
  /\ maint' = NoMaint
  /\ UNCHANGED <<row, bot, late, stored, activeRun, aborted, body, rec, trans>>

(***************************************************************************)
(* /stop and /recover-stale-run, which act at once while there is a        *)
(* journal and otherwise wait for the queue.  Once in the queue /stop goes *)
(* by the row alone: by then an admission may have begun a journal.        *)
(***************************************************************************)
StopTick(c) ==
  /\ c \in limits.callers /\ rec[c].pc = "idle"
  /\ journal.kind = "active"
  /\ stopReq' = journal.run
  /\ StartReconcile(c, TRUE, alarm)
  /\ UNCHANGED <<row, bot, late, journal, terminal, cleared,
                 activeRun, aborted, maint, body, trans, limits>>

RecoverJournal(c) ==
  /\ c \in limits.callers /\ rec[c].pc = "idle"
  /\ journal.kind # "none"
  /\ StartReconcile(c, StopRequested, alarm)
  /\ UNCHANGED <<row, bot, late, journal, stopReq, terminal, cleared,
                 activeRun, aborted, maint, body, trans, limits>>

\* No journal: /stop takes its place in the queue.
StopQueues(c) ==
  /\ c \in limits.callers /\ rec[c].pc = "idle"
  /\ journal.kind = "none" /\ ~QueueFree
  /\ rec' = [rec EXCEPT ![c] = [Idle EXCEPT !.pc = "queued"]]
  /\ UNCHANGED <<row, bot, late, stored, activeRun, aborted, maint, body, trans, limits>>

\* Its turn, at once if the queue was free: it reads the row.
StopReadsRow(c) ==
  /\ QueueFree /\ Running
  /\ \/ rec[c].pc = "queued"
     \/ c \in limits.callers /\ rec[c].pc = "idle" /\ journal.kind = "none"
  /\ rec' = [rec EXCEPT ![c] = Idle]
  /\ trans' = [Free EXCEPT !.op = "stop", !.pc = "stopRead", !.victim = row.active,
                           !.propose = ~runKeepsStandingSchedule(row.active)]
  /\ UNCHANGED <<stored, activeRun, aborted, maint>>
  /\ Requeue

\* Nothing runs any more when it is its turn.
StopFindsNothing(c) ==
  /\ rec[c].pc = "queued" /\ QueueFree /\ ~Running
  /\ rec' = [rec EXCEPT ![c] = Idle]
  /\ UNCHANGED <<row, bot, late, stored, activeRun, aborted, maint, body, trans, limits>>

\* The row arrives: the object's own visit is signalled; any other run is
\* released by its id, after the participant has been read.  Nothing is looked at
\* between that read and the release, so the two waits are one.
StopDecides ==
  /\ InTrans("stopRead")
  /\ IF activeRun = trans.victim
       THEN /\ stopReq' = trans.victim
            /\ aborted' = aborted \cup {trans.victim}
            /\ trans' = Free
       ELSE /\ IF bot.deleted THEN trans' = Free ELSE Step("stopping")
            /\ UNCHANGED <<stopReq, aborted>>
  /\ UNCHANGED <<journal, alarm, terminal, cleared, activeRun, maint, rec>>
  /\ Requeue

\* The run that is released gets its final event; if it was not held any more
\* and has none, the row is read again.
MarkRunStopped ==
  /\ InTrans("stopping")
  /\ Execute(TransCall)
  /\ IF ownsRow(TransCall)
       THEN /\ terminal' = FirstTerminal(trans.victim)
            /\ stopReq' = NoRun
       ELSE UNCHANGED <<terminal, stopReq>>
  /\ IF ownsRow(TransCall) \/ hasTerminalEvent(trans.victim)
       THEN trans' = Free ELSE Step("stopAgain")
  /\ UNCHANGED <<late, journal, alarm, cleared, activeRun, aborted, maint, body, rec, limits>>

StopReadsAgain ==
  /\ InTrans("stopAgain")
  /\ stopReq' = IF Running /\ row.active = trans.victim THEN trans.victim ELSE stopReq
  /\ trans' = Free
  /\ UNCHANGED <<journal, alarm, terminal, cleared, activeRun, aborted, maint, rec>>
  /\ Requeue

(***************************************************************************)
(* The owner, through the owner coordinator.                               *)
(***************************************************************************)
Edit(r, deleted) ==
  /\ limits.edits > 0 /\ ~bot.deleted
  /\ limits' = [limits EXCEPT !.edits = @ - 1]
  /\ row' = r
  /\ bot' = [rev |-> bot.rev + 1, deleted |-> deleted]
  /\ UNCHANGED <<late, stored, memory>>

OwnerPauses == row.enabled /\ Edit([row EXCEPT !.enabled = FALSE, !.due = "none"], FALSE)

\* scheduleIfMissing: an existing schedule is kept.
OwnerResumes ==
  ~row.enabled /\ Edit([row EXCEPT !.enabled = TRUE,
                                  !.due = IF @ = "none" THEN "owner" ELSE @], FALSE)

OwnerReschedules == row.enabled /\ Edit([row EXCEPT !.due = "owner"], FALSE)

\* disableBotRuntime: the claim token stays.
OwnerDeletes ==
  limits.deletion /\ Edit([row EXCEPT !.enabled = FALSE, !.status = "idle", !.active = NoRun,
                   !.lease = "none", !.due = "none"], TRUE)

(***************************************************************************)
(* Faults.                                                                 *)
(***************************************************************************)
\* A statement that was given up on executes after all.
LateCall ==
  \E c \in late :
    /\ Execute(c)
    /\ late' = late \ {c}
    /\ UNCHANGED <<stored, memory, limits>>

InFlight ==
  {ReconcilerCall(s) : s \in {t \in Slots : rec[t].pc \in {"pause", "fence", "release"}}}
  \cup {RenewCall(r) : r \in {q \in Runs : At(q, "renewing")}}
  \cup (IF trans.pc \in {"claiming", "reapStopped", "reapStale", "stopping"}
          THEN {TransCall} ELSE {})

\* The instance is gone; the next one's constructor arms the alarm again.
Reset ==
  /\ late' = late \cup InFlight
  /\ activeRun' = NoRun
  /\ aborted' = {}
  /\ maint' = NoMaint
  /\ body' = [r \in Runs |-> IF At(r, "unborn") \/ At(r, "refused")
                              THEN body[r] ELSE [body[r] EXCEPT !.pc = "ended"]]
  /\ rec' = [s \in Slots |-> Idle]
  /\ trans' = Free
  /\ UNCHANGED <<row, bot, stopReq, terminal, cleared>>

\* Mutant: the constructor arms no alarm.
CrashUnarmed ==
  /\ limits.crashes > 0
  /\ limits' = [limits EXCEPT !.crashes = @ - 1]
  /\ UNCHANGED <<journal, alarm>>
  /\ Reset

Crash ==
  /\ limits.crashes > 0
  /\ limits' = [limits EXCEPT !.crashes = @ - 1]
  /\ UNCHANGED journal
  /\ alarm' = (alarm \/ journal.kind # "none")
  /\ Reset

\* abortHungTransition: the journal is closed without its terminal event.
AbortHungTransition ==
  /\ ~QueueFree
  /\ limits.hangs > 0
  /\ limits' = [limits EXCEPT !.hangs = @ - 1]
  /\ journal' = IF journal.kind = "active" THEN finish("failed") ELSE journal
  /\ alarm' = TRUE
  /\ Reset

(***************************************************************************)
(* The specification.                                                      *)
(***************************************************************************)
\* The row is idle, or held by the legacy run, which may have been asked to stop.
Init ==
  /\ limits \in Limits
  /\ \E enabled \in BOOLEAN, legacy \in {FALSE, (Legacy \in limits.visits)} :
       /\ row = [enabled |-> enabled,
                 status  |-> IF legacy THEN "running" ELSE "idle",
                 active  |-> IF legacy THEN Legacy ELSE NoRun,
                 lease   |-> IF legacy THEN "live" ELSE "none",
                 due     |-> IF enabled THEN "owner" ELSE "none",
                 token   |-> NoRun]
       /\ stopReq \in {NoRun, row.active}
  /\ bot = [rev |-> 1, deleted |-> FALSE]
  /\ late = {}
  /\ journal = NoJournal
  /\ alarm = FALSE
  /\ terminal = [r \in Runs |-> 0]
  /\ cleared = FALSE
  /\ activeRun = NoRun
  /\ aborted = {}
  /\ maint = NoMaint
  /\ body = [r \in Runs |-> [pc |-> IF r = Legacy THEN "ended" ELSE "unborn", rev |-> 0]]
  /\ rec = [s \in Slots |-> Idle]
  /\ trans = Free

Reconcile(s) ==
  \/ ContextArrives(s)     \/ ContextFails(s)
  \/ LateContextArrives(s) \/ LateContextFails(s)
  \/ ReconcilerCallDone(s) \/ ReconcilerCallFails(s)
  \/ ReleaseSettles(s)

Visit(r) ==
  \/ BodyStarts(r)     \/ BodyNeverStarts(r)
  \/ BodyProgresses(r) \/ BodyRenews(r)    \/ RenewDone(r)  \/ RenewFails(r)
  \/ BodyContinues(r)  \/ BodyCompletes(r) \/ BodyFails(r)  \/ BodyStops(r)
  \/ BodyEnds(r)

Transition ==
  \/ RecoverStaleRun \/ StopDecides \/ StopReadsAgain
  \/ ReapStaleRun    \/ ReapStoppedDone \/ ReapStaleDone \/ ReapContextArrives
  \/ AdmissionChecks \/ BeginRun \/ ClaimDone \/ ClaimFails \/ ClaimRefused
  \/ Admitted        \/ MaintenanceChecks \/ MarkRunStopped
  \/ TransEnds       \/ TransFails
  \/ MaintenanceDone \/ MaintenanceFails

Request(c) ==
  \/ StopTick(c) \/ RecoverJournal(c)
  \/ StopQueues(c) \/ StopReadsRow(c) \/ StopFindsNothing(c)

Owner == OwnerPauses \/ OwnerResumes \/ OwnerReschedules \/ OwnerDeletes

Next ==
  \/ \E r \in Runs : AdmitTick(r) \/ Visit(r)
  \/ \E op \in MaintOps : BeginMaintenance(op)
  \/ \E c \in Callers : Request(c)
  \/ \E s \in Slots : Reconcile(s)
  \/ Transition
  \/ AlarmFires \/ InactivityElapses \/ LeaseElapses
  \/ Owner
  \/ LateCall \/ Crash \/ AbortHungTransition

Spec == Init /\ [][Next]_vars

Bots == [rev : Nat, deleted : BOOLEAN]

Bodies == [pc : {"unborn", "admitting", "refused", "starting", "working", "renewing",
                 "renewed", "denied", "closing", "ended"}, rev : Nat]

Reconcilers == [pc : {"idle", "queued", "context", "lateContext", "pause", "fence",
                      "release", "released"}, stop : BOOLEAN, j : Journals]

Transitions ==
  [op : {"none", "admit", "recover", "stop"} \cup MaintOps,
   pc : {"free", "reap", "reaped", "reapStopped", "reapStale", "reapContext",
         "setup", "claiming", "claimed", "refused", "done", "stopRead", "stopping",
         "stopAgain"},
   run : RunOrNone, expect : RunOrNone, victim : RunOrNone, propose : BOOLEAN]

TypeOK ==
  /\ row \in Rows
  /\ bot \in Bots
  /\ late \subseteq Calls
  /\ journal \in Journals
  /\ alarm \in BOOLEAN
  /\ stopReq \in RunOrNone
  /\ terminal \in [Runs -> Nat]
  /\ cleared \in BOOLEAN
  /\ activeRun \in RunOrNone
  /\ aborted \subseteq RunOrNone
  /\ maint \in MaintOps \cup {NoMaint}
  /\ body \in [Runs -> Bodies]
  /\ rec \in [Slots -> Reconcilers]
  /\ trans \in Transitions
  /\ limits \in Allowances

-----------------------------------------------------------------------------
(***************************************************************************)
(* Invariants.                                                             *)
(***************************************************************************)
Live(r) == At(r, "starting") \/ At(r, "working") \/ At(r, "renewing") \/ At(r, "renewed")

\* A row claimed by a run always has that run's journal behind it, so the
\* object can release it.  A claim that executed after its journal was settled
\* would break this (the admission_token fence of reconcileRunJournal).
RunningRowIsJournaled ==
  Running /\ row.active # Legacy => journal.run = row.active

\* While a visit may publish, the D1 row is its own: no late release, reap or
\* claim of another run takes the row from under it.  Deletion may.
PublishingRunHoldsRow ==
  \A r \in Runs : Live(r) /\ Active(r) /\ ~bot.deleted => Running /\ row.active = r

\* Two visits never run side by side: a visit whose journal was closed by
\* another handler has been aborted before a successor is admitted.
OneLiveVisit ==
  \A r, q \in Runs : Live(r) /\ Live(q) /\ {r, q} \cap aborted = {} => r = q

\* The terminal record of a run is written at most once, however many
\* reconcilers, stops and the visit itself race to close it.
AtMostOneFinalEvent == \A r \in Runs : terminal[r] <= 1

\* Once a run that was begun and not refused has no journal any more, its
\* terminal event exists: it is never settled without saying how it ended,
\* unless its owner may have the history erased.
SettledRunHasFinalEvent ==
  limits.maint \subseteq {"compact"} => \A r \in Runs \ {Legacy} :
    ~At(r, "unborn") /\ ~At(r, "admitting") /\ ~At(r, "refused") /\ journal.run # r
      => terminal[r] > 0

\* The schedule and the pause switch agree whatever the order of claims,
\* releases, reaps, pauses and resumes: an enabled participant is never
\* stranded without a due time, a paused one never has one.
ScheduleFollowsPause == row.enabled <=> row.due # "none"

\* A compaction or an erasure never runs beside a visit: whoever held the row,
\* the journal or the object's memory when it was asked for is gone.
MaintenanceRunsAlone ==
  maint # NoMaint => /\ ~Running /\ journal.kind = "none" /\ activeRun = NoRun
                     /\ \A r \in Runs : Live(r) => r \in aborted

(***************************************************************************)
(* Action properties.                                                      *)
(***************************************************************************)
\* A visit asked to stop is never recorded as completed, wherever in its last
\* renewal it was when the request came in.
StoppedRunIsNotCompleted ==
  [][\A r \in Runs :
       Active(r) /\ stopReq = r /\ journal'.run = r => journal'.type # "completed"]_vars

\* A spotlight visit never moves the participant's own schedule: not when it
\* claims, not when it is released, reaped or stopped.
SpotlightKeepsSchedule ==
  [][row' # row /\ {row.active, row'.active} \cap Spotlight # {} /\ row'.due = "run"
       => row.due = "run"]_vars

\* A pause intent is settled (the revision moved on) before the journal that
\* holds it is dropped or replaced: whoever frees the row meanwhile, no successor
\* is admitted at the participant's old revision.
PausePrecedesSuccessor ==
  [][journal.pause # 0 /\ ~bot'.deleted /\ journal'.run # journal.run
       => bot.rev > journal.pause]_vars

\* Only its own run's reconcilers drop a journal, and only when D1 has nothing
\* of that run left: the row is free of it and its claim can no longer execute.
SettledMeansReleased ==
  [][journal.run \in Runs /\ journal'.run # journal.run
       => /\ row.active # journal.run
          /\ \A c \in late : c.op = "claim" /\ c.run = journal.run => row.token # c.expect]_vars

(***************************************************************************)
(* Liveness.  The object's own steps, the platform's alarm, the passing of *)
(* time and the sweeps are fair; visits, owners and late calls are not: a  *)
(* visit may hang in a call for good.  The alarm of an active journal is   *)
(* set for the end of its five minutes, so it fires only where time passes;*)
(* that of a closed one is at most 30 seconds away.                        *)
(* The sweeps' requests wait in the object's FIFO transition queue, so they *)
(* get their turn between any number of others: strong fairness.           *)
(***************************************************************************)
ReconcileRuns(s) ==
  \/ ContextArrives(s) \/ LateContextArrives(s) \/ ContextFails(s) \/ LateContextFails(s)
  \/ ReconcilerCallDone(s) \/ ReleaseSettles(s)

TransitionRuns ==
  \/ ReapStaleRun \/ ReapStoppedDone \/ ReapStaleDone \/ ReapContextArrives
  \/ AdmissionChecks \/ BeginRun \/ ClaimDone \/ ClaimRefused \/ Admitted
  \/ MaintenanceChecks \/ StopDecides \/ MarkRunStopped \/ StopReadsAgain
  \/ TransEnds \/ TransFails \/ MaintenanceDone

AlarmIsNear == journal.kind # "active" \/ limits.time

Fairness ==
  /\ WF_vars(AlarmIsNear /\ AlarmFires)
  /\ WF_vars(TransitionRuns) /\ SF_vars(journal.kind = "none" /\ RecoverStaleRun)
  /\ \A op \in MaintOps : SF_vars(BeginMaintenance(op))
  /\ \A s \in Slots : WF_vars(ReconcileRuns(s))
  /\ WF_vars(InactivityElapses) /\ WF_vars(LeaseElapses)

FairSpec == Spec /\ Fairness

\* A run whose visit is gone (a crash, a failed claim, a closed one) loses its
\* hold on the row, through its journal or through the stale-run sweep.
AbandonedRowIsReleased ==
  \A r \in Runs :
    (limits.time /\ Running /\ row.active = r /\ At(r, "ended")) ~> row.active # r

\* Its journal is settled as well, so that the next visit is admitted.
AbandonedJournalSettles ==
  \A r \in Runs : (limits.time /\ journal.run = r /\ At(r, "ended")) ~> journal.run # r

\* Nothing is left that can make a call of the object fail.
Undisturbed ==
  ~limits.deletion /\ limits.faults = 0 /\ limits.crashes = 0 /\ limits.hangs = 0

\* A stop of a visit is carried out even if the visit hangs: at once, without
\* any limit of time, while /stop's own reconciliation goes on; and if a failed
\* read or a reset ends that one, within the five minutes of the alarm.
StopIsCarriedOut ==
  \A r \in Runs :
    \/ limits.time /\ ~limits.deletion /\ stopReq = r /\ activeRun = r
    \/ Undisturbed /\ \E c \in Callers : rec[c].pc = "context" /\ rec[c].stop /\ rec[c].j.run = r
    ~> journal.run # r

(***************************************************************************)
(* What the repository says of these races, and the code does not do.      *)
(***************************************************************************)
\* lifecycle/bot.ts: if the clear of a deleted participant's storage is refused,
\* "the daily retention sweep finishes the job".
DeletedParticipantIsCleared == bot.deleted ~> cleared
=============================================================================
