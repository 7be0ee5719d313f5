------------------------- MODULE SpotlightDelivery -------------------------
(***************************************************************************)
(* How an owner's spotlights reach one participant: the sender that serves *)
(* the send request (shared/social.ts and the web function), the           *)
(* participant's private thoughts, its durable queue of spotlight visits,  *)
(* the visits that read them, and the drain that a completed visit starts. *)
(*                                                                         *)
(* A spotlight stands for its one injection in the participant.  The visit *)
(* slot is single, which RunAdmission establishes; of a visit this module  *)
(* keeps the steps that read or publish private thoughts.                  *)
(***************************************************************************)
EXTENDS Naturals, FiniteSets, Sequences

CONSTANTS
    Spotlights,     \* spotlights an owner sends to this participant
    NoSpotlight,    \* stands for "no spotlight" in the visit slot
    Attempts,       \* requests a client may make for one spotlight
    MaxFaults,      \* bound on faults and owner disturbances in a behaviour
    MaxTails        \* bound on completed visits and drains that still run

VARIABLES
    request,        \* stage of each send request
    row,            \* status in spotlight_deliveries, per spotlight
    injection,      \* row of the participant's injections table, per spotlight
    queue,          \* pending_spotlight_ticks in runtime_state, oldest first
    asked,          \* requests whose background visit waits for admission
    drains,         \* spotlights that drains hold while they wait for admission
    visit,          \* the visit slot
    tails,          \* completed visits whose drain has not started
    maintenance,    \* an exclusive maintenance operation runs
    paused,         \* the participant is disabled
    told,           \* (history) times the thought entered the loop history
    dropped,        \* (history) spotlights let go before a visit published them
    expired,        \* (history) spotlights older than the retention
    faults          \* (bound) faults and disturbances so far

vars == <<request, row, injection, queue, asked, drains, visit, tails,
          maintenance, paused, told, dropped, expired, faults>>

Requests == Spotlights \X Attempts
Spotlight(r) == r[1]

RequestStages == {"idle", "planned", "skipping", "injected", "recorded", "waiting",
                  "started", "pending", "failed", "done"}
RowStates == {"none", "not_injected", "injected_tick_failed", "tick_pending",
              "tick_started"}
\* The statuses after which a request under the same id skips the participant.
CompletedStatuses == {"tick_started", "tick_pending"}

NoVisit == [stage |-> "none", spotlight |-> NoSpotlight, drained |-> FALSE]
VisitStages == {"none", "setup", "input", "published", "dead"}

Busy == visit.stage # "none" \/ maintenance
Queued(s) == \E i \in DOMAIN queue : queue[i] = s
Draining(s) == \E i \in DOMAIN drains : drains[i] = s
\* A visit holds the spotlight and has not published its thought yet.
Visiting(s) == visit.spotlight = s /\ visit.stage \in {"setup", "input"}
Asking(s) == \E r \in asked : Spotlight(r) = s

TypeOK ==
    /\ request \in [Requests -> RequestStages]
    /\ row \in [Spotlights -> RowStates]
    /\ injection \in [Spotlights -> {"none", "unread", "read"}]
    /\ queue \in Seq(Spotlights)
    /\ asked \subseteq Requests
    /\ drains \in Seq(Spotlights)
    /\ visit \in [stage : VisitStages, spotlight : Spotlights \cup {NoSpotlight},
                  drained : BOOLEAN]
    /\ tails \in Nat
    /\ maintenance \in BOOLEAN
    /\ paused \in BOOLEAN
    /\ told \in [Spotlights -> Nat]
    /\ dropped \subseteq Spotlights
    /\ expired \subseteq Spotlights
    /\ faults \in Nat

\* A request that is "done" at the start is one the client never makes; a
\* behaviour may start with less room left in the bound on faults.
Init ==
    /\ request \in [Requests -> {"idle", "done"}]
    /\ row = [s \in Spotlights |-> "none"]
    /\ injection = [s \in Spotlights |-> "none"]
    /\ queue = <<>> /\ drains = <<>>
    /\ asked = {}
    /\ visit = NoVisit
    /\ tails = 0
    /\ maintenance = FALSE /\ paused = FALSE
    /\ told = [s \in Spotlights |-> 0]
    /\ dropped = {} /\ expired = {}
    /\ faults \in 0..MaxFaults

Fault == faults < MaxFaults /\ faults' = faults + 1

senderVars == <<request, row>>
queueVars == <<queue, drains, tails>>
stateVars == <<maintenance, paused, expired>>

\* A spotlight whose thought is still unread is no longer let go once it is
\* asked for or queued again.
Regained(s) == IF injection[s] = "unread" THEN dropped \ {s} ELSE dropped

Advance(r, stage) == request' = [request EXCEPT ![r] = stage]

(***************************************************************************)
(* The durable queue                                                       *)
(***************************************************************************)
\* The entries that are in S, in their order: the n-th of them is the one up to
\* which there are n.  SelectSeq says the same by recursion.
Kept(entries, S) ==
    LET rank == [i \in 0..Len(entries) |-> Cardinality({j \in 1..i : entries[j] \in S})]
    IN  [n \in 1..rank[Len(entries)] |->
            entries[CHOOSE i \in DOMAIN entries : entries[i] \in S /\ rank[i] = n]]

\* append: a spotlight already waiting is not queued twice.
Appended(s) == IF Queued(s) THEN queue ELSE Append(queue, s)
\* prepend: put a drained spotlight back in front of whatever waits now.
Prepended(s) == <<s>> \o Kept(queue, Spotlights \ {s})
\* takeNext looks only at entries whose injection no visit has consumed.
Waiting == Kept(queue, {t \in Spotlights : injection[t] = "unread"})

(***************************************************************************)
(* The sender: one request, one step per call it awaits                    *)
(***************************************************************************)
\* The request reads the rows of its spotlight: a completed row answers
\* already_delivered, anything else is planned, unless the plan finds the
\* participant paused.  The client retries a spotlight under its id, also while
\* a request that timed out still runs, but never a spotlight older than the
\* retention.
Send(r) ==
    /\ request[r] = "idle"
    /\ Spotlight(r) \notin expired
    /\ Advance(r, IF row[Spotlight(r)] \in CompletedStatuses THEN "done"
                  ELSE IF paused THEN "skipping" ELSE "planned")
    /\ UNCHANGED <<row, injection, asked, visit, told, dropped, faults>>
    /\ UNCHANGED <<queueVars, stateVars>>

\* The row of a participant that the plan found paused says not_injected, even
\* if it was resumed, or told by another request, meanwhile.
SkipPaused(r) ==
    /\ request[r] = "skipping"
    /\ row' = [row EXCEPT ![Spotlight(r)] = "not_injected"]
    /\ Advance(r, "done")
    /\ UNCHANGED <<injection, asked, visit, told, dropped, faults>>
    /\ UNCHANGED <<queueVars, stateVars>>

\* Mutant: injectThought inserts without looking for the spotlight's row.
InjectedAnew(s) == "unread"
\* What injectThought leaves: the row that exists decides.
Injected(s) == IF injection[s] = "none" THEN "unread" ELSE injection[s]

\* The participant records the thought and the sender hears of it.
Inject(r) ==
    /\ request[r] = "planned"
    /\ injection' = [injection EXCEPT ![Spotlight(r)] = Injected(Spotlight(r))]
    /\ Advance(r, "injected")
    /\ UNCHANGED <<row, asked, visit, told, dropped, faults>>
    /\ UNCHANGED <<queueVars, stateVars>>

\* The call fails or times out, after or before the participant recorded the
\* thought: the row says not_injected either way, unless D1 refuses it too.
InjectUnanswered(r) ==
    /\ request[r] = "planned" /\ Fault
    /\ injection' \in {injection,
                       [injection EXCEPT ![Spotlight(r)] = Injected(Spotlight(r))]}
    /\ row' \in {row, [row EXCEPT ![Spotlight(r)] = "not_injected"]}
    /\ Advance(r, "done")
    /\ UNCHANGED <<asked, visit, told, dropped>>
    /\ UNCHANGED <<queueVars, stateVars>>

\* The delivery row is written before the visit is asked for, as not confirmed.
RecordUnconfirmed(r) ==
    /\ request[r] = "injected"
    /\ row' = [row EXCEPT ![Spotlight(r)] = "injected_tick_failed"]
    /\ Advance(r, "recorded")
    /\ UNCHANGED <<injection, asked, visit, told, dropped, faults>>
    /\ UNCHANGED <<queueVars, stateVars>>

\* The sender ends wherever it is past its injection: D1 refuses a write, or
\* the request dies.  No row is written.
SenderEnds(r) ==
    /\ request[r] \in {"skipping", "injected", "recorded", "started", "pending", "failed"}
    /\ Fault
    /\ Advance(r, "done")
    /\ UNCHANGED <<row, injection, asked, visit, told, dropped>>
    /\ UNCHANGED <<queueVars, stateVars>>

\* A deferred visit goes straight to the queue.
StartDeferred(r) ==
    /\ request[r] = "recorded"
    /\ queue' = Appended(Spotlight(r))
    /\ dropped' = Regained(Spotlight(r))
    /\ Advance(r, "pending")
    /\ UNCHANGED <<row, injection, asked, drains, visit, tails, told, faults>>
    /\ UNCHANGED stateVars

\* An immediate visit asks for admission in the participant's transition queue.
StartNow(r) ==
    /\ request[r] = "recorded"
    /\ asked' = asked \cup {r}
    /\ dropped' = Regained(Spotlight(r))
    /\ Advance(r, "waiting")
    /\ UNCHANGED <<row, injection, visit, told, faults>>
    /\ UNCHANGED <<queueVars, stateVars>>

\* The answer is lost or late: the sender records a failed start while the
\* participant goes on with what it was asked.
StartUnanswered(r) ==
    /\ request[r] \in {"waiting", "started", "pending"} /\ Fault
    /\ Advance(r, "failed")
    /\ UNCHANGED <<row, injection, asked, visit, told, dropped>>
    /\ UNCHANGED <<queueVars, stateVars>>

Outcome == [started |-> "tick_started", pending |-> "tick_pending",
            failed |-> "injected_tick_failed"]

\* The outcome of the start replaces the unconfirmed row.
RecordOutcome(r) ==
    /\ request[r] \in DOMAIN Outcome
    /\ row' = [row EXCEPT ![Spotlight(r)] = Outcome[request[r]]]
    /\ Advance(r, "done")
    /\ UNCHANGED <<injection, asked, visit, told, dropped, faults>>
    /\ UNCHANGED <<queueVars, stateVars>>

(***************************************************************************)
(* Admission of the visits that read spotlights                            *)
(***************************************************************************)
\* Answer a request that still listens.
Answer(r, stage) ==
    request' = IF request[r] = "waiting" THEN [request EXCEPT ![r] = stage] ELSE request

Admitted(s, drained) == [stage |-> "setup", spotlight |-> s, drained |-> drained]

AskAdmitted(r) ==
    /\ r \in asked /\ ~Busy /\ ~paused
    /\ asked' = asked \ {r}
    /\ visit' = Admitted(Spotlight(r), FALSE)
    /\ Answer(r, "started")
    /\ UNCHANGED <<row, injection, told, dropped, faults>>
    /\ UNCHANGED <<queueVars, stateVars>>

\* A busy participant queues the spotlight behind the visit that runs.
AskQueued(r) ==
    /\ r \in asked /\ Busy
    /\ asked' = asked \ {r}
    /\ queue' = Appended(Spotlight(r))
    /\ Answer(r, "pending")
    /\ UNCHANGED <<row, injection, drains, visit, tails, told, dropped, faults>>
    /\ UNCHANGED stateVars

\* A paused participant refuses; so does an admission that fails, that loses
\* its claim or that throws.  The sender hears of a failed start.
AskRefused(r) ==
    /\ r \in asked
    /\ \/ ~Busy /\ paused /\ UNCHANGED faults
       \/ Fault
    /\ asked' = asked \ {r}
    /\ dropped' = dropped \cup {Spotlight(r)}
    /\ Answer(r, "failed")
    /\ UNCHANGED <<row, injection, visit, told>>
    /\ UNCHANGED <<queueVars, stateVars>>

\* Scheduled and manual visits; a continuing one reads no spotlight either.
BeginNormal ==
    /\ ~Busy /\ ~paused
    /\ visit' = Admitted(NoSpotlight, FALSE)
    /\ UNCHANGED <<request, row, injection, asked, told, dropped, faults>>
    /\ UNCHANGED <<queueVars, stateVars>>

(***************************************************************************)
(* The drain a completed visit starts                                      *)
(***************************************************************************)
\* Take the oldest spotlight that is still unread out of the durable queue,
\* and drop the entries that another visit has read.
StartDrain ==
    /\ tails > 0
    /\ tails' = tails - 1
    /\ IF Waiting = <<>>
       THEN queue' = <<>> /\ UNCHANGED drains
       ELSE /\ Len(drains) < MaxTails
            /\ queue' = Tail(Waiting)
            /\ drains' = Append(drains, Head(Waiting))
    /\ UNCHANGED <<request, row, injection, asked, visit, told, dropped, faults>>
    /\ UNCHANGED stateVars

DrainAdmitted ==
    /\ drains # <<>> /\ ~Busy /\ ~paused
    /\ visit' = Admitted(Head(drains), TRUE)
    /\ drains' = Tail(drains)
    /\ UNCHANGED <<request, row, injection, queue, asked, tails, told, dropped, faults>>
    /\ UNCHANGED stateVars

\* Another visit came first: the busy answer queues the spotlight again.
DrainQueued ==
    /\ drains # <<>> /\ Busy
    /\ queue' = Appended(Head(drains))
    /\ drains' = Tail(drains)
    /\ UNCHANGED <<request, row, injection, asked, visit, tails, told, dropped, faults>>
    /\ UNCHANGED stateVars

\* Mutant: a drain answered 'paused' keeps its spotlight to itself.
RequeuedNever(s) == queue
Requeued(s) == Prepended(s)

\* The participant is paused, or the admission throws: the spotlight goes back
\* to the front.
DrainRequeued ==
    /\ drains # <<>>
    /\ \/ ~Busy /\ paused /\ UNCHANGED faults
       \/ Fault
    /\ queue' = Requeued(Head(drains))
    /\ drains' = Tail(drains)
    /\ UNCHANGED <<request, row, injection, asked, visit, tails, told, dropped>>
    /\ UNCHANGED stateVars

\* The admission answers 'failed' or 'stopped': the drain lets go.
DrainDropped ==
    /\ drains # <<>> /\ ~Busy /\ Fault
    /\ dropped' = dropped \cup {Head(drains)}
    /\ drains' = Tail(drains)
    /\ UNCHANGED <<request, row, injection, queue, asked, visit, tails, told>>
    /\ UNCHANGED stateVars

(***************************************************************************)
(* The visit                                                               *)
(***************************************************************************)
\* The rendering context throws before the handler's try: the caller's catch
\* puts a drained spotlight back, and the run stays claimed.
VisitThrowsEarly ==
    /\ visit.stage = "setup" /\ Fault
    /\ queue' = IF visit.drained THEN Prepended(visit.spotlight) ELSE queue
    /\ dropped' = IF visit.drained THEN dropped ELSE dropped \cup ({visit.spotlight} \ {NoSpotlight})
    /\ visit' = [NoVisit EXCEPT !.stage = "dead"]
    /\ UNCHANGED <<request, row, injection, asked, drains, tails, told>>
    /\ UNCHANGED stateVars

\* Recovery settles the run nobody executes.
DeadReaped ==
    /\ visit.stage = "dead"
    /\ visit' = NoVisit
    /\ UNCHANGED <<request, row, injection, asked, told, dropped, faults>>
    /\ UNCHANGED <<queueVars, stateVars>>

\* The visit reads its pending thoughts.  A spotlight visit that finds its
\* thought read completes at once.
VisitReads ==
    /\ visit.stage = "setup"
    /\ IF visit.spotlight # NoSpotlight /\ injection[visit.spotlight] # "unread"
       THEN /\ tails < MaxTails /\ tails' = tails + 1
            /\ visit' = NoVisit
       ELSE /\ visit' = [visit EXCEPT !.stage = "input"]
            /\ UNCHANGED tails
    /\ UNCHANGED <<request, row, injection, queue, asked, drains, told, dropped, faults>>
    /\ UNCHANGED stateVars

\* One transaction writes the visit's messages and marks its thought read.
VisitPublishes ==
    /\ visit.stage = "input"
    /\ IF visit.spotlight = NoSpotlight
       THEN UNCHANGED <<injection, told>>
       ELSE /\ injection[visit.spotlight] = "unread"
            /\ injection' = [injection EXCEPT ![visit.spotlight] = "read"]
            /\ told' = [told EXCEPT ![visit.spotlight] = @ + 1]
    /\ visit' = [visit EXCEPT !.stage = "published"]
    /\ UNCHANGED <<request, row, asked, dropped, faults>>
    /\ UNCHANGED <<queueVars, stateVars>>

\* The transaction refuses a thought that is no longer unread (another visit's
\* retention deleted it): the visit fails.
VisitRefused ==
    /\ visit.stage = "input" /\ visit.spotlight # NoSpotlight
    /\ injection[visit.spotlight] # "unread"
    /\ dropped' = dropped \cup {visit.spotlight}
    /\ visit' = NoVisit
    /\ UNCHANGED <<request, row, injection, asked, told, faults>>
    /\ UNCHANGED <<queueVars, stateVars>>

\* Mutant: the flag that starts the drain is not set.
TailsAfterWithoutDrain == tails
\* A completed visit leaves a drain to start.
TailsAfter == tails + 1

VisitCompletes ==
    /\ visit.stage = "published"
    /\ tails < MaxTails /\ tails' = TailsAfter
    /\ visit' = NoVisit
    /\ UNCHANGED <<request, row, injection, queue, asked, drains, told, dropped, faults>>
    /\ UNCHANGED stateVars

\* The visit fails or is stopped: no drain, and a thought it had not published
\* stays unread with nobody holding it.
VisitEnds ==
    /\ visit.stage \in {"setup", "input", "published"}
    /\ Fault
    /\ dropped' = dropped \cup {s \in Spotlights : Visiting(s)}
    /\ visit' = NoVisit
    /\ UNCHANGED <<request, row, injection, asked, told>>
    /\ UNCHANGED <<queueVars, stateVars>>

(***************************************************************************)
(* The surroundings: pause, maintenance, retention, restart                *)
(***************************************************************************)
Pause ==
    /\ ~paused /\ Fault
    /\ paused' = TRUE
    /\ UNCHANGED <<request, row, injection, asked, visit, told, dropped, maintenance, expired>>
    /\ UNCHANGED queueVars

Resume ==
    /\ paused
    /\ paused' = FALSE
    /\ UNCHANGED <<request, row, injection, asked, visit, told, dropped, maintenance, expired, faults>>
    /\ UNCHANGED queueVars

BeginMaintenance ==
    /\ ~Busy /\ Fault
    /\ maintenance' = TRUE
    /\ UNCHANGED <<request, row, injection, asked, visit, told, dropped, paused, expired>>
    /\ UNCHANGED queueVars

\* The owner erases the history: the thoughts and the queue go with it.
EraseHistory ==
    /\ maintenance
    /\ injection' = [s \in Spotlights |-> "none"]
    /\ queue' = <<>>
    /\ told' = [s \in Spotlights |-> 0]
    /\ dropped' = dropped \cup {s \in Spotlights : injection[s] # "none"}
    /\ maintenance' = FALSE
    /\ UNCHANGED <<request, row, asked, drains, visit, tails, paused, expired, faults>>

\* Any other maintenance, and an erase that gives up on its first step.
EndMaintenance ==
    /\ maintenance
    /\ maintenance' = FALSE
    /\ UNCHANGED <<request, row, injection, asked, visit, told, dropped, paused, expired, faults>>
    /\ UNCHANGED queueVars

\* Retention deletes an old thought and its queue entry in one transaction.
\* The requests of a spotlight end long before it is that old.
Expire(s) ==
    /\ Fault
    /\ injection[s] # "none"
    /\ \A r \in Requests : Spotlight(r) = s => request[r] \in {"idle", "done"}
    /\ injection' = [injection EXCEPT ![s] = "none"]
    /\ queue' = Kept(queue, Spotlights \ {s})
    /\ dropped' = dropped \cup {s}
    /\ expired' = expired \cup {s}
    /\ UNCHANGED <<request, row, asked, drains, visit, tails, maintenance, paused, told>>

\* The participant's object restarts: what only memory held is gone, and the
\* requests that waited for an answer get none.
Restart ==
    /\ Fault
    /\ asked' = {} /\ drains' = <<>> /\ tails' = 0 /\ maintenance' = FALSE
    /\ visit' = IF visit.stage = "none" THEN NoVisit ELSE [NoVisit EXCEPT !.stage = "dead"]
    /\ request' = [r \in Requests |-> IF request[r] = "waiting" THEN "failed" ELSE request[r]]
    /\ dropped' = dropped \cup {s \in Spotlights : Draining(s) \/ Visiting(s) \/ Asking(s)}
    /\ UNCHANGED <<row, injection, queue, told, paused, expired>>

(***************************************************************************)
(* The specification                                                       *)
(***************************************************************************)
SenderStep(r) ==
    \/ Send(r) \/ SkipPaused(r) \/ Inject(r) \/ InjectUnanswered(r)
    \/ RecordUnconfirmed(r) \/ SenderEnds(r) \/ StartDeferred(r) \/ StartNow(r)
    \/ StartUnanswered(r) \/ RecordOutcome(r)

AdmissionStep(r) == AskAdmitted(r) \/ AskQueued(r) \/ AskRefused(r)

DrainStep == DrainAdmitted \/ DrainQueued \/ DrainRequeued \/ DrainDropped

VisitStep ==
    \/ VisitThrowsEarly \/ DeadReaped \/ VisitReads \/ VisitPublishes
    \/ VisitRefused \/ VisitCompletes \/ VisitEnds

Surroundings ==
    \/ Pause \/ Resume \/ BeginMaintenance \/ EraseHistory \/ EndMaintenance \/ Restart
    \/ \E s \in Spotlights : Expire(s)

Next ==
    \/ \E r \in Requests : SenderStep(r) \/ AdmissionStep(r)
    \/ BeginNormal \/ StartDrain \/ DrainStep \/ VisitStep \/ Surroundings

Spec == Init /\ [][Next]_vars

(***************************************************************************)
(* Properties                                                              *)
(***************************************************************************)
\* A spotlight's thought enters the participant's history at most once however
\* often the client retries, requests overlap, drains meet immediate visits or
\* the object restarts (injectThought decides by the spotlight's row, and the
\* publishing transaction refuses a consumed one).  An erased history starts
\* anew.
ToldOnce == \A s \in Spotlights : told[s] <= 1

\* The runtime owes the spotlight a visit: it is queued, or something in memory
\* holds it.
Owed(s) == Queued(s) \/ Draining(s) \/ Visiting(s) \/ Asking(s)

\* A spotlight whose row answers already_delivered, so that no retry asks again,
\* has been read, or the runtime still owes it a visit, or it was let go at one
\* of the places the code knows: a failed or stopped admission or visit, a
\* restart, an erased history, retention.  A pause, a throwing admission, a busy
\* participant and the rewriting of the queue never lose one.
DeliveredIsAccounted ==
    \A s \in Spotlights :
        row[s] \in CompletedStatuses => told[s] > 0 \/ Owed(s) \/ s \in dropped

\* bot-runtime.ts says of a deferred or colliding spotlight that its injection
\* "is read at the next completed visit instead of sitting unread forever": a
\* pending row's unread thought is always queued or held by somebody.
DeferredIsNotStranded ==
    \A s \in Spotlights : row[s] = "tick_pending" /\ injection[s] = "unread" => Owed(s)

(***************************************************************************)
(* Liveness                                                                *)
(***************************************************************************)
\* Every awaited step of a visit, of an admission and of a drain ends; a pause
\* ends (a paused participant keeps its queue and owes nothing).  Scheduled
\* visits are minutes apart and a visit's last writes take seconds, so a visit
\* does not overtake every drain: a drain that can start while no visit runs,
\* and be admitted, again and again, eventually is.
VisitProgress == DeadReaped \/ VisitReads \/ VisitPublishes \/ VisitRefused \/ VisitCompletes

Fairness ==
    /\ WF_vars(Resume) /\ WF_vars(EndMaintenance) /\ WF_vars(VisitProgress)
    /\ WF_vars(BeginNormal) /\ WF_vars(StartDrain) /\ WF_vars(DrainQueued)
    /\ SF_vars(StartDrain /\ ~Busy)
    /\ SF_vars(DrainAdmitted)

FairSpec == Spec /\ Fairness

\* A queued spotlight is read, or let go at one of the places named above: the
\* queue never keeps one for good while visits complete.
QueuedIsTried ==
    \A s \in Spotlights : Queued(s) ~> (injection[s] # "unread" \/ s \in dropped)

=============================================================================
