----------------------------- MODULE ToolOutcome -----------------------------
(***************************************************************************)
(* What a participant is told of the tool calls of a provider's response:  *)
(* the journal of the call in flight (pending_tool_v3), the response whose *)
(* calls still need an answer (pending_response_v1), the loop that carries *)
(* the calls out, and the settlement that answers for it when the visit is *)
(* stopped, falls silent or is lost.                                       *)
(*                                                                         *)
(* The loop's continuation outlives a visit that another handler closed,   *)
(* up to the next write it attempts.  A transition that hangs closes the   *)
(* journal only: the loop may not write any more, but its signal is not    *)
(* aborted, so that it goes on sending until the object resets itself, and *)
(* its calls wait for the recovery that follows.                           *)
(*                                                                         *)
(* A step of at[r] is an await, or the point right after one.  Every post  *)
(* of the model has one identity, and the page of recent events that the   *)
(* guard against repetition reads holds every outcome.  To render the      *)
(* result of a write takes no read of a store, so that only reads fail     *)
(* there.                                                                  *)
(***************************************************************************)
EXTENDS Integers, FiniteSets, Sequences

CONSTANTS
    Contents,       \* the sequences of effects a response's calls may have
    NumResponses,   \* bound on provider responses
    BatchSize,      \* targets of a vote or a follow call
    MaxCrashes      \* bound on resets of the object

Effects == {"read", "post", "batch", "note"}
Responses == 1..NumResponses
Positions == UNION {DOMAIN c : c \in Contents}
\* A batch has an outcome for each target, any other call has one.
Units == Responses \X Positions \X (1..BatchSize)

VARIABLES
    asked,          \* the calls of each response, <<>> before it arrives
    run,            \* first response of the journal's visit, 0 once its calls are settled
    stop,           \* a stop request names the visit
    hung,           \* a hung transition closed the journal and settled nothing
    pending,        \* pending_tool_v3
    publication,    \* pending_response_v1
    at,             \* where the loop over a response's calls is
    call,           \* the call it is at
    left,           \* pendingToolCallIds: calls it has not answered
    fate,           \* completed: outcomes of the targets of its batch
    hashing,        \* requests whose idempotency key is still being computed
    site,           \* what became of each unit at the website, or in the notes
    told,           \* (history) the answers the participant got, per unit
    unknowns,       \* unknownOutcomeCount of the visit
    crashes         \* (bound) resets so far

vars == <<asked, run, stop, hung, pending, publication, at, call, left, fate, hashing,
          site, told, unknowns, crashes>>

Stages == {"prepared", "reading", "dispatched"}
NoCall == [response |-> 0, call |-> 0, stage |-> "prepared"]
\* "shown": the message with the response's text is in the history.
NoPublication == [response |-> 0, calls |-> {}, shown |-> FALSE]
Steps == {"idle", "received", "interrupting", "next", "renewing", "preparing",
          "hashing", "waiting", "rendering", "settling", "settling_stopped",
          "failing", "written", "siblings", "closing", "between", "ending", "done"}
Fates == {"none", "result", "committed", "refused", "unknown", "not_attempted"}
Answers == (Fates \ {"none"}) \cup {"not_dispatched", "interrupted", "dropped", "corrected"}

TypeOK ==
    /\ asked \in [Responses -> Contents \cup {<<>>}]
    /\ run \in {0} \cup Responses /\ stop \in BOOLEAN /\ hung \in BOOLEAN
    /\ pending \in [response : {0} \cup Responses, call : {0} \cup Positions, stage : Stages]
    /\ publication \in [response : {0} \cup Responses, calls : SUBSET Positions, shown : BOOLEAN]
    /\ at \in [Responses -> Steps]
    /\ call \in [Responses -> {0} \cup Positions]
    /\ left \in [Responses -> SUBSET Positions]
    /\ fate \in [Units -> Fates]
    /\ hashing \subseteq Units
    /\ site \in [Units -> {"untouched", "sent", "performed", "refused"}]
    /\ \A u \in Units : \A n \in DOMAIN told[u] : told[u][n] \in Answers
    /\ unknowns \in 0..2 /\ crashes \in 0..MaxCrashes

Init ==
    /\ asked = [r \in Responses |-> <<>>]
    /\ run = 0 /\ stop = FALSE /\ hung = FALSE
    /\ pending = NoCall /\ publication = NoPublication
    /\ at = [r \in Responses |-> "idle"]
    /\ call = [r \in Responses |-> 0]
    /\ left = [r \in Responses |-> {}]
    /\ fate = [u \in Units |-> "none"]
    /\ hashing = {}
    /\ site = [u \in Units |-> "untouched"]
    /\ told = [u \in Units |-> <<>>]
    /\ unknowns = 0 /\ crashes = 0

journalVars == <<asked, run, stop, hung, crashes>>
answerVars == <<pending, publication, told, left>>
worldVars == <<hashing, site>>

Go(r, step) == at' = [at EXCEPT ![r] = step]

\* The loops of these responses are over, and what they held in memory is gone.
Over(responses) ==
    /\ at' = [r \in Responses |-> IF r \in responses THEN "done" ELSE at[r]]
    /\ call' = [r \in Responses |-> IF r \in responses THEN 0 ELSE call[r]]
    /\ left' = [r \in Responses |-> IF r \in responses THEN {} ELSE left[r]]
    /\ fate' = [u \in Units |-> IF u[1] \in responses THEN "none" ELSE fate[u]]

\* The signal of the visit's loop is aborted with the settlement of its calls.
InVisit(r) == run # 0 /\ run <= r

\* Only the execution of the journal's active visit may still write.
Authority(r) == InVisit(r) /\ ~hung

\* A stop request ends the loop where it looks, and so does an aborted signal.
Stopped(r) == stop \/ ~InVisit(r)

Effect(r) == asked[r][call[r]]
IsPost(u) == u[2] \in DOMAIN asked[u[1]] /\ asked[u[1]][u[2]] = "post"
Targets(r, k) == 1..(IF asked[r][k] = "batch" THEN BatchSize ELSE 1)
UnitsOf(r, calls) == UNION {{<<r, k, i>> : i \in Targets(r, k)} : k \in calls}

\* The target the loop has reached: those before it have their outcome.
Current(r) ==
    <<r, call[r], 1 + Cardinality({i \in 1..BatchSize : fate[<<r, call[r], i>>] # "none"})>>

(***************************************************************************)
(* Answers.  A pair of request and result, the end of the pending call and *)
(* the publication's progress are one transaction.                         *)
(***************************************************************************)
Told(answers) ==
    told' = [u \in Units |-> IF u \in DOMAIN answers THEN Append(told[u], answers[u]) ELSE told[u]]

Same(r, calls, answer) == [u \in UnitsOf(r, calls) |-> answer]

\* Mutant: The publication ends with the first pair.
CompletedAtFirst(calls, shown) ==
    IF shown THEN NoPublication ELSE [publication EXCEPT !.calls = @ \ calls]

Completed(calls, shown) ==
    LET rest == [publication EXCEPT !.calls = @ \ calls, !.shown = @ \/ shown]
    IN IF publication = NoPublication \/ (rest.shown /\ rest.calls = {}) THEN NoPublication ELSE rest

\* The loop answers these calls with pairs.
Answer(r, calls, answers) ==
    /\ Authority(r)
    /\ Told(answers)
    /\ publication' = Completed(calls, TRUE)
    /\ pending' = NoCall
    /\ left' = [left EXCEPT ![r] = @ \ calls]

\* The loop lets these calls go without a pair: the participant reads a
\* correction instead, or nothing, since they are not in its history.
LetGo(r, calls, how) ==
    /\ Authority(r)
    /\ Told(Same(r, calls, how))
    /\ publication' = Completed(calls, FALSE)
    /\ left' = [left EXCEPT ![r] = @ \ calls]

interruptedToolSettlement(stage) ==
    CASE stage = "prepared" -> "not_dispatched"
      [] stage = "reading" -> "interrupted"
      [] stage = "dispatched" -> "unknown"

\* The recorded stage speaks for the call in flight: the others of the response
\* were not begun.
Settlements(r, calls) ==
    [u \in UnitsOf(r, calls) |->
        interruptedToolSettlement(
            IF pending.response = r /\ pending.call = u[2] THEN pending.stage ELSE "prepared")]

\* The loop itself is interrupted and answers whatever is left.
Interrupt(r) ==
    /\ Answer(r, left[r], Settlements(r, left[r]))
    /\ Go(r, "ending")
    /\ UNCHANGED <<journalVars, call, fate, worldVars, unknowns>>

\* Closing a visit answers what its publication, or an old journal, still has.
Settle ==
    LET r == IF publication # NoPublication THEN publication.response ELSE pending.response
        calls == IF publication # NoPublication THEN publication.calls ELSE {pending.call} \ {0}
    IN /\ Told(IF r = 0 THEN <<>> ELSE Settlements(r, calls))
       /\ publication' = NoPublication /\ pending' = NoCall

Close == Settle /\ run' = 0 /\ stop' = FALSE /\ hung' = FALSE

(***************************************************************************)
(* A response arrives: in a new visit, or in the one that asked for more.  *)
(***************************************************************************)
Respond(r, content) ==
    /\ asked[r] = <<>> /\ \A q \in 1..(r - 1) : asked[q] # <<>>
    /\ publication = NoPublication  \* a response that still needs history refuses the next
    /\ asked' = [asked EXCEPT ![r] = content]
    /\ \E step \in {"received", "interrupting"} :
        \/ /\ run = 0 /\ run' = r
           /\ unknowns' = 0
           /\ Go(r, step)
        \/ /\ r > 1 /\ Authority(r - 1) /\ at[r - 1] = "between"
           /\ at' = [at EXCEPT ![r - 1] = "done", ![r] = step]
           /\ UNCHANGED <<run, unknowns>>
    /\ publication' = [response |-> r, calls |-> DOMAIN content, shown |-> FALSE]
    /\ left' = [left EXCEPT ![r] = DOMAIN content]
    /\ UNCHANGED <<stop, hung, pending, call, fate, worldVars, told, crashes>>

ResponseAccepted(r) ==
    /\ at[r] = "received" /\ ~Stopped(r)
    /\ Go(r, "next")
    /\ UNCHANGED <<journalVars, answerVars, call, fate, worldVars, unknowns>>

\* A truncated response, one that met a stop, and a batch that a stop cut off.
Interrupted(r) ==
    /\ at[r] = "interrupting" \/ (at[r] = "received" /\ stop)
    /\ Interrupt(r)

(***************************************************************************)
(* The loop over the calls                                                 *)
(***************************************************************************)
MoreCalls(r) == at[r] = "next" /\ call[r] < Len(asked[r])

StopBeforeCall(r) ==
    /\ MoreCalls(r) /\ Stopped(r)
    /\ Go(r, "ending")
    /\ UNCHANGED <<journalVars, answerVars, call, fate, worldVars, unknowns>>

\* A call that is not allowed here is let go.
DropCall(r) ==
    /\ MoreCalls(r) /\ ~Stopped(r)
    /\ call' = [call EXCEPT ![r] = @ + 1]
    /\ LetGo(r, {call[r] + 1}, "dropped")
    /\ UNCHANGED <<journalVars, pending, at, fate, worldVars, unknowns>>

MalformedCall(r) ==
    /\ MoreCalls(r) /\ ~Stopped(r)
    /\ call' = [call EXCEPT ![r] = @ + 1]
    /\ Answer(r, {call[r] + 1}, Same(r, {call[r] + 1}, "refused"))
    /\ UNCHANGED <<journalVars, at, fate, worldVars, unknowns>>

BeginCall(r) ==
    /\ MoreCalls(r) /\ ~Stopped(r)
    /\ call' = [call EXCEPT ![r] = @ + 1]
    /\ Go(r, "renewing")
    /\ UNCHANGED <<journalVars, answerVars, fate, worldVars, unknowns>>

\* A known failure is answered at once.
Fails(r) ==
    /\ Answer(r, {call[r]}, Same(r, {call[r]}, "refused"))
    /\ Go(r, "next")
    /\ UNCHANGED <<journalVars, call, fate, unknowns>>

\* A refusal that names an existing thread waits for that thread's identity.
FailureAwaitsIdentity(r) ==
    /\ left' = [left EXCEPT ![r] = @ \ {call[r]}]
    /\ Go(r, "failing")
    /\ UNCHANGED <<journalVars, pending, publication, told, call, fate, unknowns>>

FailureIsTold(r) ==
    /\ at[r] = "failing"
    /\ Answer(r, {call[r]}, Same(r, {call[r]}, "refused"))
    /\ Go(r, "next")
    /\ UNCHANGED <<journalVars, call, fate, worldVars, unknowns>>

FailureIsLost(r) ==
    /\ at[r] = "failing"
    /\ Go(r, "ending")
    /\ UNCHANGED <<journalVars, answerVars, call, fate, worldVars, unknowns>>

LeaseRenewed(r) ==
    /\ at[r] = "renewing" /\ ~stop /\ Authority(r)
    /\ pending' = [response |-> r, call |-> call[r], stage |-> "prepared"]
    /\ Go(r, "preparing")
    /\ UNCHANGED <<journalVars, publication, told, left, call, fate, worldVars, unknowns>>

\* The row is somebody else's by now, or a stop request came in.
LeaseLost(r) == at[r] = "renewing" /\ Interrupt(r)

LeaseFails(r) == at[r] = "renewing" /\ Fails(r) /\ UNCHANGED worldVars

PreparationStops(r) == at[r] = "preparing" /\ stop /\ Interrupt(r)

PreparationFails(r) == at[r] = "preparing" /\ Fails(r) /\ UNCHANGED worldVars

Mark(r, stage) ==
    pending' = IF pending.response = r /\ pending.call = call[r]
               THEN [pending EXCEPT !.stage = stage] ELSE pending

StartReading(r) ==
    /\ at[r] = "preparing" /\ Effect(r) = "read" /\ ~Stopped(r)
    /\ Mark(r, "reading")
    /\ Go(r, "rendering")
    /\ UNCHANGED <<journalVars, publication, told, left, call, fate, worldVars, unknowns>>

\* A note is written in the transaction that marks its call.
WriteNote(r) ==
    /\ at[r] = "preparing" /\ Effect(r) = "note" /\ ~Stopped(r)
    /\ Mark(r, "dispatched")
    /\ site' = [site EXCEPT ![Current(r)] = "performed"]
    /\ Go(r, "rendering")
    /\ UNCHANGED <<journalVars, publication, told, left, call, fate, hashing, unknowns>>

\* Mutant: Writes that are known to have happened do not count.
EarlierUnknown ==
    \E u \in Units : \E n \in DOMAIN told[u] : IsPost(u) /\ told[u][n] = "unknown"

\* An earlier post of this identity whose outcome is unknown, or known without
\* its result.
EarlierUnresolved ==
    \E u \in Units : \E n \in DOMAIN told[u] :
        IsPost(u) /\ told[u][n] \in {"unknown", "committed"}

\* The guard of a post, and a follow without a valid target, correct the
\* participant before anything is sent.
CorrectCall(r) ==
    /\ at[r] = "preparing"
    /\ Effect(r) = "batch" \/ (Effect(r) = "post" /\ EarlierUnresolved)
    /\ LetGo(r, {call[r]}, "corrected")
    /\ pending' = NoCall
    /\ Go(r, "next")
    /\ UNCHANGED <<journalVars, call, fate, worldVars, unknowns>>

PrepareRequest(r) ==
    /\ at[r] = "preparing" /\ ~Stopped(r)
    /\ Effect(r) = "batch" \/ (Effect(r) = "post" /\ ~EarlierUnresolved)
    /\ hashing' = hashing \cup {Current(r)}
    /\ Go(r, "hashing")
    /\ UNCHANGED <<journalVars, answerVars, call, fate, site, unknowns>>

(***************************************************************************)
(* Requests                                                                *)
(***************************************************************************)
\* Nobody awaits a request whose time ran out, or whose visit was closed: its
\* signal is aborted.
Awaited(u) == at[u[1]] = "hashing" /\ u = Current(u[1])

\* Mutant: No look at the stop request or the signal right before sending.
MayDispatchAnyway(u) == Awaited(u)

MayDispatch(u) == Awaited(u) /\ ~Stopped(u[1])

Dispatch(u) ==
    /\ u \in hashing /\ MayDispatch(u)
    /\ hashing' = hashing \ {u}
    /\ site' = [site EXCEPT ![u] = "sent"]
    /\ Mark(u[1], "dispatched")
    /\ Go(u[1], "waiting")
    /\ UNCHANGED <<journalVars, publication, told, left, call, fate, unknowns>>

StrayEnds(u) ==
    /\ u \in hashing /\ ~Awaited(u)
    /\ hashing' = hashing \ {u}
    /\ UNCHANGED <<journalVars, answerVars, at, call, fate, site, unknowns>>

\* One target of a batch got this outcome; those after it are not attempted.
BatchBreaks(r, outcome, step) ==
    /\ fate' = [u \in Units |->
                    IF u = Current(r) THEN outcome
                    ELSE IF u \in UnitsOf(r, {call[r]}) /\ u[3] > Current(r)[3] THEN "not_attempted"
                    ELSE fate[u]]
    /\ Go(r, step)
    /\ UNCHANGED <<journalVars, answerVars, call, unknowns>>

DispatchStopped(u) ==
    LET r == u[1] IN
    /\ u \in hashing /\ Awaited(u) /\ stop /\ InVisit(r)
    /\ hashing' = hashing \ {u} /\ site' = site
    /\ \/ /\ Effect(r) = "post"
          /\ Answer(r, left[r], Settlements(r, left[r])) /\ Go(r, "ending")
          /\ UNCHANGED <<journalVars, call, fate, unknowns>>
       \/ Effect(r) = "batch" /\ BatchBreaks(r, "not_attempted", "settling_stopped")

\* The time for the request runs out before it is sent: what computes its key
\* is left behind.
RequestFails(r) ==
    /\ at[r] = "hashing" /\ InVisit(r)
    /\ \/ Effect(r) = "post" /\ Fails(r)
       \/ Effect(r) = "batch" /\ BatchBreaks(r, "refused", "settling")
    /\ UNCHANGED worldVars

\* The website executes what was sent, sooner or later, or refuses it.
SiteExecutes(u, outcome) ==
    /\ site[u] = "sent"
    /\ site' = [site EXCEPT ![u] = outcome]
    /\ UNCHANGED <<journalVars, answerVars, at, call, fate, hashing, unknowns>>

\* The request of a post, or of the last target, returned: a stop still counts.
Returned(r) ==
    /\ at[r] = "waiting" /\ site[Current(r)] = "performed" /\ InVisit(r)
    /\ Current(r)[3] + 1 \notin Targets(r, call[r])
    /\ \/ stop /\ Interrupt(r)
       \/ /\ ~stop /\ Go(r, "rendering")
          /\ fate' = [fate EXCEPT ![Current(r)] = IF Effect(r) = "batch" THEN "result" ELSE @]
          /\ UNCHANGED <<journalVars, answerVars, call, worldVars, unknowns>>

\* One target of several is done, and the next one's request is prepared.
NextTarget(r) ==
    LET u == Current(r)
        next == [u EXCEPT ![3] = @ + 1]
    IN /\ at[r] = "waiting" /\ site[u] = "performed" /\ InVisit(r)
       /\ next \in UnitsOf(r, {call[r]})
       /\ site' = site
       /\ \/ /\ ~stop
             /\ fate' = [fate EXCEPT ![u] = "result"]
             /\ hashing' = hashing \cup {next}
             /\ Go(r, "hashing")
             /\ UNCHANGED <<journalVars, answerVars, call, unknowns>>
          \/ stop /\ BatchBreaks(r, "result", "settling_stopped") /\ UNCHANGED hashing

\* The website confirms the write and reports that its result is unavailable.
CommittedIssue(r) ==
    /\ at[r] = "waiting" /\ site[Current(r)] = "performed" /\ InVisit(r)
    /\ \/ /\ Effect(r) = "post"
          /\ Answer(r, {call[r]}, Same(r, {call[r]}, "committed"))
          /\ Go(r, "next")
          /\ UNCHANGED <<journalVars, call, fate, unknowns>>
       \/ Effect(r) = "batch" /\ BatchBreaks(r, "committed", "settling")
    /\ UNCHANGED worldVars

Refused(r) ==
    /\ at[r] = "waiting" /\ site[Current(r)] = "refused" /\ InVisit(r)
    /\ \/ Effect(r) = "post" /\ (Fails(r) \/ FailureAwaitsIdentity(r))
       \/ Effect(r) = "batch" /\ BatchBreaks(r, "refused", "settling")
    /\ UNCHANGED worldVars

\* No answer, an answer nobody can read, or a stop while it was awaited.
OutcomeUnknown(r) ==
    /\ at[r] = "waiting" /\ InVisit(r)
    /\ \/ /\ Effect(r) = "post"
          /\ Answer(r, {call[r]}, Same(r, {call[r]}, "unknown"))
          /\ unknowns' = unknowns + 1
          /\ Go(r, "siblings")
          /\ UNCHANGED <<journalVars, call, fate>>
       \/ Effect(r) = "batch" /\ BatchBreaks(r, "unknown", "settling")
    /\ UNCHANGED worldVars

(***************************************************************************)
(* After the outcome is known                                              *)
(***************************************************************************)
ReadFails(r) ==
    /\ at[r] = "rendering" /\ Effect(r) = "read"
    /\ Fails(r) \/ (stop /\ Answer(r, left[r], Settlements(r, left[r])) /\ Go(r, "ending")
                    /\ UNCHANGED <<journalVars, call, fate, unknowns>>)
    /\ UNCHANGED worldVars

ResultIsTold(r) ==
    /\ at[r] = "rendering"
    /\ Answer(r, {call[r]}, Same(r, {call[r]}, "result"))
    /\ Go(r, "written")
    /\ UNCHANGED <<journalVars, call, fate, worldVars, unknowns>>

\* After the bookkeeping of a result the lease is renewed once more.
LeaseKept(r) ==
    /\ at[r] = "written" /\ ~Stopped(r)
    /\ Go(r, "next")
    /\ UNCHANGED <<journalVars, answerVars, call, fate, worldVars, unknowns>>

LeaseGone(r) == at[r] = "written" /\ Interrupt(r)

RenewalThrows(r) ==
    /\ at[r] = "written"
    /\ Go(r, "ending")
    /\ UNCHANGED <<journalVars, answerVars, call, fate, worldVars, unknowns>>

BatchIsTold(r) ==
    LET units == UnitsOf(r, {call[r]})
        unknown == \E u \in units : fate[u] = "unknown"
    IN /\ at[r] \in {"settling", "settling_stopped"}
       /\ Answer(r, {call[r]}, [u \in units |-> fate[u]])
       /\ unknowns' = IF unknown THEN unknowns + 1 ELSE unknowns
       /\ Go(r, IF unknown THEN "siblings"
                ELSE IF at[r] = "settling_stopped" THEN "interrupting" ELSE "next")
       /\ UNCHANGED <<journalVars, call, fate, worldVars>>

\* A limit is reached with this success: the other calls are let go.
DropRest(r) ==
    /\ at[r] = "next" /\ call[r] # 0 /\ left[r] # {}
    /\ \E u \in UnitsOf(r, {call[r]}) : told[u] # <<>> /\ told[u][1] \in {"result", "committed"}
    /\ LetGo(r, left[r], "dropped")
    /\ Go(r, "closing")
    /\ UNCHANGED <<journalVars, pending, call, fate, worldVars, unknowns>>

\* After an unknown outcome the other calls are answered one by one.
SiblingIsTold(r) ==
    /\ at[r] = "siblings"
    /\ \E k \in left[r] :
        /\ \A j \in left[r] : k <= j
        /\ Answer(r, {k}, Same(r, {k}, "not_attempted"))
    /\ UNCHANGED <<journalVars, at, call, fate, worldVars, unknowns>>

\* The visit goes on after the first unknown outcome, unless a stop caused it.
SiblingsAreTold(r) ==
    /\ at[r] = "siblings" /\ left[r] = {}
    /\ \/ unknowns < 2 /\ Go(r, "closing")
       \/ (stop \/ unknowns >= 2) /\ Go(r, "ending")
    /\ UNCHANGED <<journalVars, answerVars, call, fate, worldVars, unknowns>>

\* A response of which every call was let go leaves its text, or nothing.
EndOfCalls(r) ==
    /\ at[r] = "closing" \/ (at[r] = "next" /\ call[r] = Len(asked[r]))
    /\ Authority(r)
    /\ publication' = IF publication.calls = {} /\ ~publication.shown THEN NoPublication ELSE publication
    /\ Go(r, "between")
    /\ UNCHANGED <<journalVars, pending, told, left, call, fate, worldVars, unknowns>>

(***************************************************************************)
(* The end of a visit                                                      *)
(***************************************************************************)
VisitEnds(r) ==
    /\ at[r] = "between"
    /\ Go(r, "ending")
    /\ UNCHANGED <<journalVars, answerVars, call, fate, worldVars, unknowns>>

finalizeRun(r) ==
    /\ at[r] = "ending" /\ Authority(r)
    /\ Close
    /\ Over({r})
    /\ UNCHANGED <<asked, worldVars, unknowns, crashes>>

\* A stop request or the inactivity limit closes the visit from outside; the
\* recovery of a visit whose transition hung answers for it.
reconcileRunJournal ==
    /\ run # 0
    /\ Close
    /\ UNCHANGED <<asked, at, left, call, fate, worldVars, unknowns, crashes>>

AskStop ==
    /\ run # 0 /\ ~hung /\ ~stop
    /\ stop' = TRUE
    /\ UNCHANGED <<asked, run, hung, answerVars, at, call, fate, worldVars, unknowns, crashes>>

\* A transition beside the visit does not finish: the journal is closed, and
\* what the participant is told of it is left to the recovery.
abortHungTransition ==
    /\ run # 0 /\ ~hung
    /\ hung' = TRUE
    /\ UNCHANGED <<asked, run, stop, answerVars, at, call, fate, worldVars, unknowns, crashes>>

\* The loop of a closed visit ends with its next write.
Perish(r) ==
    /\ ~Authority(r) /\ at[r] \notin {"idle", "done"}
    /\ Over({r})
    /\ UNCHANGED <<journalVars, pending, publication, told, worldVars, unknowns>>

\* The object is reset: the loops are gone, what was sent is not.
Reset ==
    /\ \E r \in Responses : at[r] \notin {"idle", "done"}
    /\ Over({r \in Responses : at[r] # "idle"})
    /\ hashing' = {}
    /\ UNCHANGED <<asked, run, stop, hung, pending, publication, told, site, unknowns>>

\* After a hung transition the object resets itself, once its alarm is stored.
ResetsItself == hung /\ Reset /\ UNCHANGED crashes

Crash == crashes < MaxCrashes /\ crashes' = crashes + 1 /\ Reset

\* The responses of the model are used up.
Finished ==
    /\ run = 0 /\ \A r \in Responses : at[r] = "done"
    /\ UNCHANGED vars

LoopStep(r) ==
    \/ \E content \in Contents : Respond(r, content)
    \/ ResponseAccepted(r) \/ Interrupted(r)
    \/ StopBeforeCall(r) \/ DropCall(r) \/ MalformedCall(r) \/ BeginCall(r)
    \/ FailureIsTold(r) \/ FailureIsLost(r)
    \/ LeaseRenewed(r) \/ LeaseLost(r) \/ LeaseFails(r)
    \/ PreparationStops(r) \/ PreparationFails(r)
    \/ StartReading(r) \/ WriteNote(r) \/ CorrectCall(r) \/ PrepareRequest(r)
    \/ RequestFails(r) \/ Returned(r) \/ NextTarget(r)
    \/ CommittedIssue(r) \/ Refused(r) \/ OutcomeUnknown(r)
    \/ ReadFails(r) \/ ResultIsTold(r) \/ BatchIsTold(r)
    \/ LeaseKept(r) \/ LeaseGone(r) \/ RenewalThrows(r)
    \/ DropRest(r) \/ SiblingIsTold(r) \/ SiblingsAreTold(r) \/ EndOfCalls(r)
    \/ VisitEnds(r) \/ finalizeRun(r) \/ Perish(r)

RequestStep(u) ==
    \/ Dispatch(u) \/ StrayEnds(u) \/ DispatchStopped(u)
    \/ SiteExecutes(u, "performed") \/ SiteExecutes(u, "refused")

Next ==
    \/ \E r \in Responses : LoopStep(r)
    \/ \E u \in Units : RequestStep(u)
    \/ reconcileRunJournal \/ AskStop \/ abortHungTransition
    \/ ResetsItself \/ Crash \/ Finished

Spec == Init /\ [][Next]_vars

(***************************************************************************)
(* Properties                                                              *)
(***************************************************************************)
IsTrue(u, answer) ==
    /\ answer \in {"not_dispatched", "not_attempted", "dropped", "corrected"} => site[u] = "untouched"
    /\ answer = "refused" => site[u] \in {"untouched", "refused"}
    /\ answer \in {"result", "committed"} => site[u] = "performed" \/ asked[u[1]][u[2]] = "read"
    /\ answer = "interrupted" => asked[u[1]][u[2]] = "read"
    /\ answer = "unknown" => site[u] # "untouched" \/ asked[u[1]][u[2]] = "batch"

\* What a participant is told of a call is true then and ever after: a call it
\* is told was not sent is never sent, one it is told was refused is never
\* performed, and only a read is called interrupted.
AnswersAreTrue == \A u \in Units : \A n \in DOMAIN told[u] : IsTrue(u, told[u][n])

\* Every call is answered, once: by the loop before the next response is asked
\* for, or by the settlement that ends the visit over it.  A call that is not
\* answered stands in the stored publication, from which that settlement will
\* answer it, also after a hung transition and the reset that follows.
CallsAreAnswered ==
    /\ \A u \in Units : Len(told[u]) <= 1
    /\ \A r \in Responses : asked[r] # <<>> =>
        /\ \A u \in UnitsOf(r, DOMAIN asked[r]) :
            told[u] # <<>> \/ (publication.response = r /\ u[2] \in publication.calls)
        /\ ~InVisit(r) \/ at[r] = "between" => publication.response # r /\ pending.response # r

\* A post whose outcome the participant does not know, because nobody heard of
\* it or because its visit was lost, is not sent a second time.
NoBlindRepeat ==
    \A u, v \in Units :
        /\ u[1] < v[1] \/ (u[1] = v[1] /\ u[2] < v[2])
        /\ IsPost(u) /\ IsPost(v)
        /\ site[u] \in {"sent", "performed"} /\ site[v] # "untouched"
        => told[u] = <<"result">>
=============================================================================
