--------------------------- MODULE ToolInvariant ---------------------------
(***************************************************************************)
(* The inductive invariant behind AnswersAreTrue, CallsAreAnswered and     *)
(* NoBlindRepeat: the response's publication names the calls that are not  *)
(* answered, the recorded stage of the pending call says what the website  *)
(* may have been sent for them, and each await of the loop knows where in  *)
(* the response it is.                                                     *)
(***************************************************************************)
EXTENDS ToolOutcome

\* What the proofs need of the constants.
Parameters ==
    /\ Contents \subseteq Seq(Effects) \ {<<>>}
    /\ NumResponses \in Nat /\ BatchSize \in Nat \ {0} /\ MaxCrashes \in Nat

Arrived(r) == asked[r] # <<>>
Latest(r) == Arrived(r) /\ \A q \in Responses : q > r => ~Arrived(q)

\* The calls of the response that are not answered.
Open(r) == IF publication.response = r THEN publication.calls ELSE {}
After(r, k) == {j \in DOMAIN asked[r] : j > k}
AsksFor(u) == u[2] \in DOMAIN asked[u[1]] /\ u[3] \in Targets(u[1], u[2])

ToldShape == told \in [Units -> {<<>>} \cup {<<a>> : a \in Answers}]

\* Responses arrive one after the other, and only their calls leave a trace.
ArrivalShape ==
    /\ run # 0 => Arrived(run)
    /\ \A r \in Responses :
        /\ Arrived(r) => \A q \in 1..(r - 1) : Arrived(q)
        /\ at[r] = "idle" <=> ~Arrived(r)
        /\ call[r] \in 0..Len(asked[r])
    /\ \A u \in Units :
        /\ told[u] # <<>> \/ site[u] # "untouched" => AsksFor(u)
        /\ fate[u] # "none" => u[2] <= call[u[1]]

\* What is published or pending is of the visit's latest response.
PublicationShape ==
    /\ publication # NoPublication =>
        /\ publication.response \in Responses
        /\ InVisit(publication.response) /\ Latest(publication.response)
        /\ publication.calls \subseteq DOMAIN asked[publication.response]
        /\ publication.calls = {} => ~publication.shown
    /\ pending # NoCall =>
        /\ pending.response \in Responses /\ pending.response = publication.response
        /\ pending.call \in publication.calls

\* A call is unanswered while it is in the publication, and only then.
AnsweredShape == \A u \in Units : AsksFor(u) => (told[u] = <<>> <=> u[2] \in Open(u[1]))

\* The stage of the pending call speaks for what was sent: of a prepared one,
\* and of any other unanswered call, nothing was.
SpokenFor(u, stage) ==
    /\ stage = "prepared" => site[u] = "untouched"
    /\ stage = "reading" => asked[u[1]][u[2]] = "read"
    /\ stage = "dispatched" => site[u] # "untouched" \/ asked[u[1]][u[2]] = "batch"
StageOf(u) ==
    IF pending.response = u[1] /\ pending.call = u[2] THEN pending.stage ELSE "prepared"
JournalShape ==
    \A u \in Units : AsksFor(u) /\ u[2] \in Open(u[1]) => SpokenFor(u, StageOf(u))

(***************************************************************************)
(* The loop of the visit                                                   *)
(***************************************************************************)
Working(r) == InVisit(r) /\ at[r] \notin {"idle", "done"}

\* Between two calls; at one of them, before it is answered.
RestSteps == {"received", "interrupting", "next", "written"}
CallSteps == {"renewing", "preparing", "hashing", "waiting", "rendering", "settling",
              "settling_stopped", "failing"}

Unit(r, i) == <<r, call[r], i>>

\* The loop is at the n-th target: those before it are done.
TargetShape(r, n) ==
    /\ Effect(r) = "batch" \/ (Effect(r) = "post" /\ n = 1)
    /\ \A i \in 1..BatchSize :
        /\ fate[Unit(r, i)] = IF i < n THEN "result" ELSE "none"
        /\ i < n => site[Unit(r, i)] = "performed"
        /\ i > n => site[Unit(r, i)] = "untouched"
    /\ at[r] = "hashing" => /\ site[Unit(r, n)] = "untouched"
                            /\ Effect(r) = "post" => ~EarlierUnresolved
    /\ at[r] = "waiting" => site[Unit(r, n)] # "untouched"

\* An outcome that is known of a target is what became of it.
FateShape(u) ==
    /\ fate[u] # "none"
    /\ fate[u] \in {"result", "committed"} => site[u] = "performed"
    /\ fate[u] = "refused" => site[u] \in {"untouched", "refused"}
    /\ fate[u] = "not_attempted" => site[u] = "untouched"

OpenShape(r) ==
    /\ at[r] \in RestSteps => Open(r) = After(r, call[r])
    /\ at[r] \in CallSteps => call[r] # 0 /\ Open(r) = After(r, call[r] - 1)
    /\ at[r] = "closing" => Open(r) = {}
    /\ at[r] = "between" => publication.response # r
    /\ at[r] \in (RestSteps \cup CallSteps \cup {"siblings", "closing"}) \ {"failing"} =>
        left[r] = Open(r)
    /\ at[r] = "failing" => left[r] = Open(r) \ {call[r]}

PendingShape(r) ==
    /\ at[r] \in RestSteps \cup {"renewing", "siblings", "closing"} => pending = NoCall
    /\ at[r] \in CallSteps \ {"renewing"} => pending.response = r /\ pending.call = call[r]
    /\ at[r] = "preparing" => pending.stage = "prepared"

CallShape(r) ==
    /\ at[r] \in {"renewing", "preparing"} => \A i \in 1..BatchSize : fate[Unit(r, i)] = "none"
    /\ at[r] \in {"hashing", "waiting"} => \E n \in 1..BatchSize : TargetShape(r, n)
    /\ at[r] = "rendering" => \A i \in Targets(r, call[r]) :
        site[Unit(r, i)] = IF Effect(r) = "read" THEN "untouched" ELSE "performed"
    /\ at[r] \in {"settling", "settling_stopped"} =>
        Effect(r) = "batch" /\ \A i \in 1..BatchSize : FateShape(Unit(r, i))
    /\ at[r] = "failing" => Effect(r) = "post" /\ site[Unit(r, 1)] = "refused"

LoopShape(r) ==
    /\ Latest(r)
    /\ at[r] \notin {"siblings", "ending"} => unknowns <= 1
    /\ OpenShape(r) /\ PendingShape(r) /\ CallShape(r)

JournalInvariant ==
    /\ TypeOK /\ ToldShape /\ ArrivalShape /\ PublicationShape /\ AnsweredShape /\ JournalShape
    /\ AnswersAreTrue /\ NoBlindRepeat

ToolInvariant == JournalInvariant /\ \A r \in Responses : Working(r) => LoopShape(r)
=============================================================================
