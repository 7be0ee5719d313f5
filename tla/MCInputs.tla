------------------------------ MODULE MCInputs ------------------------------
(***************************************************************************)
(* What a visit is told: spotlights, the activity of followed participants *)
(* and the outcomes of its own tool calls, on small instances.  They meet  *)
(* only in the visit, of which each module keeps its own steps, so that a  *)
(* behaviour here is a behaviour of one of them ("which") beside idle      *)
(* instances of the others.                                                *)
(***************************************************************************)
EXTENDS Integers, Sequences

CONSTANTS s1, s2, NoSpotlight, SpotlightFaults, FollowerFaults, MaxFollows,
          MaxSequence

VARIABLES which,
    request, row, injection, queue, asked, drains, slot, tails, maintenance,
    paused, told, dropped, expired, spotlightFaults,
    events, high, cursor, base, iterating, visit, journal, scan, ack,
    noticed, repeated, settled, follows, followerFaults,
    responses, run, stop, hung, pending, publication, at, call, left, fate, hashing,
    site, answers, unknowns, crashes

S == INSTANCE SpotlightDelivery WITH
        Spotlights <- {s1, s2}, Attempts <- {1, 2}, MaxTails <- 1,
        MaxFaults <- SpotlightFaults, faults <- spotlightFaults, visit <- slot

\* What is kept of a list is what SelectSeq selects.
ASSUME KeptSelects ==
    \A entries \in UNION {[1..n -> {s1, s2, NoSpotlight}] : n \in 0..4}, set \in SUBSET {s1, s2} :
        LET InSet(s) == s \in set IN S!Kept(entries, set) = SelectSeq(entries, InSet)

F == INSTANCE FollowerActivity WITH
        NumActors <- 2, RowsPerActor <- 2, ProbeLimit <- 1,
        ActorLimit <- 1, MaxFaults <- FollowerFaults,
        faults <- followerFaults

T == INSTANCE ToolOutcome WITH
        Contents <- {<<"post", "batch">>, <<"read", "post">>, <<"note">>, <<"post">>},
        NumResponses <- 2, BatchSize <- 2, MaxCrashes <- 1,
        asked <- responses, told <- answers

spotlightVars == <<request, row, injection, queue, asked, drains, slot, tails,
                   maintenance, paused, told, dropped, expired, spotlightFaults>>
activityVars == <<events, high, cursor, base, iterating, visit, journal, scan,
                  ack, noticed, repeated, settled, follows, followerFaults>>
toolVars == <<responses, run, stop, hung, pending, publication, at, call, left, fate,
              hashing, site, answers, unknowns, crashes>>
vars == <<which, spotlightVars, activityVars, toolVars>>

\* One spotlight that is asked for twice, or two spotlights.
SpotlightScenario ==
    \E made \in {{<<s1, 1>>, <<s1, 2>>}, {<<s1, 1>>, <<s2, 1>>}} :
        /\ {r \in S!Requests : request[r] = "idle"} = made
        /\ spotlightFaults = 0

\* Two follow rows and faults, or one follow row that comes and goes.
ActivityScenario ==
    \/ /\ \A a \in F!Actors : F!Followed(a)
       /\ followerFaults = 0 /\ follows = MaxFollows
    \/ /\ {a \in F!Actors : F!Followed(a)} = {1}
       /\ followerFaults = FollowerFaults /\ follows = 0

\* An idle component is in one of its initial states, and stays there.
NoSpotlights == spotlightFaults = SpotlightFaults /\ \A r \in S!Requests : request[r] = "done"
NoActivity ==
    /\ follows = MaxFollows /\ followerFaults = FollowerFaults
    /\ \A a \in F!Actors : ~F!Followed(a)

Init ==
    /\ S!Init /\ F!Init /\ T!Init
    /\ \/ which = "spotlights" /\ SpotlightScenario /\ NoActivity
       \/ which = "activity" /\ NoSpotlights /\ ActivityScenario
       \/ which = "tools" /\ NoSpotlights /\ NoActivity

\* After the first response, of several calls or one, the second is a post.  A
\* transition hangs before it arrives.
ToolScenario ==
    /\ responses'[2] \in {<<>>, <<"post">>}
    /\ hung' => responses'[2] = <<>>

Next ==
    \/ which = "spotlights" /\ S!Next /\ UNCHANGED <<which, activityVars, toolVars>>
    \/ which = "activity" /\ F!Next /\ UNCHANGED <<which, spotlightVars, toolVars>>
    \/ which = "tools" /\ T!Next /\ ToolScenario /\ UNCHANGED <<which, spotlightVars, activityVars>>

\* The fairness of each module, for the steps of the component that "which"
\* names: the idle one is owed none.
Spotlights == which = "spotlights"
Activity == which = "activity"

SpotlightFairness ==
    /\ WF_spotlightVars(Spotlights /\ S!Resume) /\ WF_spotlightVars(Spotlights /\ S!EndMaintenance)
    /\ WF_spotlightVars(Spotlights /\ S!VisitProgress)
    /\ WF_spotlightVars(Spotlights /\ S!BeginNormal) /\ WF_spotlightVars(Spotlights /\ S!StartDrain)
    /\ WF_spotlightVars(Spotlights /\ S!DrainQueued)
    /\ SF_spotlightVars(Spotlights /\ S!StartDrain /\ ~S!Busy)
    /\ SF_spotlightVars(Spotlights /\ S!DrainAdmitted)

ActivityFairness ==
    /\ \A k \in F!Slots : WF_activityVars(Activity /\ F!AckExecutes(k))
    /\ WF_activityVars(Activity /\ F!LateAckReturns) /\ WF_activityVars(Activity /\ F!VisitProgress)
    /\ WF_activityVars(Activity /\ \E setup \in F!Setups : F!StartVisit(setup))
    /\ WF_activityVars(Activity /\ F!VisitCompletes)
    /\ SF_activityVars(Activity /\ F!StartVisit("new_iteration"))
    /\ SF_activityVars(Activity /\ F!LogOff)
    /\ \A a \in F!Actors : SF_activityVars(Activity /\ F!IncludesAll(a))

Spec == Init /\ [][Next]_vars

\* Progress is asked of spotlights and of activity.
FairInit == Init /\ which # "tools"
FairSpec == FairInit /\ [][Next]_vars /\ SpotlightFairness /\ ActivityFairness

\* Without the owner's maintenance, which erases thoughts on purpose.
DeliverySpec == Init /\ which = "spotlights" /\ [][Next /\ ~maintenance']_vars

\* The type invariants of the three modules.
TypeOK == S!TypeOK /\ F!TypeOK /\ T!TypeOK

\* No visit is told one spotlight twice, however often it is asked for.
ToldOnce == S!ToldOnce

\* A spotlight that is recorded as delivered has been read, waits for a visit,
\* or was given up in a way the code names.
DeliveredIsAccounted == S!DeliveredIsAccounted

\* A deferred spotlight is read at the next completed visit.
DeferredIsNotStranded == S!DeferredIsNotStranded

\* What waits in the durable queue is tried again.
QueuedIsTried == S!QueuedIsTried

\* No event that stays in the table is passed over without a visit seeing it.
NeverSkipped == F!NeverSkipped

\* One acknowledgement is summarised to the participant once.
NoSecondSummary == F!NoSecondSummary

\* What the participant is told of a tool call stays true.
AnswersAreTrue == T!AnswersAreTrue

\* Each tool call is answered once, by the loop or by the settlement of its
\* visit, and stands in the stored publication until then.
CallsAreAnswered == T!CallsAreAnswered

\* A post whose outcome the participant does not know is not sent again.
NoBlindRepeat == T!NoBlindRepeat

\* Activity of a followed participant comes to the notice of a later visit.
ActivityIsCovered == F!ActivityIsCovered
=============================================================================
