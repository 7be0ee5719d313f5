---------------------------- MODULE InputsProofs ----------------------------
(***************************************************************************)
(* What FollowerProofs, SpotlightProofs and ToolProofs show of every       *)
(* follower, of any spotlights and of any tool calls, for those that       *)
(* MCInputs composes: whichever component takes the steps, a behaviour is  *)
(* one of FollowerActivity, one of SpotlightDelivery and one of            *)
(* ToolOutcome.                                                            *)
(***************************************************************************)
EXTENDS MCInputs, TLAPS

P == INSTANCE FollowerProofs WITH
        NumActors <- 2, RowsPerActor <- 2, ProbeLimit <- 1,
        ActorLimit <- 1, MaxFaults <- FollowerFaults,
        faults <- followerFaults

Bounds == MaxSequence \in Nat /\ FollowerFaults \in Nat /\ MaxFollows \in Nat

\* The bounds are what the proofs need.
LEMMA BoundsSuffice == ASSUME Bounds PROVE P!Parameters
BY DEF Bounds, P!Parameters

(***************************************************************************)
(* P and F name the same follower: their definitions, expanded, are the    *)
(* same.                                                                   *)
(***************************************************************************)
\* The steps of the stream and of the follow rows are the same.
LEMMA SameStream == F!Stream => P!Stream
BY DEF F!Actors, P!Actors, F!NotFollowed, P!NotFollowed, F!Fault, P!Fault, F!streamVars,
     P!streamVars, F!followVars, P!followVars, F!localVars, P!localVars, F!historyVars,
     P!historyVars, F!Followed, P!Followed, F!Covered, P!Covered, F!Publish, P!Publish, F!Prune,
     P!Prune, F!Follow, P!Follow, F!Unfollow, P!Unfollow, F!Advanced, P!Advanced,
     F!Acknowledged, P!Acknowledged, F!Dismiss, P!Dismiss, F!Stream, P!Stream

\* The steps of acknowledgements are the same.
LEMMA SameAcknowledging == F!Acknowledging => P!Acknowledging
BY DEF F!Actors, P!Actors, F!NotFollowed, P!NotFollowed, F!Slots, P!Slots, F!NoAck, P!NoAck,
     F!Fault, P!Fault, F!streamVars, P!streamVars, F!followVars, P!followVars, F!localVars,
     P!localVars, F!historyVars, P!historyVars, F!Advanced, P!Advanced, F!Acknowledged,
     P!Acknowledged, F!AckExecutes, P!AckExecutes, F!AckFails, P!AckFails, F!JournalAfter,
     P!JournalAfter, F!LateAckReturns, P!LateAckReturns, F!Acknowledging, P!Acknowledging

\* The steps of the visit are the same.
LEMMA SameVisitStep == F!VisitStep => P!VisitStep
BY DEF F!Actors, P!Actors, F!NotFollowed, P!NotFollowed, F!Setups, P!Setups, F!NoSelection,
     P!NoSelection, F!NoVisit, P!NoVisit, F!NoAck, P!NoAck, F!Fault, P!Fault, F!streamVars,
     P!streamVars, F!followVars, P!followVars, F!localVars, P!localVars, F!historyVars,
     P!historyVars, F!Followed, P!Followed, F!Covered, P!Covered, F!AckOf, P!AckOf,
     F!JournalAfter, P!JournalAfter, F!Page, P!Page, F!Sequence, P!Sequence, F!Head, P!Head,
     F!Active, P!Active, F!Chosen, P!Chosen, F!Examined, P!Examined, F!NextAfter, P!NextAfter,
     F!Rows, P!Rows, F!Newest, P!Newest, F!Shown, P!Shown, F!Silent, P!Silent, F!ReceiptOf,
     P!ReceiptOf, F!InStage, P!InStage, F!Goto, P!Goto, F!StartVisit, P!StartVisit,
     F!AckReturns, P!AckReturns, F!ProbeFollows, P!ProbeFollows, F!ReadEvents, P!ReadEvents,
     F!CoveredBy, P!CoveredBy, F!Commit, P!Commit, F!CommitPlain, P!CommitPlain,
     F!Reacknowledge, P!Reacknowledge, F!LogOff, P!LogOff, F!Outliving, P!Outliving,
     F!VisitEnds, P!VisitEnds, F!VisitStep, P!VisitStep, F!Max, P!Max, F!Cardinality,
     P!Cardinality

\* Restarts and the erasing of the history are the same.
LEMMA SameRestarts == F!Restart \/ F!BeginErase \/ F!EraseEnds => P!Restart \/ P!BeginErase \/ P!EraseEnds
BY DEF F!NoSelection, P!NoSelection, F!NoVisit, P!NoVisit, F!Slots, P!Slots, F!NoAck, P!NoAck,
     F!Fault, P!Fault, F!streamVars, P!streamVars, F!followVars, P!followVars, F!localVars,
     P!localVars, F!historyVars, P!historyVars, F!AckOf, P!AckOf, F!InStage, P!InStage,
     F!Restart, P!Restart, F!BeginErase, P!BeginErase, F!EraseEnds, P!EraseEnds

\* A behaviour of the composition is one of the follower, which stutters while
\* spotlights or tool calls are looked at.
LEMMA FollowersTakeTheirSteps == Spec => P!Spec
<1>1. Init => P!Init
  BY DEF Init, F!Actors, P!Actors, F!NotFollowed, P!NotFollowed, F!NoSelection, P!NoSelection, F!NoVisit,
     P!NoVisit, F!Slots, P!Slots, F!NoAck, P!NoAck, F!Init, P!Init
<1>2. [Next]_vars => [P!Next]_P!vars
  <2>1. F!Next => P!Next
    BY SameStream, SameAcknowledging, SameVisitStep, SameRestarts DEF F!Next, P!Next
  <2> QED
    BY <2>1 DEF Next, vars, activityVars, P!vars
<1> QED
  BY <1>1, <1>2, PTL DEF Spec, P!Spec

\* One acknowledgement is summarised to the participant once.
THEOREM InputsAreNotRepeated == ASSUME Bounds PROVE Spec => []NoSecondSummary
<1>1. P!Spec => []P!NoSecondSummary
  BY BoundsSuffice, P!SummariesAreSingle
<1> QED
  BY <1>1, FollowersTakeTheirSteps, PTL DEF NoSecondSummary, F!NoSecondSummary, P!NoSecondSummary

\* No event that stays in the table is passed over without a visit seeing it.
THEOREM InputsAreNotSkipped == ASSUME Bounds PROVE Spec => []NeverSkipped
<1>1. P!Spec => []P!NeverSkipped
  BY BoundsSuffice, P!CursorsSkipNothing
<1> QED
  BY <1>1, FollowersTakeTheirSteps, PTL DEF NeverSkipped, F!NeverSkipped, P!NeverSkipped,
     F!Followed, P!Followed, F!NotFollowed, P!NotFollowed

(***************************************************************************)
(* The same of the spotlights.                                             *)
(***************************************************************************)
Q == INSTANCE SpotlightProofs WITH
        Spotlights <- {s1, s2}, Attempts <- {1, 2}, MaxTails <- 1,
        MaxFaults <- SpotlightFaults, faults <- spotlightFaults, visit <- slot

SpotlightBounds == NoSpotlight \notin {s1, s2} /\ SpotlightFaults \in Nat

\* What is kept of a list is the same.
LEMMA SameKept == \A entries, set : S!Kept(entries, set) = Q!Kept(entries, set)
BY DEF S!Kept, Q!Kept, S!Cardinality, Q!Cardinality

\* The steps of senders are the same.
LEMMA SameSender == ASSUME NEW r, S!SenderStep(r) PROVE Q!SenderStep(r)
BY DEF S!Spotlight, Q!Spotlight, S!CompletedStatuses, Q!CompletedStatuses, S!Queued, Q!Queued,
     S!Fault, Q!Fault, S!queueVars, Q!queueVars, S!stateVars, Q!stateVars, S!Regained,
     Q!Regained, S!Advance, Q!Advance, S!Appended, Q!Appended, S!Send, Q!Send, S!SkipPaused,
     Q!SkipPaused, S!Injected, Q!Injected, S!Inject, Q!Inject, S!InjectUnanswered,
     Q!InjectUnanswered, S!RecordUnconfirmed, Q!RecordUnconfirmed, S!SenderEnds, Q!SenderEnds,
     S!StartDeferred, Q!StartDeferred, S!StartNow, Q!StartNow, S!StartUnanswered,
     Q!StartUnanswered, S!Outcome, Q!Outcome, S!RecordOutcome, Q!RecordOutcome, S!SenderStep,
     Q!SenderStep

\* The steps of admissions are the same.
LEMMA SameAdmission == ASSUME NEW r, S!AdmissionStep(r) PROVE Q!AdmissionStep(r)
BY DEF S!Spotlight, Q!Spotlight, S!Busy, Q!Busy, S!Queued, Q!Queued, S!Fault, Q!Fault,
     S!queueVars, Q!queueVars, S!stateVars, Q!stateVars, S!Appended, Q!Appended, S!Answer,
     Q!Answer, S!Admitted, Q!Admitted, S!AskAdmitted, Q!AskAdmitted, S!AskQueued, Q!AskQueued,
     S!AskRefused, Q!AskRefused, S!AdmissionStep, Q!AdmissionStep

\* The steps of drains are the same.
LEMMA SameDrain == S!StartDrain \/ S!DrainStep => Q!StartDrain \/ Q!DrainStep
BY SameKept
   DEF S!Busy, Q!Busy, S!Queued, Q!Queued, S!Fault, Q!Fault, S!stateVars, Q!stateVars,
     S!Appended, Q!Appended, S!Prepended, Q!Prepended, S!Waiting, Q!Waiting, S!Admitted, Q!Admitted,
     S!StartDrain, Q!StartDrain, S!DrainAdmitted, Q!DrainAdmitted, S!DrainQueued, Q!DrainQueued,
     S!Requeued, Q!Requeued, S!DrainRequeued, Q!DrainRequeued, S!DrainDropped, Q!DrainDropped,
     S!DrainStep, Q!DrainStep

\* The steps of the visit are the same.
LEMMA SameReading == S!BeginNormal \/ S!VisitStep => Q!BeginNormal \/ Q!VisitStep
BY SameKept
   DEF S!NoVisit, Q!NoVisit, S!Busy, Q!Busy, S!Visiting, Q!Visiting, S!Fault, Q!Fault,
     S!queueVars, Q!queueVars, S!stateVars, Q!stateVars, S!Prepended, Q!Prepended, S!Admitted,
     Q!Admitted, S!BeginNormal, Q!BeginNormal, S!VisitThrowsEarly, Q!VisitThrowsEarly,
     S!DeadReaped, Q!DeadReaped, S!VisitReads, Q!VisitReads, S!VisitPublishes, Q!VisitPublishes,
     S!VisitRefused, Q!VisitRefused, S!TailsAfter, Q!TailsAfter, S!VisitCompletes,
     Q!VisitCompletes, S!VisitEnds, Q!VisitEnds, S!VisitStep, Q!VisitStep

\* Pauses, maintenance, retention and restarts are the same.
LEMMA SameSurroundings == S!Surroundings => Q!Surroundings
BY SameKept
   DEF S!Requests, Q!Requests, S!Spotlight, Q!Spotlight, S!NoVisit, Q!NoVisit, S!Busy, Q!Busy,
     S!Draining, Q!Draining, S!Visiting, Q!Visiting, S!Asking, Q!Asking, S!Fault, Q!Fault,
     S!queueVars, Q!queueVars, S!Pause, Q!Pause, S!Resume, Q!Resume, S!BeginMaintenance,
     Q!BeginMaintenance, S!EraseHistory, Q!EraseHistory, S!EndMaintenance, Q!EndMaintenance,
     S!Expire, Q!Expire, S!Restart, Q!Restart, S!Surroundings, Q!Surroundings

\* A behaviour of the composition is one of the spotlights.
LEMMA SpotlightsTakeTheirSteps == Spec => Q!Spec
<1>1. Init => Q!Init
  BY DEF Init, S!Requests, Q!Requests, S!NoVisit, Q!NoVisit, S!Init, Q!Init
<1>2. [Next]_vars => [Q!Next]_Q!vars
  <2>1. S!Next => Q!Next
    <3>1. S!Requests = Q!Requests
      BY DEF S!Requests, Q!Requests
    <3> QED
      BY <3>1, SameSender, SameAdmission, SameDrain, SameReading, SameSurroundings DEF S!Next, Q!Next
  <2> QED
    BY <2>1 DEF Next, vars, spotlightVars, Q!vars
<1> QED
  BY <1>1, <1>2, PTL DEF Spec, Q!Spec

\* A spotlight's thought is told once, however often it is asked for.
THEOREM SpotlightsAreToldOnce == ASSUME SpotlightBounds PROVE Spec => []ToldOnce
<1>1. Q!Spec => []Q!ToldOnce
  BY Q!ThoughtsAreToldOnce DEF SpotlightBounds, Q!Parameters
<1> QED
  BY <1>1, SpotlightsTakeTheirSteps, PTL DEF ToldOnce, S!ToldOnce, Q!ToldOnce

\* A spotlight recorded as delivered was read, is owed a visit or was let go.
THEOREM SpotlightsAreAccounted == ASSUME SpotlightBounds PROVE Spec => []DeliveredIsAccounted
<1>1. Q!Spec => []Q!DeliveredIsAccounted
  BY Q!DeliveriesAreAccounted DEF SpotlightBounds, Q!Parameters
<1> QED
  BY <1>1, SpotlightsTakeTheirSteps, PTL
     DEF DeliveredIsAccounted, S!DeliveredIsAccounted, Q!DeliveredIsAccounted, S!Owed, Q!Owed,
     S!Spotlight, Q!Spotlight, S!CompletedStatuses, Q!CompletedStatuses, S!Queued, Q!Queued,
     S!Draining, Q!Draining, S!Visiting, Q!Visiting, S!Asking, Q!Asking

(***************************************************************************)
(* The same of the tool calls.                                             *)
(***************************************************************************)
R == INSTANCE ToolProofs WITH
        Contents <- {<<"post", "batch">>, <<"read", "post">>, <<"note">>, <<"post">>},
        NumResponses <- 2, BatchSize <- 2, MaxCrashes <- 1,
        asked <- responses, told <- answers

\* The responses of the composition are what the proofs need.
LEMMA ContentsSuffice == R!Parameters
BY DEF R!Parameters, R!Effects

\* The steps of the loop over a response's calls are the same.
LEMMA SameLoop == ASSUME NEW r, T!LoopStep(r) PROVE R!LoopStep(r)
BY DEF T!Responses, R!Responses, T!Positions, R!Positions, T!Units, R!Units, T!NoCall,
     R!NoCall, T!NoPublication, R!NoPublication, T!journalVars, R!journalVars, T!answerVars,
     R!answerVars, T!worldVars, R!worldVars, T!Go, R!Go, T!Over, R!Over, T!InVisit, R!InVisit, T!Authority,
     R!Authority, T!Stopped, R!Stopped, T!Effect, R!Effect, T!IsPost, R!IsPost, T!Targets,
     R!Targets, T!UnitsOf, R!UnitsOf, T!Current, R!Current, T!Told, R!Told, T!Same, R!Same,
     T!Completed, R!Completed, T!Answer, R!Answer, T!LetGo, R!LetGo,
     T!interruptedToolSettlement, R!interruptedToolSettlement, T!Settlements, R!Settlements,
     T!Interrupt, R!Interrupt, T!Settle, R!Settle, T!Close, R!Close, T!Respond, R!Respond,
     T!ResponseAccepted, R!ResponseAccepted, T!Interrupted, R!Interrupted, T!MoreCalls,
     R!MoreCalls, T!StopBeforeCall, R!StopBeforeCall, T!DropCall, R!DropCall,
     T!MalformedCall, R!MalformedCall, T!BeginCall, R!BeginCall, T!Fails, R!Fails,
     T!FailureAwaitsIdentity, R!FailureAwaitsIdentity, T!FailureIsTold, R!FailureIsTold,
     T!FailureIsLost, R!FailureIsLost, T!LeaseRenewed, R!LeaseRenewed, T!LeaseLost,
     R!LeaseLost, T!LeaseFails, R!LeaseFails, T!PreparationStops, R!PreparationStops,
     T!PreparationFails, R!PreparationFails, T!Mark, R!Mark, T!StartReading, R!StartReading,
     T!WriteNote, R!WriteNote, T!EarlierUnresolved, R!EarlierUnresolved, T!CorrectCall,
     R!CorrectCall, T!PrepareRequest, R!PrepareRequest, T!BatchBreaks, R!BatchBreaks,
     T!RequestFails, R!RequestFails, T!Returned, R!Returned, T!NextTarget, R!NextTarget,
     T!CommittedIssue, R!CommittedIssue, T!Refused, R!Refused, T!OutcomeUnknown,
     R!OutcomeUnknown, T!ReadFails, R!ReadFails, T!ResultIsTold, R!ResultIsTold,
     T!LeaseKept, R!LeaseKept, T!LeaseGone, R!LeaseGone, T!RenewalThrows, R!RenewalThrows,
     T!BatchIsTold, R!BatchIsTold, T!DropRest, R!DropRest, T!SiblingIsTold, R!SiblingIsTold,
     T!SiblingsAreTold, R!SiblingsAreTold, T!EndOfCalls, R!EndOfCalls, T!VisitEnds,
     R!VisitEnds, T!finalizeRun, R!finalizeRun, T!Perish, R!Perish, T!LoopStep, R!LoopStep,
     T!Cardinality, R!Cardinality

\* The steps of requests are the same.
LEMMA SameRequest == ASSUME NEW u, T!RequestStep(u) PROVE R!RequestStep(u)
BY DEF T!Responses, R!Responses, T!Positions, R!Positions, T!Units, R!Units, T!NoCall,
     R!NoCall, T!NoPublication, R!NoPublication, T!journalVars, R!journalVars, T!answerVars,
     R!answerVars, T!Go, R!Go, T!InVisit, R!InVisit, T!Authority, R!Authority, T!Stopped, R!Stopped, T!Effect,
     R!Effect, T!Targets, R!Targets, T!UnitsOf, R!UnitsOf, T!Current, R!Current, T!Told,
     R!Told, T!Completed, R!Completed, T!Answer, R!Answer, T!interruptedToolSettlement,
     R!interruptedToolSettlement, T!Settlements, R!Settlements, T!Mark, R!Mark, T!Awaited,
     R!Awaited, T!MayDispatch, R!MayDispatch, T!Dispatch, R!Dispatch, T!StrayEnds,
     R!StrayEnds, T!BatchBreaks, R!BatchBreaks, T!DispatchStopped, R!DispatchStopped,
     T!SiteExecutes, R!SiteExecutes, T!RequestStep, R!RequestStep, T!Cardinality,
     R!Cardinality

\* Stops, resets and what closes a visit from outside are the same.
LEMMA SameClosing ==
    \/ T!reconcileRunJournal \/ T!AskStop \/ T!abortHungTransition
    \/ T!ResetsItself \/ T!Crash \/ T!Finished
    => \/ R!reconcileRunJournal \/ R!AskStop \/ R!abortHungTransition
       \/ R!ResetsItself \/ R!Crash \/ R!Finished
BY DEF T!Responses, R!Responses, T!Positions, R!Positions, T!Units, R!Units, T!vars, R!vars,
     T!NoCall, R!NoCall, T!NoPublication, R!NoPublication, T!answerVars, R!answerVars,
     T!worldVars, R!worldVars, T!Over, R!Over, T!Targets, R!Targets, T!UnitsOf, R!UnitsOf,
     T!Told, R!Told, T!interruptedToolSettlement, R!interruptedToolSettlement,
     T!Settlements, R!Settlements, T!Settle, R!Settle, T!Close, R!Close,
     T!reconcileRunJournal, R!reconcileRunJournal, T!AskStop, R!AskStop,
     T!abortHungTransition, R!abortHungTransition, T!Reset, R!Reset, T!ResetsItself,
     R!ResetsItself, T!Crash, R!Crash,
     T!Finished, R!Finished

\* A behaviour of the composition is one of the tool calls.
LEMMA ToolsTakeTheirSteps == Spec => R!Spec
<1>1. Init => R!Init
  BY DEF Init, T!Responses, R!Responses, T!Positions, R!Positions, T!Units, R!Units, T!NoCall,
     R!NoCall, T!NoPublication, R!NoPublication, T!Init, R!Init
<1>2. [Next]_vars => [R!Next]_R!vars
  <2>1. T!Next => R!Next
    <3>1. T!Responses = R!Responses /\ T!Units = R!Units
      BY DEF T!Responses, R!Responses, T!Positions, R!Positions, T!Units, R!Units
    <3> QED
      BY <3>1, SameLoop, SameRequest, SameClosing DEF T!Next, R!Next
  <2> QED
    BY <2>1 DEF Next, vars, toolVars, R!vars
<1> QED
  BY <1>1, <1>2, PTL DEF Spec, R!Spec

\* What the participant is told of a tool call stays true.
THEOREM InputsAnswersAreTrue == Spec => []AnswersAreTrue
<1>1. R!Spec => []R!AnswersAreTrue
  BY ContentsSuffice, R!AnswersStayTrue
<1>2. R!AnswersAreTrue => AnswersAreTrue
  BY DEF AnswersAreTrue, T!Responses, R!Responses, T!Positions, R!Positions, T!Units, R!Units, T!IsTrue,
     R!IsTrue, T!AnswersAreTrue, R!AnswersAreTrue
<1> QED
  BY <1>1, <1>2, ToolsTakeTheirSteps, PTL

\* Each tool call is answered once, and stands in the publication until then.
THEOREM InputsCallsAreAnswered == Spec => []CallsAreAnswered
<1>1. R!Spec => []R!CallsAreAnswered
  BY ContentsSuffice, R!EveryCallIsAnswered
<1>2. R!CallsAreAnswered => CallsAreAnswered
  BY DEF CallsAreAnswered, T!Responses, R!Responses, T!Positions, R!Positions, T!Units, R!Units,
     T!InVisit, R!InVisit, T!Authority,
     R!Authority, T!Targets, R!Targets, T!UnitsOf, R!UnitsOf, T!CallsAreAnswered,
     R!CallsAreAnswered
<1> QED
  BY <1>1, <1>2, ToolsTakeTheirSteps, PTL

\* A post whose outcome the participant does not know is not sent again.
THEOREM InputsPostsAreNotRepeated == Spec => []NoBlindRepeat
<1>1. R!Spec => []R!NoBlindRepeat
  BY ContentsSuffice, R!NoRepeat
<1>2. R!NoBlindRepeat => NoBlindRepeat
  BY DEF NoBlindRepeat, T!Responses, R!Responses, T!Positions, R!Positions, T!Units, R!Units, T!IsPost,
     R!IsPost, T!NoBlindRepeat, R!NoBlindRepeat
<1> QED
  BY <1>1, <1>2, ToolsTakeTheirSteps, PTL

\* The variables of the three components keep their types.
THEOREM InputsTypeCorrect == ASSUME Bounds, SpotlightBounds PROVE Spec => []TypeOK
<1>1. P!Spec => []P!TypeOK
  BY BoundsSuffice, P!TypeCorrect
<1>2. Q!Spec => []Q!TypeOK
  BY Q!TypeCorrect DEF SpotlightBounds, Q!Parameters
<1>3. R!Spec => []R!TypeOK
  BY ContentsSuffice, R!TypeCorrect
<1>4. P!TypeOK => F!TypeOK
  BY DEF F!Actors, P!Actors, F!NotFollowed, P!NotFollowed, F!Sequences, P!Sequences, F!Receipts,
     P!Receipts, F!Events, P!Events, F!VisitStages, P!VisitStages, F!Setups, P!Setups,
     F!Slots, P!Slots, F!Selections, P!Selections, F!TypeOK, P!TypeOK
<1>5. Q!TypeOK => S!TypeOK
  BY DEF S!Requests, Q!Requests, S!RequestStages, Q!RequestStages, S!RowStates, Q!RowStates,
     S!VisitStages, Q!VisitStages, S!TypeOK, Q!TypeOK
<1>6. R!TypeOK => T!TypeOK
  BY DEF T!Responses, R!Responses, T!Positions, R!Positions, T!Units, R!Units, T!Stages,
     R!Stages, T!Steps, R!Steps, T!Fates, R!Fates, T!Answers, R!Answers, T!TypeOK, R!TypeOK
<1>7. P!TypeOK /\ Q!TypeOK /\ R!TypeOK => TypeOK
  BY <1>4, <1>5, <1>6 DEF TypeOK
<1> QED
  BY <1>1, <1>2, <1>3, <1>7, FollowersTakeTheirSteps, SpotlightsTakeTheirSteps,
     ToolsTakeTheirSteps, PTL
=============================================================================
