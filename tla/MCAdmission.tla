---------------------------- MODULE MCAdmission ----------------------------
(***************************************************************************)
(* Instances of RunAdmission for TLC.                                      *)
(***************************************************************************)
EXTENDS VisitFenceRefinement, RunAdmissionInvariant

CONSTANTS lg, r1, r2, c1   \* lg has no journal; in Races lg and r2 are spotlight visits

\* Visits, and nothing else.
Calm(visits) ==
  [visits |-> visits, callers |-> {}, maint |-> {}, deletion |-> FALSE,
   time |-> TRUE, edits |-> 0, faults |-> 0, crashes |-> 0, hangs |-> 0]

\* Two visits; a call fails or is abandoned, the object is reset, by its own
\* limit or otherwise, and the participant is edited or deleted and cleared.
VisitLimits ==
  {[Calm({r1, r2}) EXCEPT !.crashes = 1],
   [Calm({r1, r2}) EXCEPT !.edits = 1, !.time = FALSE],
   [Calm({r1}) EXCEPT !.faults = 1, !.hangs = 1],
   [Calm({r1}) EXCEPT !.edits = 3, !.faults = 1, !.crashes = 1],
   [Calm({r1}) EXCEPT !.maint = {"clear_storage"}, !.deletion = TRUE, !.edits = 1, !.faults = 1]}

\* Requests beside visits and beside the run without a journal, and maintenance.
RequestsBeside ==
  {[Calm({r1, r2}) EXCEPT !.callers = {c1}, !.time = FALSE],
   [Calm({r1}) EXCEPT !.callers = {c1}, !.deletion = TRUE, !.edits = 1, !.time = FALSE],
   [Calm({r1}) EXCEPT !.callers = {c1}, !.faults = 1, !.time = FALSE],
   [Calm({lg, r1}) EXCEPT !.callers = {c1}],
   [Calm({lg, r1}) EXCEPT !.maint = {"clear_history"}, !.faults = 1],
   [Calm({lg}) EXCEPT !.callers = {c1}, !.maint = {"compact", "clear_history"},
                      !.deletion = TRUE, !.edits = 1, !.faults = 1]}

RaceLimits == VisitLimits \cup RequestsBeside

\* What is left behind by a visit whose code is gone; a stop request, with and
\* without the help of limits of time.
ProgressLimits ==
  {[Calm({lg, r1}) EXCEPT !.faults = 1, !.crashes = 1],
   [Calm({r1}) EXCEPT !.faults = 1, !.hangs = 1],
   [Calm({r1}) EXCEPT !.callers = {c1}, !.crashes = 1],
   [Calm({r1}) EXCEPT !.callers = {c1}, !.faults = 1, !.time = FALSE]}

\* A request beside a visit, with a hung transition.
HungLimits == {[Calm({r1}) EXCEPT !.callers = {c1}, !.hangs = 1]}

\* A request beside a visit.
RequestLimits == {[Calm({r1}) EXCEPT !.callers = {c1}]}

\* The participant is deleted during a visit.
DeletionLimits ==
  {[Calm({r1}) EXCEPT !.maint = {"clear_storage"}, !.deletion = TRUE, !.edits = 1]}
=============================================================================
