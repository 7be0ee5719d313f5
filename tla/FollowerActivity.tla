-------------------------- MODULE FollowerActivity --------------------------
(***************************************************************************)
(* How the activity of followed participants reaches one follower: the     *)
(* published sequence, the follow rows with their delivery cursors, the    *)
(* selection a visit makes, the receipts it commits with its messages, and *)
(* the acknowledgement in D1 that the visit, or a later one, makes good.   *)
(*                                                                         *)
(* The visit slot is single, which RunAdmission establishes, but a stopped *)
(* visit's acknowledgement, and the bounded one after a visit, go on       *)
(* beside the next visit.  A sequence number stands for an event.          *)
(*                                                                         *)
(* Participants, owners and worlds of the model stay active: what the      *)
(* queries pass over because one of them is not is left out.               *)
(***************************************************************************)
EXTENDS Integers, FiniteSets, FiniteSetsExt

CONSTANTS
    NumActors,      \* participants it may follow, in the order of their ids
    MaxSequence,    \* bound on published events
    RowsPerActor,   \* events read per actor: one more than a notice shows
    ProbeLimit,     \* follow rows examined by one selection
    ActorLimit,     \* actors one selection reads
    MaxFaults,      \* bound on faults in a behaviour
    MaxFollows      \* bound on follow and unfollow operations

Actors == 1..NumActors

VARIABLES
    events,         \* published events that retention has kept
    high,           \* sqlite_sequence: the highest number ever published
    cursor,         \* follows.activity_delivered_sequence, NotFollowed without a row
    base,           \* (history) the cursor a follow row was inserted with
    iterating,      \* an input was committed since the last log-off
    visit,          \* the visit slot
    journal,        \* receipts in follower_activity_receipts_v1; {} without a key
    scan,           \* follower_activity_scan_after_v1, 0 at the start
    ack,            \* acknowledgements under way, per slot
    noticed,        \* (history) events a committed notice covered
    repeated,       \* (history) events a second committed notice covered
    settled,        \* (history) events covered without a notice, or dismissed
    follows,        \* (bound) follow operations so far
    faults          \* (bound) faults so far

vars == <<events, high, cursor, base, iterating, visit, journal, scan, ack,
          noticed, repeated, settled, follows, faults>>

NotFollowed == -1
Sequences == 1..MaxSequence

\* A receipt covers the actor's events after "from" up to "through".
Receipts == [actor : Actors, from : 0..MaxSequence, through : Sequences]
\* A direct event has its own notification for the follower, or is no longer
\* available: the notice does not repeat it.
Events == [sequence : Sequences, actor : Actors, direct : BOOLEAN]

VisitStages == {"none", "starting", "acking", "unsettled", "ready", "probed",
                "selected", "committed", "reacking", "running", "erasing"}
Setups == {"new_iteration", "continuation", "spotlight"}
NoSelection == [probes |-> {}, notices |-> {}, silent |-> {}, next |-> 0]
NoVisit == [stage |-> "none", setup |-> "spotlight", selection |-> NoSelection]

\* The acknowledgement of the live visit or maintenance, and one that outlived
\* its visit.
Slots == {"visit", "late"}
NoAck == [saved |-> {}, answer |-> "none", live |-> TRUE]

Selections == [probes : SUBSET [actor : Actors, cursor : 0..MaxSequence, head : Sequences],
               notices : SUBSET Receipts, silent : SUBSET Receipts, next : 0..NumActors]

TypeOK ==
    /\ events \subseteq Events
    /\ high \in 0..MaxSequence
    /\ cursor \in [Actors -> {NotFollowed} \cup 0..MaxSequence]
    /\ base \in [Actors -> 0..MaxSequence]
    /\ iterating \in BOOLEAN
    /\ visit \in [stage : VisitStages, setup : Setups, selection : Selections]
    /\ journal \subseteq Receipts
    /\ scan \in 0..NumActors
    /\ ack \in [Slots -> [saved : SUBSET Receipts, live : BOOLEAN,
                          answer : {"none", "waiting", "done", "failed"}]]
    /\ noticed \subseteq Sequences /\ repeated \subseteq Sequences /\ settled \subseteq Sequences
    /\ follows \in Nat /\ faults \in Nat

\* A behaviour may start with follow rows that have nothing to deliver, and with
\* less room left in the bounds.
Init ==
    /\ events = {} /\ high = 0
    /\ cursor \in [Actors -> {NotFollowed, 0}]
    /\ base = [a \in Actors |-> 0]
    /\ iterating = FALSE
    /\ visit = NoVisit
    /\ journal = {} /\ scan = 0
    /\ ack = [k \in Slots |-> NoAck]
    /\ noticed = {} /\ repeated = {} /\ settled = {}
    /\ follows \in 0..MaxFollows /\ faults \in 0..MaxFaults

Fault == faults < MaxFaults /\ faults' = faults + 1

streamVars == <<events, high>>
followVars == <<cursor, base>>
localVars == <<iterating, journal, scan>>
historyVars == <<noticed, repeated>>

Followed(a) == cursor[a] # NotFollowed

\* Events of the actor after "from" up to "through" that retention has kept.
Covered(a, from, through) ==
    {e.sequence : e \in {f \in events : f.actor = a /\ f.sequence > from /\ f.sequence <= through}}

(***************************************************************************)
(* The stream and the follow rows                                          *)
(***************************************************************************)
Publish(a, direct) ==
    /\ high < MaxSequence
    /\ high' = high + 1
    /\ events' = events \cup {[sequence |-> high + 1, actor |-> a, direct |-> direct]}
    /\ UNCHANGED <<followVars, visit, localVars, ack, historyVars, settled, follows, faults>>

\* Retention deletes an event that is too old or whose content is gone.
Prune(e) ==
    /\ e \in events /\ Fault
    /\ events' = events \ {e}
    /\ UNCHANGED <<high, followVars, visit, localVars, ack, historyVars, settled, follows>>

\* The trigger on follows starts the cursor at the published high water, so a
\* new follower is not told of what came before.
Follow(a) ==
    /\ ~Followed(a) /\ follows < MaxFollows /\ follows' = follows + 1
    /\ cursor' = [cursor EXCEPT ![a] = high]
    /\ base' = [base EXCEPT ![a] = high]
    /\ UNCHANGED <<streamVars, visit, localVars, ack, historyVars, settled, faults>>

Unfollow(a) ==
    /\ Followed(a) /\ follows < MaxFollows /\ follows' = follows + 1
    /\ cursor' = [cursor EXCEPT ![a] = NotFollowed]
    /\ UNCHANGED <<streamVars, base, visit, localVars, ack, historyVars, settled, faults>>

\* The acknowledging UPDATE: only forward, only a row that exists, and not past
\* what is published.
Advanced(c, r) == IF c # NotFollowed /\ c < r.through /\ r.through <= high THEN r.through ELSE c

\* The batch of one list of receipts (a list names an actor once).
Acknowledged(receipts) ==
    [a \in Actors |->
        IF \E r \in receipts : r.actor = a
        THEN Advanced(cursor[a], CHOOSE r \in receipts : r.actor = a)
        ELSE cursor[a]]

\* The owner dismisses a notice of the notification page, which may be an old
\* page by now: its receipt advances the same cursor.
Dismiss(e) ==
    /\ e \in events /\ Followed(e.actor) /\ e.sequence > cursor[e.actor]
    /\ Fault
    /\ cursor' = Acknowledged({[actor |-> e.actor, from |-> cursor[e.actor], through |-> e.sequence]})
    /\ settled' = settled \cup Covered(e.actor, cursor[e.actor], e.sequence)
    /\ UNCHANGED <<streamVars, base, visit, localVars, ack, historyVars, follows>>

(***************************************************************************)
(* Acknowledgement: read the journal, ask D1, delete what was read         *)
(***************************************************************************)
AckOf(saved) == [saved |-> saved, answer |-> "waiting", live |-> TRUE]

\* D1 executes the batch, and the answer arrives.
AckExecutes(k) ==
    /\ ack[k].answer = "waiting"
    /\ cursor' = Acknowledged(ack[k].saved)
    /\ ack' = [ack EXCEPT ![k] = IF @.live THEN [@ EXCEPT !.answer = "done"] ELSE NoAck]
    /\ UNCHANGED <<streamVars, base, visit, localVars, historyVars, settled, follows, faults>>

\* D1 throws, or the bound on the call is over, with or without its effect.
AckFails(k) ==
    /\ ack[k].answer = "waiting" /\ Fault
    /\ cursor' \in {cursor, Acknowledged(ack[k].saved)}
    /\ ack' = [ack EXCEPT ![k] = IF @.live THEN [@ EXCEPT !.answer = "failed"] ELSE NoAck]
    /\ UNCHANGED <<streamVars, base, visit, localVars, historyVars, settled, follows>>

\* Mutant: the journal is deleted without comparing it with what was read.
JournalAfterBlindly(saved) == {}
\* DELETE ... WHERE key = ? AND value_json = ?
JournalAfter(saved) == IF journal = saved THEN {} ELSE journal

\* The continuation of an acknowledgement that outlived its visit.
LateAckReturns ==
    /\ ack["late"].answer \in {"done", "failed"}
    /\ journal' = IF ack["late"].answer = "done" THEN JournalAfter(ack["late"].saved) ELSE journal
    /\ ack' = [ack EXCEPT !["late"] = NoAck]
    /\ UNCHANGED <<streamVars, followVars, visit, iterating, scan, historyVars, settled,
                   follows, faults>>

(***************************************************************************)
(* Selection                                                               *)
(***************************************************************************)
\* Follow rows after the scan key, a page of them in id order.
Page(after) ==
    LET rest == {a \in Actors : Followed(a) /\ a > after}
    IN  {a \in rest : Cardinality({b \in rest : b < a}) < ProbeLimit}

Sequence(a) == {e.sequence : e \in {f \in events : f.actor = a}}
Head(a) == Max(Sequence(a) \cup {0})
Active(page) == {a \in page : Head(a) > cursor[a]}
Chosen(page) == {a \in Active(page) : Cardinality({b \in Active(page) : b < a}) < ActorLimit}
\* The page is examined up to the actor that fills the selection.
Examined(page) ==
    IF Cardinality(Active(page)) >= ActorLimit
    THEN {a \in page : a <= Max(Chosen(page))}
    ELSE page

\* Mutant: the next selection starts over as long as nothing was chosen.
NextAfterChosen(page) == Max(Chosen(page) \cup {0})
\* Mutant: the scan key names the row after the last one examined.
NextAfterBeyond(page) == Max(Examined(page) \cup {0}) + 1
\* Where the next selection starts: after the last row examined, or again at the
\* start when the follow rows are exhausted.
NextAfter(page) ==
    IF Examined(page) # page \/ Cardinality(page) = ProbeLimit
    THEN Max(Examined(page) \cup {0})
    ELSE 0

\* The newest RowsPerActor events of a probed range, and of these the ones
\* still after the follow row's cursor when they are read.
Rows(p) ==
    LET range == {e \in events : e.actor = p.actor /\ e.sequence > p.cursor /\ e.sequence <= p.head}
    IN  {e \in range : /\ Cardinality({f \in range : f.sequence > e.sequence}) < RowsPerActor
                       /\ Followed(p.actor) /\ e.sequence > cursor[p.actor]}

Newest(rows) == Max({e.sequence : e \in rows})
\* The rows a notice shows: all but the one that proves there are older ones.
Shown(rows) == {e \in rows : Cardinality({f \in rows : f.sequence > e.sequence}) < RowsPerActor - 1}

\* Mutant: suppressed rows do not count as omitted activity.
SilentBlindly(rows) == \A e \in Shown(rows) : e.direct
\* Nothing to show and nothing older left out: the receipt is silent.
Silent(rows) == (\A e \in Shown(rows) : e.direct) /\ Cardinality(rows) < RowsPerActor

ReceiptOf(p) == [actor |-> p.actor, from |-> p.cursor, through |-> Newest(Rows(p))]

(***************************************************************************)
(* The visit                                                               *)
(***************************************************************************)
InStage(stage) == visit.stage = stage
Goto(stage) == visit' = [visit EXCEPT !.stage = stage]

\* Every visit first makes good what an earlier one left in the journal.  A
\* normal visit is a new iteration unless input was committed since log-off.
StartVisit(setup) ==
    /\ InStage("none")
    /\ setup = "new_iteration" => ~iterating
    /\ setup = "continuation" => iterating
    /\ visit' = [NoVisit EXCEPT !.setup = setup,
                                !.stage = IF journal = {} THEN "ready" ELSE "acking"]
    /\ ack' = IF journal = {} THEN ack ELSE [ack EXCEPT !["visit"] = AckOf(journal)]
    /\ UNCHANGED <<streamVars, followVars, localVars, historyVars, settled, follows, faults>>

\* A failed first acknowledgement keeps the journal: the visit goes on without
\* follower activity.
AckReturns ==
    /\ visit.stage \in {"acking", "reacking"}
    /\ ack["visit"].answer \in {"done", "failed"}
    /\ journal' = IF ack["visit"].answer = "done" THEN JournalAfter(ack["visit"].saved) ELSE journal
    /\ Goto(IF InStage("reacking") THEN "running"
            ELSE IF ack["visit"].answer = "done" THEN "ready" ELSE "unsettled")
    /\ ack' = [ack EXCEPT !["visit"] = NoAck]
    /\ UNCHANGED <<streamVars, followVars, iterating, scan, historyVars, settled, follows, faults>>

\* Only a new iteration reads follower activity: first the probes ...
ProbeFollows ==
    /\ InStage("ready") /\ visit.setup = "new_iteration"
    /\ visit' = [visit EXCEPT
           !.stage = "probed",
           !.selection = [NoSelection EXCEPT
               !.probes = {[actor |-> a, cursor |-> cursor[a], head |-> Head(a)]
                              : a \in Chosen(Page(scan))},
               !.next = NextAfter(Page(scan))]]
    /\ UNCHANGED <<streamVars, followVars, localVars, ack, historyVars, settled, follows, faults>>

\* ... then the events in their ranges.
ReadEvents ==
    /\ InStage("probed")
    /\ LET found == {p \in visit.selection.probes : Rows(p) # {}}
       IN  visit' = [visit EXCEPT
               !.stage = "selected",
               !.selection.probes = {},
               !.selection.silent = {ReceiptOf(p) : p \in {q \in found : Silent(Rows(q))}},
               !.selection.notices = {ReceiptOf(p) : p \in {q \in found : ~Silent(Rows(q))}}]
    /\ UNCHANGED <<streamVars, followVars, localVars, ack, historyVars, settled, follows, faults>>

CoveredBy(receipts) == UNION {Covered(r.actor, r.from, r.through) : r \in receipts}

\* One transaction saves the messages, the marker, the scan key and the receipts
\* of what was included.  The window of the delivery and the message budget may
\* leave notices out.  A journal that has not settled refuses it.
Commit(included) ==
    /\ InStage("selected") /\ journal = {}
    /\ included \subseteq visit.selection.notices
    /\ journal' = visit.selection.silent \cup included
    /\ scan' = visit.selection.next
    /\ iterating' = TRUE
    /\ visit' = [visit EXCEPT !.stage = "committed", !.selection = NoSelection]
    /\ noticed' = noticed \cup CoveredBy(included)
    /\ repeated' = repeated \cup (noticed \cap CoveredBy(included))
    /\ settled' = settled \cup {n \in CoveredBy(visit.selection.silent) :
                      \A e \in events : e.sequence = n => e.direct}
    /\ UNCHANGED <<streamVars, followVars, ack, follows, faults>>

\* A visit without a selection commits its messages and the marker.
CommitPlain ==
    /\ \/ InStage("unsettled")
       \/ InStage("ready") /\ visit.setup # "new_iteration"
    /\ iterating' = TRUE
    /\ Goto("committed")
    /\ UNCHANGED <<streamVars, followVars, journal, scan, ack, historyVars, settled, follows, faults>>

\* A new iteration acknowledges what it has just committed.
Reacknowledge ==
    /\ InStage("committed")
    /\ IF visit.setup = "new_iteration" /\ journal # {}
       THEN /\ Goto("reacking")
            /\ ack' = [ack EXCEPT !["visit"] = AckOf(journal)]
       ELSE Goto("running") /\ UNCHANGED ack
    /\ UNCHANGED <<streamVars, followVars, localVars, historyVars, settled, follows, faults>>

LogOff ==
    /\ InStage("running")
    /\ iterating' = FALSE
    /\ UNCHANGED <<streamVars, followVars, visit, journal, scan, ack, historyVars, settled,
                   follows, faults>>

\* What goes on beside the next visit: an acknowledgement the visit was waiting
\* for, or the bounded one of its last step.
Outliving ==
    IF ack["visit"].answer # "none" THEN ack["visit"]
    ELSE IF journal # {} THEN AckOf(journal) ELSE NoAck

\* The visit ends: completed from "running", failed or stopped from anywhere.
VisitEnds ==
    /\ visit.stage \notin {"none", "erasing"}
    /\ IF InStage("running") THEN UNCHANGED faults ELSE Fault
    /\ \/ ack["late"] = NoAck
       \/ ack["visit"] = NoAck
    /\ visit' = NoVisit
    /\ ack' = [ack EXCEPT !["visit"] = NoAck, !["late"] = IF @ = NoAck THEN Outliving ELSE @]
    /\ UNCHANGED <<streamVars, followVars, localVars, historyVars, settled, follows>>

\* The object restarts.  A batch on its way to D1 may still arrive.
Restart ==
    /\ Fault
    /\ visit' = NoVisit
    /\ \E k \in Slots :
           ack' = [ack EXCEPT !["visit"] = NoAck,
                              !["late"] = IF ack[k].answer = "waiting"
                                          THEN [ack[k] EXCEPT !.live = FALSE] ELSE NoAck]
    /\ UNCHANGED <<streamVars, followVars, localVars, historyVars, settled, follows>>

(***************************************************************************)
(* Erasing the history                                                     *)
(***************************************************************************)
\* Maintenance acknowledges the journal before it erases anything.
BeginErase ==
    /\ InStage("none") /\ Fault
    /\ visit' = [NoVisit EXCEPT !.stage = "erasing"]
    /\ ack' = IF journal = {} THEN ack ELSE [ack EXCEPT !["visit"] = AckOf(journal)]
    /\ UNCHANGED <<streamVars, followVars, localVars, historyVars, settled, follows>>

EraseEnds ==
    /\ InStage("erasing") /\ ack["visit"].answer # "waiting"
    /\ IF ack["visit"].answer = "failed"
       THEN UNCHANGED localVars
       ELSE journal' = {} /\ scan' = 0 /\ iterating' = FALSE
    /\ visit' = NoVisit
    /\ ack' = [ack EXCEPT !["visit"] = NoAck]
    /\ UNCHANGED <<streamVars, followVars, historyVars, settled, follows, faults>>

(***************************************************************************)
(* The specification                                                       *)
(***************************************************************************)
Stream ==
    \/ \E a \in Actors, direct \in BOOLEAN : Publish(a, direct)
    \/ \E a \in Actors : Follow(a) \/ Unfollow(a)
    \/ \E e \in events : Prune(e) \/ Dismiss(e)

Acknowledging == LateAckReturns \/ \E k \in Slots : AckExecutes(k) \/ AckFails(k)

VisitStep ==
    \/ \E setup \in Setups : StartVisit(setup)
    \/ AckReturns \/ ProbeFollows \/ ReadEvents
    \/ \E included \in SUBSET visit.selection.notices : Commit(included)
    \/ CommitPlain \/ Reacknowledge \/ LogOff \/ VisitEnds

Next == Stream \/ Acknowledging \/ VisitStep \/ Restart \/ BeginErase \/ EraseEnds

Spec == Init /\ [][Next]_vars

(***************************************************************************)
(* Properties                                                              *)
(***************************************************************************)
\* The cursor of a follow row never passes an event that retention kept and
\* that the participant was not told of: since the follow row was inserted,
\* every event up to the cursor was in a committed notice, or was dismissed by
\* the owner, or had its own notification or no content left (the cursor moves
\* only to the end of a committed receipt, never to what is published by then).
NeverSkipped ==
    \A e \in events :
        Followed(e.actor) /\ base[e.actor] < e.sequence /\ e.sequence <= cursor[e.actor]
            => e.sequence \in noticed \cup settled

\* No event is in two committed notices, whatever fails, is stopped, is late or
\* is erased between a commit and its acknowledgement: the journal survives
\* until D1 has the receipt, and a late continuation deletes only the journal
\* it read.
NoSecondSummary == repeated = {}

(***************************************************************************)
(* Liveness                                                                *)
(***************************************************************************)
\* Calls and visits end; the participant logs off again and again and is then
\* visited anew; and the delivery window is not full of more urgent
\* notifications for good, so an actor's notice is included again and again.
IncludesAll(a) ==
    /\ \E r \in visit.selection.notices : r.actor = a
    /\ Commit(visit.selection.notices)

VisitProgress ==
    \/ AckReturns \/ ProbeFollows \/ ReadEvents \/ CommitPlain \/ Reacknowledge \/ EraseEnds
    \/ \E included \in SUBSET visit.selection.notices : Commit(included)

VisitCompletes == InStage("running") /\ VisitEnds

Fairness ==
    /\ \A k \in Slots : WF_vars(AckExecutes(k))
    /\ WF_vars(LateAckReturns) /\ WF_vars(VisitProgress)
    /\ WF_vars(\E setup \in Setups : StartVisit(setup)) /\ WF_vars(VisitCompletes)
    /\ SF_vars(StartVisit("new_iteration")) /\ SF_vars(LogOff)
    /\ \A a \in Actors : SF_vars(IncludesAll(a))

FairSpec == Spec /\ Fairness

\* A follower that is behind an actor's activity catches up (or unfollows, or the
\* activity is no longer kept): the scan comes round to every follow row, and a
\* receipt that moves no row does not keep the journal.
Behind(a) == Followed(a) /\ Head(a) > cursor[a]
ActivityIsCovered == \A a \in Actors : Behind(a) ~> ~Behind(a)

=============================================================================
