--------------------------- MODULE FollowerProofs ---------------------------
(***************************************************************************)
(* Proofs about FollowerActivity: no event is in two committed notices,    *)
(* and no cursor passes one that the participant was not told of.          *)
(***************************************************************************)
EXTENDS FollowerInvariant, TLAPS, FiniteSetTheorems, WellFoundedInduction

(***************************************************************************)
(* Maxima of finite sets of naturals.                                      *)
(***************************************************************************)
\* A finite set has a maximum: a smallest nonempty subset without one would,
\* less an element, have one.
LEMMA MaxExists ==
  ASSUME NEW S \in SUBSET Nat, IsFiniteSet(S), S # {}
  PROVE  \E x \in S : \A y \in S : x >= y
<1> DEFINE Unbounded == {U \in SUBSET S : U # {} /\ \A x \in U : \E y \in U : ~(x >= y)}
<1>1. SUFFICES ASSUME Unbounded # {} PROVE FALSE
  <2>1. S \in SUBSET S
    OBVIOUS
  <2> QED
    BY <1>1, <2>1
<1>2. Unbounded \subseteq FiniteSubsetsOf(S)
  BY FS_FiniteSubsetsOfFinite
<1>3. PICK U \in Unbounded : \A V \in Unbounded : <<V, U>> \notin StrictSubsetOrdering(S)
  <2> HIDE DEF Unbounded
  <2> QED
    BY <1>1, <1>2, FS_StrictSubsetOrderingWellFounded, WFMin
<1>4. PICK x \in U : TRUE
  OBVIOUS
<1> DEFINE V == U \ {x}
<1>5. V # {}
  <2>1. SUFFICES ASSUME V = {} PROVE FALSE
    OBVIOUS
  <2>2. PICK y \in U : ~(x >= y)
    BY <1>4
  <2>3. y = x
    BY <2>1, <2>2
  <2> QED
    BY <2>2, <2>3
<1>6. V \notin Unbounded
  <2>1. <<V, U>> \in StrictSubsetOrdering(S)
    BY <1>4 DEF StrictSubsetOrdering
  <2> QED
    BY <1>3, <2>1
<1>7. PICK m \in V : \A y \in V : m >= y
  BY <1>5, <1>6
<1>8. \E z \in U : \A y \in U : z >= y
  <2>1. CASE m >= x
    BY <1>7, <2>1
  <2>2. CASE ~(m >= x)
    BY <1>4, <1>7, <2>2
  <2> QED
    BY <2>1, <2>2
<1> QED
  BY <1>8

LEMMA MaxIsIn ==
  ASSUME NEW S \in SUBSET Nat, IsFiniteSet(S), S # {}
  PROVE  Max(S) \in S /\ \A y \in S : y <= Max(S)
<1>1. Max(S) \in S /\ \A y \in S : Max(S) >= y
  BY MaxExists DEF Max
<1> QED
  BY <1>1

(***************************************************************************)
(* Sets of events.                                                         *)
(***************************************************************************)
LEMMA EventsAreFinite ==
  ASSUME Parameters, TypeOK, StreamShape
  PROVE  IsFiniteSet(events)
<1> DEFINE number == [e \in events |-> e.sequence]
<1>1. number \in Injection(events, Sequences)
  BY DEF Injection, IsInjective, TypeOK, StreamShape, Events
<1>2. IsFiniteSet(Sequences)
  BY FS_Interval DEF Sequences, Parameters
<1> QED
  BY <1>1, <1>2, FS_Injection

\* The numbers of a nonempty set of events have a maximum.
LEMMA LatestEvent ==
  ASSUME Parameters, TypeOK, StreamShape, NEW R \in SUBSET events, R # {}
  PROVE  \E e \in R : e.sequence = Newest(R) /\ \A f \in R : f.sequence <= e.sequence
<1> DEFINE N == {e.sequence : e \in R}
<1>1. N \in SUBSET Nat /\ N # {}
  BY DEF TypeOK, Events, Sequences
<1>2. IsFiniteSet(N)
  <2>1. \A n \in N : n <= MaxSequence
    BY DEF TypeOK, Events, Sequences, Parameters
  <2> QED
    BY <1>1, <2>1, FS_BoundedSetOfNaturals DEF Parameters
<1>3. Max(N) \in N /\ \A n \in N : n <= Max(N)
  BY <1>1, <1>2, MaxIsIn
<1>4. Newest(R) = Max(N)
  BY DEF Newest
<1> HIDE DEF Newest
<1>5. PICK e \in R : e.sequence = Max(N)
  BY <1>3
<1> QED
  BY <1>3, <1>4, <1>5

Later(R, e) == {f \in R : f.sequence > e.sequence}

\* Of events that are kept after a cursor, each is among the newest K, or K
\* others after the cursor are.
LEMMA NewestOf ==
  ASSUME Parameters, TypeOK, StreamShape, NEW R \in SUBSET events, NEW K \in Nat, NEW c \in Int,
         NEW e \in R, e.sequence > c,
         Cardinality({f \in R : Cardinality(Later(R, f)) < K /\ f.sequence > c}) < K
  PROVE  Cardinality(Later(R, e)) < K
<1> DEFINE Top == {f \in R : Cardinality(Later(R, f)) < K /\ f.sequence > c}
           Rest == {f \in R : ~(Cardinality(Later(R, f)) < K) /\ f.sequence > c}
<1>0. /\ IsFiniteSet(R)
      /\ \A f \in R : IsFiniteSet(Later(R, f)) /\ Cardinality(Later(R, f)) \in Nat
      /\ IsFiniteSet(Top) /\ Cardinality(Top) \in Nat
  <2>1. IsFiniteSet(R)
    BY EventsAreFinite, FS_Subset
  <2>2. \A f \in R : Later(R, f) \in SUBSET R
    BY DEF Later
  <2>3. Top \in SUBSET R
    OBVIOUS
  <2>4. \A T \in SUBSET R : IsFiniteSet(T) /\ Cardinality(T) \in Nat
    BY <2>1, FS_Subset, FS_CardinalityType
  <2> QED
    BY <2>1, <2>2, <2>3, <2>4
<1>1. SUFFICES ASSUME e \in Rest PROVE FALSE
  OBVIOUS
<1>2. PICK m \in Rest : \A f \in Rest : f.sequence <= m.sequence
  <2>1. Rest \in SUBSET events /\ Rest # {}
    BY <1>1
  <2> HIDE DEF Rest
  <2> QED
    BY <2>1, LatestEvent
<1>3. Later(R, m) \in SUBSET Top
  BY <1>2 DEF Later, TypeOK, Events, Sequences
<1>4. Cardinality(Later(R, m)) <= Cardinality(Top)
  BY <1>0, <1>3, FS_Subset
<1>5. ~(Cardinality(Later(R, m)) < K) /\ m \in R
  OBVIOUS
<1>6. Cardinality(Top) < K
  OBVIOUS
<1> HIDE DEF Top, Rest
<1> QED
  BY <1>0, <1>4, <1>5, <1>6

(***************************************************************************)
(* The acknowledging batch.                                                *)
(***************************************************************************)
\* It moves the cursors of follow rows that exist forward, each to the end of
\* its actor's receipt and never past what is published.
LEMMA AckMoves ==
  ASSUME Parameters, TypeOK, StreamShape, NEW receipts \in SUBSET Receipts, IsList(receipts)
  PROVE  LET moved == Acknowledged(receipts)
         IN  /\ moved \in [Actors -> {NotFollowed} \cup 0..MaxSequence]
             /\ \A a \in Actors :
                  /\ ~Followed(a) <=> moved[a] = NotFollowed
                  /\ cursor[a] <= moved[a] /\ moved[a] <= high
                  /\ moved[a] = cursor[a] \/ \E r \in receipts : r.actor = a /\ moved[a] = r.through
             /\ \A r \in receipts : Followed(r.actor) => r.through <= moved[r.actor]
<1> DEFINE moved == Acknowledged(receipts)
<1>1. ASSUME NEW a \in Actors, \A r \in receipts : r.actor # a
      PROVE  moved[a] = cursor[a]
  BY <1>1 DEF Acknowledged
<1>2. ASSUME NEW r \in receipts
      PROVE  r.actor \in Actors /\ moved[r.actor] = Advanced(cursor[r.actor], r)
  <2>1. r.actor \in Actors
    BY DEF Receipts
  <2>2. (CHOOSE q \in receipts : q.actor = r.actor) = r
    BY DEF IsList
  <2> QED
    BY <2>1, <2>2 DEF Acknowledged
<1>3. ASSUME NEW r \in receipts
      PROVE  /\ Advanced(cursor[r.actor], r) \in {NotFollowed} \cup 0..MaxSequence
             /\ ~Followed(r.actor) <=> Advanced(cursor[r.actor], r) = NotFollowed
             /\ cursor[r.actor] <= Advanced(cursor[r.actor], r) /\ Advanced(cursor[r.actor], r) <= high
             /\ Advanced(cursor[r.actor], r) \in {cursor[r.actor], r.through}
             /\ Followed(r.actor) => r.through <= Advanced(cursor[r.actor], r)
  <2>1. /\ r.actor \in Actors /\ cursor[r.actor] \in {-1} \cup 0..MaxSequence
        /\ r.through \in 1..MaxSequence /\ high \in Nat
        /\ r.through <= high /\ cursor[r.actor] <= high
    BY DEF TypeOK, Receipts, Sequences, NotFollowed, IsList, StreamShape, Parameters
  <2> QED
    BY <2>1 DEF Advanced, Followed, NotFollowed, Parameters
<1>4. ASSUME NEW a \in Actors
      PROVE  /\ moved[a] \in {NotFollowed} \cup 0..MaxSequence
             /\ ~Followed(a) <=> moved[a] = NotFollowed
             /\ cursor[a] <= moved[a] /\ moved[a] <= high
             /\ moved[a] = cursor[a] \/ \E r \in receipts : r.actor = a /\ moved[a] = r.through
  <2>1. CASE \E r \in receipts : r.actor = a
    <3>1. PICK r \in receipts : r.actor = a
      BY <2>1
    <3> HIDE DEF moved
    <3> QED
      BY <1>2, <1>3, <3>1
  <2>2. CASE \A r \in receipts : r.actor # a
    <3>1. moved[a] = cursor[a]
      BY <1>1, <2>2
    <3> HIDE DEF moved
    <3> QED
      BY <3>1 DEF TypeOK, NotFollowed, Followed, StreamShape, Parameters
  <2> QED
    BY <2>1, <2>2
<1>5. moved = [a \in Actors |-> moved[a]]
  BY DEF Acknowledged
<1>6. moved \in [Actors -> {NotFollowed} \cup 0..MaxSequence]
  <2> HIDE DEF moved
  <2> QED
    BY <1>4, <1>5
<1>7. \A r \in receipts : Followed(r.actor) => r.through <= moved[r.actor]
  <2> HIDE DEF moved
  <2> QED
    BY <1>2, <1>3
<1> HIDE DEF moved
<1>8. /\ moved \in [Actors -> {NotFollowed} \cup 0..MaxSequence]
      /\ \A a \in Actors :
           /\ ~Followed(a) <=> moved[a] = NotFollowed
           /\ cursor[a] <= moved[a] /\ moved[a] <= high
           /\ moved[a] = cursor[a] \/ \E r \in receipts : r.actor = a /\ moved[a] = r.through
      /\ \A r \in receipts : Followed(r.actor) => r.through <= moved[r.actor]
  BY <1>4, <1>6, <1>7
<1> QED
  BY <1>8 DEF moved

(***************************************************************************)
(* The selection.                                                          *)
(***************************************************************************)
LEMMA ProbedType ==
  ASSUME Parameters, TypeOK, StreamShape, NEW a \in Chosen(Page(scan))
  PROVE  a \in Actors /\ Followed(a) /\ cursor[a] \in 0..MaxSequence /\ Head(a) \in Sequences
<1>1. a \in Actors /\ Followed(a) /\ Head(a) > cursor[a]
  BY DEF Chosen, Active, Page
<1>2. cursor[a] \in 0..MaxSequence
  BY <1>1 DEF TypeOK, Followed
<1> DEFINE N == Sequence(a) \cup {0}
<1>3. N \in SUBSET (0..MaxSequence) /\ N # {}
  BY DEF Sequence, TypeOK, Events, Sequences, Parameters
<1>4. IsFiniteSet(N)
  <2>1. IsFiniteSet(0..MaxSequence)
    BY FS_Interval DEF Parameters
  <2> QED
    BY <1>3, <2>1, FS_Subset
<1>5. Max(N) \in N
  <2>1. N \in SUBSET Nat
    BY <1>3 DEF Parameters
  <2> HIDE DEF N
  <2> QED
    BY <1>3, <1>4, <2>1, MaxIsIn
<1>6. Head(a) = Max(N)
  BY DEF Head
<1> HIDE DEF N
<1>7. Head(a) \in 0..MaxSequence
  BY <1>3, <1>5, <1>6
<1> QED
  BY <1>1, <1>2, <1>7 DEF Sequences, Parameters

LEMMA NextAfterType ==
  ASSUME Parameters, TypeOK
  PROVE  NextAfter(Page(scan)) \in 0..NumActors
<1> DEFINE N == Examined(Page(scan)) \cup {0}
<1>1. N \in SUBSET (0..NumActors) /\ N # {}
  BY DEF Examined, Page, Actors, Parameters
<1>2. IsFiniteSet(N)
  <2>1. IsFiniteSet(0..NumActors)
    BY FS_Interval DEF Parameters
  <2> QED
    BY <1>1, <2>1, FS_Subset
<1>3. Max(N) \in 0..NumActors
  <2>1. N \in SUBSET Nat
    BY <1>1 DEF Parameters
  <2> HIDE DEF N
  <2> QED
    BY <1>1, <1>2, <2>1, MaxIsIn
<1>4. NextAfter(Page(scan)) \in {Max(N), 0}
  BY DEF NextAfter
<1> QED
  BY <1>3, <1>4 DEF Parameters

\* A receipt ends at the latest event that was read for it.
LEMMA ReceiptType ==
  ASSUME Parameters, TypeOK, StreamShape, NEW p \in visit.selection.probes, Rows(p) # {}
  PROVE  /\ ReceiptOf(p) \in Receipts
         /\ ReceiptOf(p).actor = p.actor /\ ReceiptOf(p).from = p.cursor
         /\ ReceiptOf(p).through <= high
         /\ Followed(p.actor)
         /\ \E e \in Rows(p) : /\ e.sequence = ReceiptOf(p).through /\ e.sequence > cursor[p.actor]
                               /\ \A f \in Rows(p) : f.sequence <= e.sequence
<1>1. /\ p.actor \in Actors /\ p.cursor \in 0..MaxSequence
      /\ Rows(p) \in SUBSET events
  BY DEF TypeOK, Selections, Rows
<1>2. PICK e \in Rows(p) : e.sequence = Newest(Rows(p)) /\ \A f \in Rows(p) : f.sequence <= e.sequence
  BY <1>1, LatestEvent
<1>3. Followed(p.actor) /\ e.sequence > cursor[p.actor]
  BY <1>2 DEF Rows
<1>4. e \in events /\ e.sequence \in Sequences /\ e.sequence <= high
  BY <1>1 DEF TypeOK, Events, StreamShape
<1>5. ReceiptOf(p) = [actor |-> p.actor, from |-> p.cursor, through |-> e.sequence]
  BY <1>2 DEF ReceiptOf
<1>6. ReceiptOf(p) \in Receipts
  BY <1>1, <1>4, <1>5 DEF Receipts
<1> QED
  BY <1>2, <1>3, <1>4, <1>5, <1>6

(***************************************************************************)
(* Types.                                                                  *)
(***************************************************************************)
VisitType == [stage : VisitStages, setup : Setups, selection : Selections]
AckType == [saved : SUBSET Receipts, live : BOOLEAN, answer : {"none", "waiting", "done", "failed"}]

PlainTypes ==
  /\ events \subseteq Events
  /\ high \in 0..MaxSequence
  /\ base \in [Actors -> 0..MaxSequence]
  /\ iterating \in BOOLEAN
  /\ journal \subseteq Receipts
  /\ scan \in 0..NumActors
  /\ noticed \subseteq Sequences /\ repeated \subseteq Sequences /\ settled \subseteq Sequences
  /\ follows \in Nat /\ faults \in Nat

CursorType == cursor \in [Actors -> {NotFollowed} \cup 0..MaxSequence]

LEMMA TypeParts ==
  TypeOK <=> PlainTypes /\ CursorType /\ visit \in VisitType /\ ack \in [Slots -> AckType]
BY DEF TypeOK, PlainTypes, CursorType, VisitType, AckType

LEMMA TypePartsNext ==
  PlainTypes' /\ CursorType' /\ visit' \in VisitType /\ ack' \in [Slots -> AckType] => TypeOK'
BY DEF TypeOK, PlainTypes, CursorType, VisitType, AckType

LEMMA NothingTypes ==
  ASSUME Parameters
  PROVE  /\ NoSelection \in Selections /\ NoVisit \in VisitType /\ NoAck \in AckType
         /\ TypeOK => \A r \in SUBSET Receipts : AckOf(r) \in AckType
<1>1. NoSelection \in Selections
  BY DEF NoSelection, Selections, Parameters
<1> QED
  BY <1>1 DEF NoVisit, VisitType, NoAck, AckType, VisitStages, Setups, AckOf

\* A stage and a selection that a step gives to the visit.
LEMMA VisitUpdates ==
  ASSUME NEW v \in VisitType, NEW stage \in VisitStages
  PROVE  /\ [v EXCEPT !.stage = stage] \in VisitType
         /\ \A setup \in Setups : [v EXCEPT !.setup = setup, !.stage = stage] \in VisitType
         /\ \A selection \in Selections : [v EXCEPT !.stage = stage, !.selection = selection] \in VisitType
BY DEF VisitType

LEMMA TypeInit == ASSUME Parameters PROVE Init => TypeOK
<1> SUFFICES ASSUME Init PROVE TypeOK
  OBVIOUS
<1>1. visit \in VisitType /\ ack \in [Slots -> AckType]
  BY NothingTypes DEF Init
<1>2. CursorType
  BY DEF Init, CursorType, Parameters
<1>3. PlainTypes
  <2>1. base \in [Actors -> 0..MaxSequence] /\ high \in 0..MaxSequence /\ scan \in 0..NumActors
    BY DEF Init, Parameters
  <2>2. follows \in Nat /\ faults \in Nat
    BY DEF Init, Parameters
  <2> QED
    BY <2>1, <2>2 DEF Init, PlainTypes
<1> QED
  BY <1>1, <1>2, <1>3, TypeParts

LEMMA StreamTypes ==
  ASSUME Parameters, TypeOK, StreamShape, Lists, Stream PROVE TypeOK'
<1> USE DEF streamVars, followVars, localVars, historyVars
<1>0. /\ PlainTypes /\ CursorType /\ visit \in VisitType /\ ack \in [Slots -> AckType]
      /\ visit' = visit /\ ack' = ack
  BY TypeParts DEF Stream, Publish, Follow, Unfollow, Prune, Dismiss
<1>1. ASSUME NEW a \in Actors, NEW direct \in BOOLEAN, Publish(a, direct) PROVE PlainTypes' /\ CursorType'
  BY <1>0, <1>1 DEF PlainTypes, CursorType, Publish, Events, Sequences, Parameters
<1>2. ASSUME NEW a \in Actors, Follow(a) PROVE PlainTypes' /\ CursorType'
  BY <1>0, <1>2 DEF PlainTypes, CursorType, Follow
<1>3. ASSUME NEW a \in Actors, Unfollow(a) PROVE PlainTypes' /\ CursorType'
  BY <1>0, <1>3 DEF PlainTypes, CursorType, Unfollow
<1>4. ASSUME NEW e \in events, Prune(e) PROVE PlainTypes' /\ CursorType'
  BY <1>0, <1>4 DEF PlainTypes, CursorType, Prune, Fault
<1>5. ASSUME NEW e \in events, Dismiss(e) PROVE PlainTypes' /\ CursorType'
  <2> DEFINE receipts == {[actor |-> e.actor, from |-> cursor[e.actor], through |-> e.sequence]}
  <2>1. e.actor \in Actors /\ e.sequence \in Sequences /\ cursor[e.actor] \in 0..MaxSequence /\ e.sequence <= high
    BY <1>5 DEF TypeOK, Events, Dismiss, Followed, StreamShape
  <2>2. receipts \in SUBSET Receipts /\ IsList(receipts)
    BY <2>1 DEF Receipts, IsList
  <2>3. cursor' = Acknowledged(receipts)
    BY <1>5 DEF Dismiss
  <2> HIDE DEF receipts
  <2>4. CursorType'
    BY <2>2, <2>3, AckMoves DEF CursorType
  <2>5. Covered(e.actor, cursor[e.actor], e.sequence) \subseteq Sequences
    BY DEF Covered, TypeOK, Events
  <2>6. PlainTypes'
    BY <1>0, <1>5, <2>5 DEF PlainTypes, Dismiss, Fault
  <2> QED
    BY <2>4, <2>6
<1>6. PlainTypes' /\ CursorType'
  BY <1>1, <1>2, <1>3, <1>4, <1>5 DEF Stream
<1> QED
  BY <1>0, <1>6, TypePartsNext

LEMMA AcknowledgingTypes ==
  ASSUME Parameters, TypeOK, StreamShape, Lists, Acknowledging PROVE TypeOK'
<1> USE DEF streamVars, followVars, localVars, historyVars
<1>0. /\ PlainTypes /\ CursorType /\ visit \in VisitType /\ ack \in [Slots -> AckType]
      /\ visit' = visit /\ NoAck \in AckType
  BY TypeParts, NothingTypes DEF Acknowledging, LateAckReturns, AckExecutes, AckFails
<1>1. ASSUME LateAckReturns PROVE TypeOK'
  <2>1. ack' \in [Slots -> AckType]
    BY <1>0, <1>1 DEF LateAckReturns
  <2>2. PlainTypes' /\ CursorType'
    BY <1>0, <1>1 DEF LateAckReturns, PlainTypes, CursorType, JournalAfter
  <2> QED
    BY <1>0, <2>1, <2>2, TypePartsNext
<1>2. ASSUME NEW k \in Slots
      PROVE  Acknowledged(ack[k].saved) \in [Actors -> {NotFollowed} \cup 0..MaxSequence]
  <2>1. ack[k].saved \in SUBSET Receipts /\ IsList(ack[k].saved)
    BY DEF TypeOK, Lists
  <2> QED
    BY <2>1, AckMoves
<1>3. ASSUME NEW k \in Slots, AckExecutes(k) \/ AckFails(k) PROVE TypeOK'
  <2>1. CursorType'
    BY <1>0, <1>2, <1>3 DEF CursorType, AckExecutes, AckFails
  <2>2. PlainTypes'
    BY <1>0, <1>3 DEF PlainTypes, AckExecutes, AckFails, Fault
  <2>3. ack' \in [Slots -> AckType]
    <3>1. \A x \in {"done", "failed"} : [ack[k] EXCEPT !.answer = x] \in AckType
      BY <1>0 DEF AckType
    <3> QED
      BY <1>0, <1>3, <3>1 DEF AckExecutes, AckFails
  <2> QED
    BY <1>0, <2>1, <2>2, <2>3, TypePartsNext
<1> QED
  BY <1>1, <1>3 DEF Acknowledging

LEMMA VisitTypes ==
  ASSUME Parameters, TypeOK, StreamShape, Lists, VisitStep PROVE TypeOK'
<1> USE DEF streamVars, followVars, localVars, historyVars
<1>0. /\ PlainTypes /\ CursorType /\ visit \in VisitType /\ ack \in [Slots -> AckType] /\ cursor' = cursor
      /\ NoAck \in AckType /\ NoVisit \in VisitType /\ NoSelection \in Selections
      /\ AckOf(journal) \in AckType
  <2>1. /\ PlainTypes /\ CursorType /\ visit \in VisitType /\ ack \in [Slots -> AckType]
        /\ NoAck \in AckType /\ NoVisit \in VisitType /\ NoSelection \in Selections
        /\ AckOf(journal) \in AckType
    BY TypeParts, NothingTypes DEF PlainTypes
  <2>2. cursor' = cursor
    BY DEF VisitStep, StartVisit, AckReturns, ProbeFollows, ReadEvents, Commit, CommitPlain, Reacknowledge,
           LogOff, VisitEnds
  <2> QED
    BY <2>1, <2>2
<1>a. CursorType'
  BY <1>0 DEF CursorType
<1>b. SUFFICES PlainTypes' /\ visit' \in VisitType /\ ack' \in [Slots -> AckType]
  BY <1>a, TypePartsNext
<1>1. ASSUME NEW setup \in Setups, StartVisit(setup)
      PROVE  PlainTypes' /\ visit' \in VisitType /\ ack' \in [Slots -> AckType]
  <2>1. ack' \in [Slots -> AckType]
    BY <1>0, <1>1 DEF StartVisit
  <2>2. visit' \in VisitType
    BY <1>0, <1>1, VisitUpdates DEF StartVisit, VisitStages
  <2> QED
    BY <1>0, <1>1, <2>1, <2>2 DEF StartVisit, PlainTypes
<1>2. ASSUME AckReturns PROVE PlainTypes' /\ visit' \in VisitType /\ ack' \in [Slots -> AckType]
  <2>1. ack' \in [Slots -> AckType]
    BY <1>0, <1>2 DEF AckReturns
  <2>2. visit' \in VisitType
    BY <1>0, <1>2, VisitUpdates DEF AckReturns, Goto, VisitStages
  <2> QED
    BY <1>0, <1>2, <2>1, <2>2 DEF AckReturns, JournalAfter, PlainTypes
<1>3. ASSUME ProbeFollows PROVE PlainTypes' /\ visit' \in VisitType /\ ack' \in [Slots -> AckType]
  <2> DEFINE probes == {[actor |-> a, cursor |-> cursor[a], head |-> Head(a)] : a \in Chosen(Page(scan))}
             next == NextAfter(Page(scan))
  <2>1. probes \subseteq [actor : Actors, cursor : 0..MaxSequence, head : Sequences]
    BY ProbedType
  <2>2. next \in 0..NumActors
    BY NextAfterType
  <2>3. visit' = [visit EXCEPT !.stage = "probed", !.selection = [NoSelection EXCEPT !.probes = probes, !.next = next]]
    BY <1>3 DEF ProbeFollows
  <2> HIDE DEF probes, next
  <2>4. [NoSelection EXCEPT !.probes = probes, !.next = next] \in Selections
    BY <1>0, <2>1, <2>2 DEF Selections
  <2>5. visit' \in VisitType
    BY <1>0, <2>3, <2>4, VisitUpdates DEF VisitStages
  <2> QED
    BY <1>0, <1>3, <2>5 DEF ProbeFollows, PlainTypes
<1>4. ASSUME ReadEvents PROVE PlainTypes' /\ visit' \in VisitType /\ ack' \in [Slots -> AckType]
  <2> DEFINE found == {p \in visit.selection.probes : Rows(p) # {}}
             silent == {ReceiptOf(p) : p \in {q \in found : Silent(Rows(q))}}
             notices == {ReceiptOf(p) : p \in {q \in found : ~Silent(Rows(q))}}
  <2>1. \A p \in visit.selection.probes : Rows(p) # {} => ReceiptOf(p) \in Receipts
    BY ReceiptType
  <2>2. silent \in SUBSET Receipts /\ notices \in SUBSET Receipts
    BY <2>1
  <2>3. visit' = [visit EXCEPT !.stage = "selected", !.selection.probes = {}, !.selection.silent = silent,
                              !.selection.notices = notices]
    BY <1>4 DEF ReadEvents
  <2> HIDE DEF silent, notices
  <2>4. [visit.selection EXCEPT !.probes = {}, !.silent = silent, !.notices = notices] \in Selections
    BY <1>0, <2>2 DEF Selections, VisitType
  <2>5. visit' = [visit EXCEPT !.stage = "selected",
                    !.selection = [visit.selection EXCEPT !.probes = {}, !.silent = silent, !.notices = notices]]
    BY <1>0, <2>3 DEF VisitType, Selections
  <2>6. visit' \in VisitType
    BY <1>0, <2>4, <2>5, VisitUpdates DEF VisitStages
  <2> QED
    BY <1>0, <1>4, <2>6 DEF ReadEvents, PlainTypes
<1>5. ASSUME NEW included \in SUBSET visit.selection.notices, Commit(included)
      PROVE  PlainTypes' /\ visit' \in VisitType /\ ack' \in [Slots -> AckType]
  <2>1. \A R \in SUBSET Receipts : CoveredBy(R) \subseteq Sequences
    BY DEF CoveredBy, Covered, TypeOK, Events
  <2>2. included \in SUBSET Receipts /\ visit.selection.silent \in SUBSET Receipts
        /\ visit.selection.next \in 0..NumActors
    BY <1>0 DEF VisitType, Selections
  <2>3. visit' \in VisitType
    BY <1>0, <1>5, VisitUpdates DEF Commit, VisitStages
  <2>4. settled' \subseteq settled \cup CoveredBy(visit.selection.silent)
    BY <1>5 DEF Commit
  <2>5. PlainTypes'
    BY <1>0, <1>5, <2>1, <2>2, <2>4 DEF Commit, PlainTypes
  <2> QED
    BY <1>0, <1>5, <2>3, <2>5 DEF Commit
<1>6. ASSUME CommitPlain PROVE PlainTypes' /\ visit' \in VisitType /\ ack' \in [Slots -> AckType]
  BY <1>0, <1>6, VisitUpdates DEF CommitPlain, Goto, PlainTypes, VisitStages
<1>7. ASSUME Reacknowledge PROVE PlainTypes' /\ visit' \in VisitType /\ ack' \in [Slots -> AckType]
  <2>1. ack' \in [Slots -> AckType]
    BY <1>0, <1>7 DEF Reacknowledge
  <2>2. visit' \in VisitType
    BY <1>0, <1>7, VisitUpdates DEF Reacknowledge, Goto, VisitStages
  <2> QED
    BY <1>0, <1>7, <2>1, <2>2 DEF Reacknowledge, PlainTypes
<1>8. ASSUME LogOff PROVE PlainTypes' /\ visit' \in VisitType /\ ack' \in [Slots -> AckType]
  BY <1>0, <1>8 DEF LogOff, PlainTypes
<1>9. ASSUME VisitEnds PROVE PlainTypes' /\ visit' \in VisitType /\ ack' \in [Slots -> AckType]
  <2>1. ack' \in [Slots -> AckType]
    <3>1. Outliving \in AckType
      BY <1>0 DEF Outliving, Slots
    <3> QED
      BY <1>0, <1>9, <3>1 DEF VisitEnds
  <2> QED
    BY <1>0, <1>9, <2>1 DEF VisitEnds, Fault, PlainTypes
<1> QED
  BY <1>1, <1>2, <1>3, <1>4, <1>5, <1>6, <1>7, <1>8, <1>9 DEF VisitStep

LEMMA TypeNext ==
  ASSUME Parameters, TypeOK, StreamShape, Lists, [Next]_vars PROVE TypeOK'
<1> USE DEF streamVars, followVars, localVars, historyVars
<1>0. /\ PlainTypes /\ CursorType /\ visit \in VisitType /\ ack \in [Slots -> AckType]
      /\ NoAck \in AckType /\ NoVisit \in VisitType /\ AckOf(journal) \in AckType
  BY TypeParts, NothingTypes DEF PlainTypes
<1>1. ASSUME Restart PROVE TypeOK'
  <2>1. \A k \in Slots : [ack[k] EXCEPT !.live = FALSE] \in AckType
    BY <1>0 DEF AckType
  <2>2. ack' \in [Slots -> AckType]
    BY <1>0, <1>1, <2>1 DEF Restart
  <2> QED
    BY <1>0, <1>1, <2>2, TypePartsNext DEF Restart, Fault, PlainTypes, CursorType
<1>2. ASSUME BeginErase PROVE TypeOK'
  <2>1. ack' \in [Slots -> AckType]
    BY <1>0, <1>2 DEF BeginErase
  <2>2. visit' \in VisitType
    BY <1>0, <1>2, VisitUpdates DEF BeginErase, VisitStages
  <2> QED
    BY <1>0, <1>2, <2>1, <2>2, TypePartsNext DEF BeginErase, Fault, PlainTypes, CursorType
<1>3. ASSUME EraseEnds PROVE TypeOK'
  <2>1. ack' \in [Slots -> AckType]
    BY <1>0, <1>3 DEF EraseEnds
  <2>2. journal' \subseteq Receipts /\ scan' \in 0..NumActors /\ iterating' \in BOOLEAN
    <3>1. CASE ack["visit"].answer = "failed"
      BY <1>0, <1>3, <3>1 DEF EraseEnds, PlainTypes
    <3>2. CASE ack["visit"].answer # "failed"
      <4>1. journal' = {} /\ scan' = 0 /\ iterating' = FALSE
        BY <1>3, <3>2 DEF EraseEnds
      <4>2. 0 \in 0..NumActors
        BY DEF Parameters
      <4>3. iterating' \in BOOLEAN
        BY <4>1
      <4> QED
        BY <4>1, <4>2, <4>3
    <3> QED
      BY <3>1, <3>2
  <2>3. PlainTypes'
    BY <1>0, <1>3, <2>2 DEF EraseEnds, PlainTypes
  <2> QED
    BY <1>0, <1>3, <2>1, <2>3, TypePartsNext DEF EraseEnds, CursorType
<1>4. ASSUME UNCHANGED vars PROVE TypeOK'
  BY <1>4 DEF TypeOK, vars
<1> QED
  BY <1>1, <1>2, <1>3, <1>4, StreamTypes, AcknowledgingTypes, VisitTypes DEF Next

(***************************************************************************)
(* Steps that leave the stream and the notices alone.                      *)
(***************************************************************************)
Shapes == StreamShape /\ Lists /\ JournalShape /\ NoticesShape /\ AccountedShape /\ repeated = {}

\* The lists of receipts that a step may find again.
KeptLists == {{}, journal, ack["visit"].saved, ack["late"].saved}

\* The journal is kept, or dropped when no row is behind its receipts.
JournalIsKept == journal' = journal \/ (journal' = {} /\ \A r \in journal : Moved(r))

\* A step within the participant's object.
LocalStep ==
  /\ UNCHANGED <<events, high, cursor, base, noticed, repeated, settled>>
  /\ visit'.selection \in {visit.selection, NoSelection}
  /\ \A k \in Slots : ack'[k].saved \in KeptLists
  /\ JournalIsKept

LEMMA KeptListsShape ==
  ASSUME TypeOK, Shapes, NEW receipts \in KeptLists
  PROVE  /\ IsList(receipts) /\ receipts \in SUBSET Receipts
         /\ \A r \in receipts : Accounted(r.actor, r.through)
<1>1. CASE receipts = {}
  BY <1>1 DEF IsList
<1>2. CASE receipts = journal
  BY <1>2 DEF TypeOK, Shapes, Lists, AccountedShape
<1>3. ASSUME NEW k \in Slots, receipts = ack[k].saved
      PROVE  /\ IsList(receipts) /\ receipts \in SUBSET Receipts
             /\ \A r \in receipts : Accounted(r.actor, r.through)
  BY <1>3 DEF TypeOK, Shapes, Lists, AccountedShape
<1> QED
  BY <1>1, <1>2, <1>3 DEF KeptLists, Slots

\* What the step leaves in the selection was there, or nothing is.
LEMMA LocalSelection ==
  ASSUME LocalStep
  PROVE  /\ SelectionList' \in SUBSET SelectionList
         /\ visit'.selection.probes \in SUBSET visit.selection.probes
         /\ visit'.selection.silent \in SUBSET visit.selection.silent
<1>1. CASE visit'.selection = visit.selection
  BY <1>1 DEF SelectionList
<1>2. CASE visit'.selection = NoSelection
  BY <1>2 DEF SelectionList, NoSelection
<1> QED
  BY <1>1, <1>2 DEF LocalStep

LEMMA LocalKeeps ==
  ASSUME TypeOK, Shapes, LocalStep, JournalShape' PROVE Shapes'
<1>0. /\ events' = events /\ high' = high /\ cursor' = cursor /\ base' = base
      /\ noticed' = noticed /\ repeated' = repeated /\ settled' = settled
  BY DEF LocalStep
<1>1. StreamShape' /\ (repeated = {})'
  BY <1>0 DEF Shapes, StreamShape
<1>2. \A receipts : IsList(receipts)' <=> IsList(receipts)
  BY <1>0 DEF IsList
<1>3. \A a, n : (Accounted(a, n)' <=> Accounted(a, n)) /\ (NoticedUpTo(a, n)' <=> NoticedUpTo(a, n))
  BY <1>0 DEF Accounted, NoticedUpTo
<1>4. \A r : NeedsNone(r)' <=> NeedsNone(r)
  BY <1>0 DEF NeedsNone
<1>5. journal' \in KeptLists /\ \A k \in Slots : ack'[k].saved \in KeptLists
  BY DEF LocalStep, JournalIsKept, KeptLists
<1>6. Lists'
  <2>1. IsList(journal)' /\ \A k \in Slots : IsList(ack[k].saved)'
    BY <1>0, <1>5, KeptListsShape DEF IsList
  <2>2. IsList(SelectionList)'
    BY <1>0, LocalSelection DEF Shapes, Lists, IsList
  <2> QED
    BY <1>0, <2>1, <2>2, LocalSelection DEF Shapes, Lists
<1>7. NoticesShape'
  <2>1. ASSUME NEW e \in events, Followed(e.actor), e.sequence \in noticed
        PROVE  e.sequence <= cursor[e.actor] \/ \E r \in journal' : r.actor = e.actor /\ e.sequence <= r.through
    <3>1. CASE e.sequence <= cursor[e.actor]
      BY <3>1
    <3>2. CASE \E r \in journal : r.actor = e.actor /\ e.sequence <= r.through
      <4>1. PICK r \in journal : r.actor = e.actor /\ e.sequence <= r.through
        BY <3>2
      <4>2. CASE journal' = journal
        BY <4>1, <4>2
      <4>3. CASE Moved(r)
        <5>1. r.through <= cursor[e.actor]
          BY <2>1, <4>1, <4>3 DEF Moved
        <5>2. e.actor \in Actors /\ e.sequence \in Nat /\ r.through \in Nat
          BY DEF TypeOK, Events, Sequences, Receipts
        <5>3. cursor[e.actor] \in Int
          BY <5>2 DEF TypeOK, NotFollowed
        <5> QED
          BY <4>1, <5>1, <5>2, <5>3
      <4> QED
        BY <4>2, <4>3 DEF LocalStep, JournalIsKept
    <3> QED
      BY <2>1, <3>1, <3>2 DEF Shapes, NoticesShape
  <2>2. \A p \in visit'.selection.probes : NoticedUpTo(p.actor, p.cursor)
    BY LocalSelection DEF Shapes, NoticesShape
  <2>3. \A r \in SelectionList' : NoticedUpTo(r.actor, r.from)
    BY LocalSelection DEF Shapes, NoticesShape
  <2> QED
    BY <1>0, <2>1, <2>2, <2>3 DEF NoticesShape, NoticedUpTo, Followed
<1>8. AccountedShape'
  <2>1. \A a \in Actors : Followed(a)' => Accounted(a, cursor[a])'
    BY <1>0 DEF Shapes, AccountedShape, Accounted, Followed
  <2>2. /\ \A r \in journal' : Accounted(r.actor, r.through)
        /\ \A k \in Slots : \A r \in ack'[k].saved : Accounted(r.actor, r.through)
    BY <1>5, KeptListsShape
  <2>3. /\ \A p \in visit'.selection.probes : Accounted(p.actor, p.cursor)
        /\ \A r \in SelectionList' : Accounted(r.actor, r.from)
        /\ \A r \in visit'.selection.silent : NeedsNone(r)
    BY LocalSelection DEF Shapes, AccountedShape
  <2> QED
    BY <1>0, <2>1, <2>2, <2>3 DEF AccountedShape, Accounted, NeedsNone
<1> QED
  BY <1>1, <1>6, <1>7, <1>8 DEF Shapes

(***************************************************************************)
(* The steps of the visit and of acknowledgements within the object.       *)
(***************************************************************************)
\* An acknowledgement that ends deletes the journal it read, if D1 answered.
LEMMA AckEnds ==
  ASSUME JournalShape, NEW k \in Slots, ack[k].answer \in {"done", "failed"},
         journal' = IF ack[k].answer = "done" THEN JournalAfter(ack[k].saved) ELSE journal
  PROVE  /\ JournalIsKept
         /\ ack[k].answer = "done" /\ journal = ack[k].saved => journal' = {}
BY DEF JournalShape, JournalIsKept, JournalAfter

LEMMA LateAckReturnsKeeps ==
  ASSUME Parameters, TypeOK, Shapes, LateAckReturns PROVE Shapes'
<1> USE DEF Slots
<1>0. ack \in [Slots -> AckType]
  BY TypeParts
<1>1. JournalIsKept
  <2>1. JournalShape
    BY DEF Shapes
  <2> QED
    BY <2>1, AckEnds DEF LateAckReturns
<1>2. LocalStep
  BY <1>0, <1>1 DEF LateAckReturns, LocalStep, KeptLists, NoAck, streamVars, followVars, historyVars
<1>3. JournalShape'
  <2>1. visit' = visit /\ cursor' = cursor /\ ack' = [ack EXCEPT !["late"] = NoAck]
    BY DEF LateAckReturns, followVars
  <2>2. ack'["visit"] = ack["visit"] /\ ack'["late"] = NoAck
    BY <1>0, <2>1
  <2> QED
    BY <1>1, <2>1, <2>2 DEF Shapes, JournalShape, JournalIsKept, Moved, Followed, NoAck
<1> QED
  BY <1>2, <1>3, LocalKeeps

LEMMA AckReturnsKeeps ==
  ASSUME Parameters, TypeOK, Shapes, AckReturns PROVE Shapes'
<1> USE DEF Slots
<1>0. ack \in [Slots -> AckType] /\ visit \in VisitType
  BY TypeParts
<1>1. JournalIsKept /\ (ack["visit"].answer = "done" /\ journal = ack["visit"].saved => journal' = {})
  <2>1. JournalShape
    BY DEF Shapes
  <2> QED
    BY <2>1, AckEnds DEF AckReturns
<1>2. visit'.selection = visit.selection
  BY <1>0 DEF AckReturns, Goto, VisitType
<1>3. LocalStep
  BY <1>0, <1>1, <1>2 DEF AckReturns, LocalStep, KeptLists, NoAck, streamVars, followVars, historyVars
<1>4. JournalShape'
  <2>1. cursor' = cursor /\ ack' = [ack EXCEPT !["visit"] = NoAck]
    BY DEF AckReturns, followVars
  <2>2. ack'["late"] = ack["late"] /\ ack'["visit"] = NoAck
    BY <1>0, <2>1
  <2>3. visit'.stage \in {"running", "ready", "unsettled"}
        /\ (visit'.stage = "ready" => visit.stage = "acking" /\ ack["visit"].answer = "done")
    BY <1>0 DEF AckReturns, Goto, InStage, VisitType
  <2>4. visit'.stage = "ready" => journal' = {}
    BY <1>1, <2>3 DEF Shapes, JournalShape, JournalIsKept
  <2> QED
    BY <1>1, <2>1, <2>2, <2>3, <2>4 DEF Shapes, JournalShape, Moved, Followed, NoAck
<1> QED
  BY <1>3, <1>4, LocalKeeps

LEMMA StartVisitKeeps ==
  ASSUME Parameters, TypeOK, Shapes, NEW setup \in Setups, StartVisit(setup) PROVE Shapes'
<1> USE DEF Slots
<1>0. ack \in [Slots -> AckType]
  BY TypeParts
<1>1. /\ journal' = journal /\ cursor' = cursor /\ visit'.selection = NoSelection
      /\ visit'.stage = IF journal = {} THEN "ready" ELSE "acking"
  BY DEF StartVisit, NoVisit, localVars, followVars
<1>2. /\ ack'["late"] = ack["late"]
      /\ journal = {} => ack'["visit"] = ack["visit"]
      /\ journal # {} => ack'["visit"] = AckOf(journal)
  BY <1>0 DEF StartVisit
<1>3. LocalStep
  BY <1>1, <1>2 DEF StartVisit, LocalStep, JournalIsKept, KeptLists, AckOf, streamVars, followVars, historyVars
<1>4. JournalShape'
  BY <1>1, <1>2 DEF Shapes, JournalShape, Moved, Followed, AckOf
<1> QED
  BY <1>3, <1>4, LocalKeeps

LEMMA PlainStepsKeep ==
  ASSUME Parameters, TypeOK, Shapes, CommitPlain \/ LogOff \/ UNCHANGED vars PROVE Shapes'
<1>0. visit \in VisitType
  BY TypeParts
<1>1. /\ journal' = journal /\ cursor' = cursor /\ ack' = ack /\ visit'.selection = visit.selection
      /\ visit'.stage \in {visit.stage, "committed"}
  BY <1>0 DEF CommitPlain, LogOff, vars, Goto, followVars, VisitType
<1>2. LocalStep
  BY <1>1 DEF CommitPlain, LogOff, vars, LocalStep, JournalIsKept, KeptLists, streamVars, followVars, historyVars, Slots
<1>3. JournalShape'
  BY <1>1 DEF Shapes, JournalShape, Moved, Followed
<1> QED
  BY <1>2, <1>3, LocalKeeps

LEMMA ReacknowledgeKeeps ==
  ASSUME Parameters, TypeOK, Shapes, Reacknowledge PROVE Shapes'
<1> USE DEF Slots
<1>0. visit \in VisitType /\ ack \in [Slots -> AckType]
  BY TypeParts
<1>1. /\ journal' = journal /\ cursor' = cursor /\ visit'.selection = visit.selection
      /\ visit'.stage \in {"reacking", "running"}
  BY <1>0 DEF Reacknowledge, Goto, localVars, followVars, VisitType
<1>2. ack'["late"] = ack["late"] /\ ack'["visit"] \in {ack["visit"], AckOf(journal)}
  BY <1>0 DEF Reacknowledge
<1>3. LocalStep
  BY <1>1, <1>2 DEF Reacknowledge, LocalStep, JournalIsKept, KeptLists, AckOf, streamVars, followVars, historyVars
<1>4. JournalShape'
  BY <1>1, <1>2 DEF Shapes, JournalShape, Moved, Followed, AckOf
<1> QED
  BY <1>3, <1>4, LocalKeeps

LEMMA VisitEndsKeeps ==
  ASSUME Parameters, TypeOK, Shapes, VisitEnds PROVE Shapes'
<1> USE DEF Slots
<1>0. ack \in [Slots -> AckType]
  BY TypeParts
<1>1. journal' = journal /\ cursor' = cursor /\ visit' = NoVisit
  BY DEF VisitEnds, localVars, followVars
<1>2. ack'["visit"] = NoAck /\ ack'["late"] \in {ack["late"], ack["visit"], AckOf(journal), NoAck}
  BY <1>0 DEF VisitEnds, Outliving
<1>3. LocalStep
  BY <1>1, <1>2 DEF VisitEnds, LocalStep, JournalIsKept, KeptLists, AckOf, NoAck, NoVisit,
                    streamVars, followVars, historyVars
<1>4. JournalShape'
  BY <1>1, <1>2 DEF Shapes, JournalShape, Moved, Followed, AckOf, NoAck, NoVisit
<1> QED
  BY <1>3, <1>4, LocalKeeps

LEMMA RestartKeeps ==
  ASSUME Parameters, TypeOK, Shapes, Restart PROVE Shapes'
<1> USE DEF Slots
<1>0. ack \in [Slots -> AckType]
  BY TypeParts
<1>1. journal' = journal /\ cursor' = cursor /\ visit' = NoVisit
  BY DEF Restart, localVars, followVars
<1>2. PICK k \in Slots : ack' = [ack EXCEPT !["visit"] = NoAck,
                                    !["late"] = IF ack[k].answer = "waiting"
                                                THEN [ack[k] EXCEPT !.live = FALSE] ELSE NoAck]
  BY DEF Restart
<1>3. ack'["visit"] = NoAck
  BY <1>0, <1>2
<1>4. /\ ack'["late"].saved \in {ack[k].saved, {}}
      /\ ack'["late"].answer # "done"
  BY <1>0, <1>2 DEF AckType, NoAck
<1>5. LocalStep
  <2>1. \A i \in Slots : ack'[i].saved \in KeptLists
    BY <1>3, <1>4 DEF KeptLists, NoAck
  <2> QED
    BY <1>1, <2>1 DEF Restart, LocalStep, JournalIsKept, NoVisit, streamVars, followVars, historyVars
<1>6. JournalShape'
  BY <1>1, <1>3, <1>4 DEF Shapes, JournalShape, NoAck, NoVisit
<1> QED
  BY <1>5, <1>6, LocalKeeps

LEMMA EraseKeeps ==
  ASSUME Parameters, TypeOK, Shapes, BeginErase \/ EraseEnds PROVE Shapes'
<1> USE DEF Slots
<1>0. ack \in [Slots -> AckType]
  BY TypeParts
<1>1. ASSUME BeginErase PROVE Shapes'
  <2>1. journal' = journal /\ cursor' = cursor /\ visit'.selection = NoSelection /\ visit'.stage = "erasing"
    BY <1>1 DEF BeginErase, NoVisit, localVars, followVars
  <2>2. /\ ack'["late"] = ack["late"]
        /\ journal = {} => ack'["visit"] = ack["visit"]
        /\ journal # {} => ack'["visit"] = AckOf(journal)
    BY <1>0, <1>1 DEF BeginErase
  <2>3. LocalStep
    BY <1>1, <2>1, <2>2 DEF BeginErase, LocalStep, JournalIsKept, KeptLists, AckOf, streamVars, followVars, historyVars
  <2>4. JournalShape'
    BY <2>1, <2>2 DEF Shapes, JournalShape, Moved, Followed, AckOf
  <2> QED
    BY <2>3, <2>4, LocalKeeps
<1>2. ASSUME EraseEnds PROVE Shapes'
  <2>1. /\ cursor' = cursor /\ visit' = NoVisit /\ ack' = [ack EXCEPT !["visit"] = NoAck]
        /\ visit.stage = "erasing" /\ ack["visit"].answer # "waiting"
        /\ journal' = IF ack["visit"].answer = "failed" THEN journal ELSE {}
    BY <1>2 DEF EraseEnds, InStage, localVars, followVars
  <2>2. ack'["late"] = ack["late"] /\ ack'["visit"] = NoAck
    BY <1>0, <2>1
  <2>3. JournalIsKept
    <3>1. ack["visit"].answer \in {"none", "waiting", "done", "failed"}
      BY <1>0 DEF AckType
    <3> QED
      BY <2>1, <3>1 DEF Shapes, JournalShape, JournalIsKept
  <2>4. LocalStep
    BY <1>2, <2>1, <2>2, <2>3 DEF EraseEnds, LocalStep, KeptLists, NoAck, NoVisit, streamVars, followVars, historyVars
  <2>5. JournalShape'
    BY <2>1, <2>2 DEF Shapes, JournalShape, Moved, Followed, NoAck, NoVisit
  <2> QED
    BY <2>4, <2>5, LocalKeeps
<1> QED
  BY <1>1, <1>2

(***************************************************************************)
(* The stream and the follow rows.                                         *)
(***************************************************************************)
\* A step that moves cursors forward, past accounted events only.
CursorStep ==
  /\ UNCHANGED <<events, high, base, visit, journal, noticed, repeated>>
  /\ settled \subseteq settled'
  /\ cursor' \in [Actors -> {NotFollowed} \cup 0..MaxSequence]
  /\ \A a \in Actors : /\ ~Followed(a) <=> cursor'[a] = NotFollowed
                       /\ cursor[a] <= cursor'[a] /\ cursor'[a] <= high
                       /\ Followed(a) =>
                            \A e \in events : e.actor = a /\ base[a] < e.sequence /\ e.sequence <= cursor'[a] =>
                              e.sequence \in noticed \cup settled'
  /\ \A k \in Slots : ack'[k].saved \in KeptLists

LEMMA CursorKeeps ==
  ASSUME TypeOK, Shapes, CursorStep, JournalShape' PROVE Shapes'
<1>0. /\ events' = events /\ high' = high /\ base' = base /\ visit' = visit /\ journal' = journal
      /\ noticed' = noticed /\ repeated' = repeated /\ settled \subseteq settled'
  BY DEF CursorStep
<1>1. StreamShape' /\ (repeated = {})'
  BY <1>0 DEF Shapes, StreamShape, CursorStep
<1>2. Lists'
  <2>1. \A k \in Slots : IsList(ack[k].saved)'
    BY <1>0, KeptListsShape DEF IsList, CursorStep
  <2> QED
    BY <1>0, <2>1 DEF Shapes, Lists, IsList, SelectionList
<1>3. NoticesShape'
  <2>1. ASSUME NEW e \in events, Followed(e.actor)', e.sequence \in noticed
        PROVE  e.sequence <= cursor'[e.actor] \/ \E r \in journal : r.actor = e.actor /\ e.sequence <= r.through
    <3>1. /\ e.actor \in Actors /\ e.sequence \in Int /\ cursor[e.actor] \in Int /\ cursor'[e.actor] \in Int
          /\ Followed(e.actor) /\ cursor[e.actor] <= cursor'[e.actor]
      BY <2>1 DEF TypeOK, Events, Sequences, NotFollowed, Followed, CursorStep
    <3> QED
      BY <2>1, <3>1 DEF Shapes, NoticesShape
  <2> QED
    BY <1>0, <2>1 DEF Shapes, NoticesShape, NoticedUpTo, SelectionList
<1>4. AccountedShape'
  <2>1. \A a \in Actors : Followed(a)' => Accounted(a, cursor[a])'
    BY <1>0 DEF CursorStep, Accounted, Followed
  <2>2. \A a, n : Accounted(a, n) => Accounted(a, n)'
    BY <1>0 DEF Accounted
  <2>3. \A r : NeedsNone(r) => NeedsNone(r)'
    BY <1>0 DEF NeedsNone
  <2>4. \A k \in Slots : \A r \in ack'[k].saved : Accounted(r.actor, r.through)'
    BY <2>2, KeptListsShape DEF CursorStep
  <2>5. /\ \A r \in journal' : Accounted(r.actor, r.through)'
        /\ \A p \in visit'.selection.probes : Accounted(p.actor, p.cursor)'
        /\ \A r \in SelectionList' : Accounted(r.actor, r.from)'
        /\ \A r \in visit'.selection.silent : NeedsNone(r)'
    BY <1>0, <2>2, <2>3 DEF Shapes, AccountedShape, SelectionList
  <2> QED
    BY <2>1, <2>4, <2>5 DEF AccountedShape
<1> QED
  BY <1>1, <1>2, <1>3, <1>4 DEF Shapes

\* Receipts stay moved when cursors move.
LEMMA MovedStays ==
  ASSUME TypeOK, CursorStep, NEW r \in Receipts, Moved(r) PROVE Moved(r)'
<1>1. /\ r.actor \in Actors /\ r.through \in Int /\ cursor[r.actor] \in Int /\ cursor'[r.actor] \in Int
      /\ cursor[r.actor] <= cursor'[r.actor]
  BY DEF TypeOK, Receipts, Sequences, CursorStep, NotFollowed
<1> QED
  BY <1>1 DEF Moved, CursorStep, Followed

\* D1 executes an acknowledgement, or may have when the call failed.
LEMMA AcknowledgedAccounted ==
  ASSUME Parameters, TypeOK, Shapes, NEW k \in Slots,
         UNCHANGED <<events, high, base, visit, journal, noticed, repeated, settled>>,
         cursor' = Acknowledged(ack[k].saved), \A i \in Slots : ack'[i].saved \in KeptLists
  PROVE  CursorStep /\ \A r \in ack[k].saved : Moved(r)'
<1> DEFINE receipts == ack[k].saved
<1>1. /\ receipts \in KeptLists /\ IsList(receipts) /\ receipts \in SUBSET Receipts
      /\ \A r \in receipts : Accounted(r.actor, r.through)
  <2>1. receipts \in KeptLists
    BY DEF KeptLists, Slots
  <2> HIDE DEF receipts
  <2> QED
    BY <2>1, KeptListsShape
<1>2. cursor' = Acknowledged(receipts)
  OBVIOUS
<1> HIDE DEF receipts
<1>3. /\ cursor' \in [Actors -> {NotFollowed} \cup 0..MaxSequence]
      /\ \A a \in Actors :
           /\ ~Followed(a) <=> cursor'[a] = NotFollowed
           /\ cursor[a] <= cursor'[a] /\ cursor'[a] <= high
           /\ cursor'[a] = cursor[a] \/ \E r \in receipts : r.actor = a /\ cursor'[a] = r.through
      /\ \A r \in receipts : Followed(r.actor) => r.through <= cursor'[r.actor]
  <2>1. StreamShape
    BY DEF Shapes
  <2> QED
    BY <1>1, <1>2, <2>1, AckMoves
<1>4. ASSUME NEW a \in Actors, Followed(a) PROVE Accounted(a, cursor'[a])
  <2>1. CASE cursor'[a] = cursor[a]
    BY <1>4, <2>1 DEF Shapes, AccountedShape
  <2>2. CASE \E r \in receipts : r.actor = a /\ cursor'[a] = r.through
    BY <1>1, <2>2
  <2> QED
    BY <1>3, <2>1, <2>2
<1>5. CursorStep
  BY <1>3, <1>4 DEF CursorStep, Accounted
<1>6. \A r \in receipts : Moved(r)'
  <2>1. \A r \in receipts : r.actor \in Actors
    BY <1>1 DEF Receipts
  <2> QED
    BY <1>3, <2>1 DEF Moved, Followed
<1> QED
  BY <1>5, <1>6 DEF receipts

LEMMA UnmovedCursors ==
  ASSUME Parameters, TypeOK, Shapes,
         UNCHANGED <<events, high, cursor, base, visit, journal, noticed, repeated, settled>>,
         \A i \in Slots : ack'[i].saved \in KeptLists
  PROVE  CursorStep
<1>1. \A a \in Actors : cursor[a] \in Int /\ cursor[a] <= high
  BY DEF TypeOK, NotFollowed, Shapes, StreamShape
<1>2. \A a \in Actors : Followed(a) => Accounted(a, cursor[a])
  BY DEF Shapes, AccountedShape
<1>3. cursor' \in [Actors -> {NotFollowed} \cup 0..MaxSequence]
  BY DEF TypeOK
<1> QED
  BY <1>1, <1>2, <1>3 DEF CursorStep, Accounted, Followed

LEMMA AckKeeps ==
  ASSUME Parameters, TypeOK, Shapes, NEW k \in Slots, AckExecutes(k) \/ AckFails(k) PROVE Shapes'
<1>0. ack \in [Slots -> AckType]
  BY TypeParts
<1>1. /\ UNCHANGED <<events, high, base, visit, journal, noticed, repeated, settled>>
      /\ cursor' \in {cursor, Acknowledged(ack[k].saved)}
      /\ AckExecutes(k) => cursor' = Acknowledged(ack[k].saved)
      /\ ack[k].answer = "waiting"
  BY DEF AckExecutes, AckFails, streamVars, localVars, historyVars
<1>2. /\ \A i \in Slots \ {k} : ack'[i] = ack[i]
      /\ ack'[k].saved \in {{}, ack[k].saved}
      /\ ack[k].live => ack'[k].saved = ack[k].saved /\ ack'[k].live /\ ack'[k].answer \in {"done", "failed"}
      /\ ack'[k].answer = "done" => AckExecutes(k) /\ ack'[k].saved = ack[k].saved
  <2>1. \A i \in Slots \ {k} : ack'[i] = ack[i]
    BY <1>0 DEF AckExecutes, AckFails
  <2>2. CASE AckExecutes(k)
    BY <1>0, <2>1, <2>2 DEF AckExecutes, NoAck, AckType
  <2>3. CASE AckFails(k)
    BY <1>0, <2>1, <2>3 DEF AckFails, NoAck, AckType
  <2> QED
    BY <2>1, <2>2, <2>3
<1>3. \A i \in Slots : ack'[i].saved \in KeptLists
  BY <1>2 DEF KeptLists, Slots
<1>4. CursorStep /\ (cursor' = Acknowledged(ack[k].saved) => \A r \in ack[k].saved : Moved(r)')
  BY <1>1, <1>3, AcknowledgedAccounted, UnmovedCursors
<1>5. JournalShape'
  <2>1. \A i \in Slots : ack'[i].answer = "done" => (\A r \in ack'[i].saved : Moved(r)')
    <3> SUFFICES ASSUME NEW i \in Slots, ack'[i].answer = "done", NEW r \in ack'[i].saved PROVE Moved(r)'
      OBVIOUS
    <3>1. CASE i = k
      BY <1>1, <1>2, <1>4, <3>1
    <3>2. CASE i # k
      <4>1. r \in Receipts /\ Moved(r)
        BY <1>0, <1>2, <3>2 DEF Shapes, JournalShape, AckType
      <4> QED
        BY <1>4, <4>1, MovedStays
    <3> QED
      BY <3>1, <3>2
  <2>2. ack'["visit"].live /\ (ack["visit"].answer # "none" =>
                                 ack'["visit"].answer # "none" /\ ack'["visit"].saved = ack["visit"].saved)
    <3>1. CASE k = "visit"
      BY <1>2, <3>1 DEF Shapes, JournalShape
    <3>2. CASE k # "visit"
      BY <1>2, <3>2 DEF Shapes, JournalShape, Slots
    <3> QED
      BY <3>1, <3>2
  <2>3. journal' = journal /\ visit' = visit
    BY <1>1
  <2> QED
    BY <2>1, <2>2, <2>3 DEF Shapes, JournalShape
<1> QED
  BY <1>4, <1>5, CursorKeeps

LEMMA DismissKeeps ==
  ASSUME Parameters, TypeOK, Shapes, NEW e \in events, Dismiss(e) PROVE Shapes'
<1> DEFINE receipts == {[actor |-> e.actor, from |-> cursor[e.actor], through |-> e.sequence]}
<1>1. e.actor \in Actors /\ e.sequence \in Sequences /\ cursor[e.actor] \in 0..MaxSequence /\ e.sequence <= high
      /\ Followed(e.actor)
  BY DEF TypeOK, Events, Dismiss, Followed, Shapes, StreamShape
<1>2. receipts \in SUBSET Receipts /\ IsList(receipts)
  BY <1>1 DEF Receipts, IsList
<1>3. cursor' = Acknowledged(receipts) /\ \A r \in receipts : r.actor = e.actor /\ r.through = e.sequence
  BY DEF Dismiss
<1> HIDE DEF receipts
<1>4. /\ cursor' \in [Actors -> {NotFollowed} \cup 0..MaxSequence]
      /\ \A a \in Actors :
           /\ ~Followed(a) <=> cursor'[a] = NotFollowed
           /\ cursor[a] <= cursor'[a] /\ cursor'[a] <= high
           /\ cursor'[a] = cursor[a] \/ \E r \in receipts : r.actor = a /\ cursor'[a] = r.through
  BY <1>2, <1>3, AckMoves DEF Shapes
<1>5. /\ UNCHANGED <<events, high, base, visit, journal, ack, noticed, repeated>>
      /\ settled' = settled \cup Covered(e.actor, cursor[e.actor], e.sequence)
  BY DEF Dismiss, streamVars, localVars, historyVars
<1>6. ASSUME NEW a \in Actors, Followed(a), NEW f \in events, f.actor = a, base[a] < f.sequence,
             f.sequence <= cursor'[a]
      PROVE  f.sequence \in noticed \cup settled'
  <2>1. CASE f.sequence <= cursor[a]
    BY <1>5, <1>6, <2>1 DEF Shapes, AccountedShape, Accounted
  <2>2. CASE ~(f.sequence <= cursor[a])
    <3>1. a = e.actor /\ f.sequence <= e.sequence
      BY <1>3, <1>4, <1>6, <2>2
    <3>2. f.sequence > cursor[a]
      BY <1>1, <1>6, <2>2, <3>1 DEF TypeOK, Events, Sequences
    <3>3. f.sequence \in Covered(e.actor, cursor[e.actor], e.sequence)
      BY <1>6, <3>1, <3>2 DEF Covered
    <3> QED
      BY <1>5, <3>3
  <2> QED
    BY <2>1, <2>2
<1>7. CursorStep
  BY <1>4, <1>5, <1>6 DEF CursorStep, KeptLists, Slots
<1>8. JournalShape'
  <2>1. ASSUME NEW k \in Slots, ack[k].answer = "done", NEW r \in ack[k].saved PROVE Moved(r)'
    <3>1. r \in Receipts /\ Moved(r)
      BY <2>1 DEF TypeOK, Shapes, JournalShape
    <3> QED
      BY <1>7, <3>1, MovedStays
  <2> QED
    BY <1>5, <2>1 DEF Shapes, JournalShape
<1> QED
  BY <1>7, <1>8, CursorKeeps

\* What a step of the stream leaves alone.
ObjectKept == UNCHANGED <<visit, journal, ack, noticed, repeated, settled>>

LEMMA PublishKeeps ==
  ASSUME Parameters, TypeOK, Shapes, NEW a \in Actors, NEW direct \in BOOLEAN, Publish(a, direct)
  PROVE  Shapes'
<1> DEFINE new == [sequence |-> high + 1, actor |-> a, direct |-> direct]
<1>0. /\ ObjectKept /\ cursor' = cursor /\ base' = base /\ high' = high + 1
      /\ events' = events \cup {new}
  BY DEF Publish, ObjectKept, followVars, localVars, historyVars
<1>1. /\ high \in Int /\ \A e \in events : e.sequence \in Int /\ e.sequence <= high
      /\ \A n \in noticed : n \in Int /\ n <= high
      /\ \A b \in Actors : cursor[b] \in Int /\ cursor[b] <= high
  BY DEF TypeOK, Events, Sequences, NotFollowed, Shapes, StreamShape, Parameters
<1>2. new.sequence = high + 1
  OBVIOUS
<1> HIDE DEF new
<1>3. StreamShape' /\ (repeated = {})'
  BY <1>0, <1>1, <1>2 DEF Shapes, StreamShape, ObjectKept
<1>4. \A r \in Receipts : r.through \in Int /\ r.from \in Int /\ r.actor \in Actors
  BY DEF Receipts, Sequences, Parameters
<1>5. ASSUME NEW receipts \in SUBSET Receipts, IsList(receipts) PROVE IsList(receipts)'
  BY <1>0, <1>1, <1>4, <1>5 DEF IsList
<1>6. /\ journal \in SUBSET Receipts /\ SelectionList \in SUBSET Receipts
      /\ \A k \in Slots : ack[k].saved \in SUBSET Receipts
      /\ \A p \in visit.selection.probes : p.cursor \in Int
  BY DEF TypeOK, SelectionList, Selections
<1>7. Lists'
  <2>1. IsList(journal)' /\ IsList(SelectionList)' /\ \A k \in Slots : IsList(ack[k].saved)'
    BY <1>0, <1>5, <1>6 DEF Shapes, Lists, ObjectKept, SelectionList
  <2>2. /\ \A r \in SelectionList' : r.from <= high'
        /\ \A p \in visit'.selection.probes : p.cursor <= high'
    BY <1>0, <1>1, <1>4, <1>6 DEF Shapes, Lists, ObjectKept, SelectionList
  <2> QED
    BY <1>0, <2>1, <2>2 DEF Shapes, Lists, ObjectKept
<1>8. JournalShape'
  BY <1>0 DEF Shapes, JournalShape, ObjectKept, Moved, Followed
<1>9. \A b, n : NoticedUpTo(b, n) => NoticedUpTo(b, n)'
  BY <1>0, <1>1, <1>2 DEF NoticedUpTo, ObjectKept
<1>10. NoticesShape'
  <2>1. new.sequence \notin noticed
    BY <1>1, <1>2
  <2> QED
    BY <1>0, <1>9, <2>1 DEF Shapes, NoticesShape, ObjectKept, Followed, SelectionList
<1>11. \A b : \A n \in Int : n <= high /\ Accounted(b, n) => Accounted(b, n)'
  BY <1>0, <1>1, <1>2 DEF Accounted, ObjectKept
<1>12. AccountedShape'
  <2>1. \A b \in Actors : Followed(b)' => Accounted(b, cursor[b])'
    BY <1>0, <1>1, <1>11 DEF Shapes, AccountedShape, Followed
  <2>2. ASSUME NEW receipts \in SUBSET Receipts, IsList(receipts), NEW r \in receipts
        PROVE  r.through <= high /\ r.through \in Int
    BY <1>4, <2>2 DEF IsList
  <2>3. /\ \A r \in journal : Accounted(r.actor, r.through)'
        /\ \A k \in Slots : \A r \in ack[k].saved : Accounted(r.actor, r.through)'
    BY <1>6, <1>11, <2>2 DEF Shapes, AccountedShape, Lists
  <2>4. \A p \in visit.selection.probes : Accounted(p.actor, p.cursor)'
    BY <1>6, <1>11 DEF Shapes, AccountedShape, Lists
  <2>5. ASSUME NEW r \in SelectionList PROVE Accounted(r.actor, r.from)'
    <3>1. Accounted(r.actor, r.from) /\ r.from \in Int /\ r.from <= high
      BY <1>4, <1>6 DEF Shapes, AccountedShape, Lists
    <3> QED
      BY <1>11, <3>1
  <2>6. ASSUME NEW r \in visit.selection.silent PROVE NeedsNone(r)'
    <3>1. NeedsNone(r) /\ r.through <= high /\ r.through \in Int
      BY <1>4, <1>6 DEF Shapes, AccountedShape, Lists, IsList, SelectionList
    <3> QED
      BY <1>0, <1>1, <1>2, <3>1 DEF NeedsNone, ObjectKept
  <2> QED
    BY <1>0, <2>1, <2>3, <2>4, <2>5, <2>6 DEF AccountedShape, ObjectKept, SelectionList
<1> QED
  BY <1>3, <1>7, <1>8, <1>10, <1>12 DEF Shapes

LEMMA PruneKeeps ==
  ASSUME Parameters, TypeOK, Shapes, NEW e \in events, Prune(e) PROVE Shapes'
<1>0. ObjectKept /\ cursor' = cursor /\ base' = base /\ high' = high /\ events' \subseteq events
  BY DEF Prune, ObjectKept, followVars, localVars, historyVars
<1>1. StreamShape' /\ (repeated = {})' /\ Lists' /\ JournalShape'
  BY <1>0 DEF Shapes, StreamShape, Lists, IsList, JournalShape, ObjectKept, SelectionList, Moved, Followed
<1>2. \A a, n : (Accounted(a, n) => Accounted(a, n)') /\ (NoticedUpTo(a, n) => NoticedUpTo(a, n)')
  BY <1>0 DEF Accounted, NoticedUpTo, ObjectKept
<1>3. \A r : NeedsNone(r) => NeedsNone(r)'
  BY <1>0 DEF NeedsNone, ObjectKept
<1>4. NoticesShape'
  BY <1>0, <1>2 DEF Shapes, NoticesShape, ObjectKept, SelectionList, Followed
<1>5. AccountedShape'
  BY <1>0, <1>2, <1>3 DEF Shapes, AccountedShape, ObjectKept, SelectionList, Followed
<1> QED
  BY <1>1, <1>4, <1>5 DEF Shapes

\* A new follow row starts at the end of what is published.
LEMMA FollowKeeps ==
  ASSUME Parameters, TypeOK, Shapes, NEW a \in Actors, Follow(a) PROVE Shapes'
<1>0. ObjectKept /\ high' = high /\ events' = events
  BY DEF Follow, ObjectKept, streamVars, localVars, historyVars
<1>1. \A b \in Actors : /\ cursor'[b] = (IF b = a THEN high ELSE cursor[b])
                        /\ base'[b] = (IF b = a THEN high ELSE base[b])
  BY DEF Follow, TypeOK
<1>2. /\ high \in Int /\ high >= 0
      /\ \A e \in events : e.sequence \in Int /\ e.sequence <= high /\ e.actor \in Actors
      /\ \A r \in Receipts : r.through \in Int /\ r.actor \in Actors
  BY DEF TypeOK, Events, Sequences, Receipts, Shapes, StreamShape, Parameters
<1>3. StreamShape' /\ (repeated = {})' /\ Lists'
  BY <1>0, <1>1, <1>2 DEF Shapes, StreamShape, Lists, IsList, ObjectKept, SelectionList
<1>4. JournalShape'
  <2>1. ASSUME NEW k \in Slots, ack[k].answer = "done", NEW r \in ack[k].saved PROVE Moved(r)'
    <3>1. r \in Receipts /\ Moved(r) /\ r.through <= high
      BY <2>1 DEF TypeOK, Shapes, JournalShape, Lists, IsList
    <3> QED
      BY <1>1, <1>2, <3>1 DEF Moved, Followed
  <2> QED
    BY <1>0, <2>1 DEF Shapes, JournalShape, ObjectKept
<1>5. \A b, n : NoticedUpTo(b, n) => NoticedUpTo(b, n)'
  BY <1>0 DEF NoticedUpTo, ObjectKept
<1>6. NoticesShape'
  <2>1. ASSUME NEW e \in events, Followed(e.actor)', e.sequence \in noticed
        PROVE  e.sequence <= cursor'[e.actor] \/ \E r \in journal : r.actor = e.actor /\ e.sequence <= r.through
    BY <1>1, <1>2, <2>1 DEF Shapes, NoticesShape, Followed
  <2> QED
    BY <1>0, <1>5, <2>1 DEF Shapes, NoticesShape, ObjectKept, SelectionList
<1>7. \A b \in Actors : \A n : Accounted(b, n) => Accounted(b, n)'
  <2> SUFFICES ASSUME NEW b \in Actors, NEW n, Accounted(b, n) PROVE Accounted(b, n)'
    OBVIOUS
  <2>1. CASE b = a
    BY <1>0, <1>1, <1>2, <2>1 DEF Accounted
  <2>2. CASE b # a
    BY <1>0, <1>1, <2>2 DEF Accounted, ObjectKept
  <2> QED
    BY <2>1, <2>2
<1>8. \A r \in Receipts : NeedsNone(r) => NeedsNone(r)'
  <2> SUFFICES ASSUME NEW r \in Receipts, NeedsNone(r) PROVE NeedsNone(r)'
    OBVIOUS
  <2>0. r.actor \in Actors
    BY <1>2
  <2>1. CASE r.actor = a
    BY <1>0, <1>1, <1>2, <2>0, <2>1 DEF NeedsNone
  <2>2. CASE r.actor # a
    BY <1>0, <1>1, <2>0, <2>2 DEF NeedsNone, ObjectKept
  <2> QED
    BY <2>1, <2>2
<1>9. AccountedShape'
  <2>1. ASSUME NEW b \in Actors, Followed(b)' PROVE Accounted(b, cursor[b])'
    <3>1. CASE b = a
      BY <1>0, <1>1, <1>2, <3>1 DEF Accounted
    <3>2. CASE b # a
      <4>1. Followed(b) /\ cursor'[b] = cursor[b]
        BY <1>1, <2>1, <3>2 DEF Followed
      <4>2. Accounted(b, cursor[b])
        BY <4>1 DEF Shapes, AccountedShape
      <4> QED
        BY <1>0, <1>1, <3>2, <4>1, <4>2 DEF Accounted, ObjectKept
    <3> QED
      BY <3>1, <3>2
  <2>2. /\ journal \in SUBSET Receipts /\ SelectionList \in SUBSET Receipts
        /\ visit.selection.silent \in SUBSET Receipts
        /\ \A k \in Slots : ack[k].saved \in SUBSET Receipts
        /\ \A p \in visit.selection.probes : p.actor \in Actors
    BY DEF TypeOK, SelectionList, Selections
  <2>3. /\ \A r \in journal : Accounted(r.actor, r.through)'
        /\ \A k \in Slots : \A r \in ack[k].saved : Accounted(r.actor, r.through)'
        /\ \A p \in visit.selection.probes : Accounted(p.actor, p.cursor)'
        /\ \A r \in SelectionList : Accounted(r.actor, r.from)'
    BY <1>2, <1>7, <2>2 DEF Shapes, AccountedShape
  <2>4. \A r \in visit.selection.silent : NeedsNone(r)'
    BY <1>8, <2>2 DEF Shapes, AccountedShape
  <2> QED
    BY <1>0, <2>1, <2>3, <2>4 DEF AccountedShape, ObjectKept, SelectionList
<1> QED
  BY <1>3, <1>4, <1>6, <1>9 DEF Shapes

LEMMA UnfollowKeeps ==
  ASSUME Parameters, TypeOK, Shapes, NEW a \in Actors, Unfollow(a) PROVE Shapes'
<1>0. ObjectKept /\ high' = high /\ events' = events /\ base' = base
  BY DEF Unfollow, ObjectKept, streamVars, localVars, historyVars
<1>1. \A b \in Actors : cursor'[b] = (IF b = a THEN NotFollowed ELSE cursor[b])
  BY DEF Unfollow, TypeOK
<1>2. \A b \in Actors : Followed(b)' => Followed(b) /\ cursor'[b] = cursor[b]
  BY <1>1 DEF Followed
<1>3. /\ high \in Int /\ high >= 0
      /\ \A e \in events : e.actor \in Actors
      /\ \A r \in Receipts : r.actor \in Actors
  BY DEF TypeOK, Events, Receipts, Parameters
<1>4. StreamShape' /\ (repeated = {})' /\ Lists'
  BY <1>0, <1>1, <1>3 DEF Shapes, StreamShape, Lists, IsList, ObjectKept, SelectionList, NotFollowed
<1>5. JournalShape'
  <2>1. ASSUME NEW k \in Slots, ack[k].answer = "done", NEW r \in ack[k].saved PROVE Moved(r)'
    <3>1. r \in Receipts /\ Moved(r)
      BY <2>1 DEF TypeOK, Shapes, JournalShape
    <3> QED
      BY <1>2, <1>3, <3>1 DEF Moved
  <2> QED
    BY <1>0, <2>1 DEF Shapes, JournalShape, ObjectKept
<1>6. \A b, n : (NoticedUpTo(b, n) => NoticedUpTo(b, n)') /\ (Accounted(b, n) => Accounted(b, n)')
  BY <1>0 DEF NoticedUpTo, Accounted, ObjectKept
<1>7. \A r : NeedsNone(r) => NeedsNone(r)'
  BY <1>0 DEF NeedsNone, ObjectKept
<1>8. NoticesShape'
  <2>1. ASSUME NEW e \in events, Followed(e.actor)', e.sequence \in noticed
        PROVE  e.sequence <= cursor'[e.actor] \/ \E r \in journal : r.actor = e.actor /\ e.sequence <= r.through
    BY <1>2, <1>3, <2>1 DEF Shapes, NoticesShape
  <2> QED
    BY <1>0, <1>6, <2>1 DEF Shapes, NoticesShape, ObjectKept, SelectionList
<1>9. AccountedShape'
  <2>1. ASSUME NEW b \in Actors, Followed(b)' PROVE Accounted(b, cursor[b])'
    <3>1. Accounted(b, cursor[b]) /\ cursor'[b] = cursor[b]
      BY <1>2, <2>1 DEF Shapes, AccountedShape
    <3> QED
      BY <1>0, <3>1 DEF Accounted, ObjectKept
  <2> QED
    BY <1>0, <1>6, <1>7, <2>1 DEF Shapes, AccountedShape, ObjectKept, SelectionList
<1> QED
  BY <1>4, <1>5, <1>8, <1>9 DEF Shapes

(***************************************************************************)
(* The selection and its commit.                                           *)
(***************************************************************************)
\* What these steps leave alone.
StreamKept == UNCHANGED <<events, high, cursor, base, ack>>

LEMMA ProbeKeeps ==
  ASSUME Parameters, TypeOK, Shapes, ProbeFollows PROVE Shapes'
<1> DEFINE probes == {[actor |-> a, cursor |-> cursor[a], head |-> Head(a)] : a \in Chosen(Page(scan))}
<1>0. /\ StreamKept /\ UNCHANGED <<journal, noticed, repeated, settled>> /\ visit.stage = "ready"
      /\ visit'.stage = "probed" /\ visit'.selection.probes = probes
      /\ visit'.selection.notices = {} /\ visit'.selection.silent = {}
  <2>1. /\ StreamKept /\ UNCHANGED <<journal, noticed, repeated, settled>> /\ visit.stage = "ready"
        /\ visit' = [visit EXCEPT !.stage = "probed",
                       !.selection = [NoSelection EXCEPT !.probes = probes, !.next = NextAfter(Page(scan))]]
    BY DEF ProbeFollows, StreamKept, InStage, streamVars, followVars, localVars, historyVars
  <2> HIDE DEF probes
  <2> QED
    BY <2>1, TypeParts DEF VisitType, NoSelection
<1>1. ASSUME NEW p \in probes
      PROVE  /\ p.actor \in Actors /\ Followed(p.actor) /\ p.cursor = cursor[p.actor]
             /\ p.cursor <= high
             /\ p = [actor |-> p.actor, cursor |-> cursor[p.actor], head |-> Head(p.actor)]
  <2>1. PICK a \in Chosen(Page(scan)) : p = [actor |-> a, cursor |-> cursor[a], head |-> Head(a)]
    OBVIOUS
  <2>2. a \in Actors /\ Followed(a)
    BY ProbedType DEF Shapes
  <2> QED
    BY <2>1, <2>2 DEF Shapes, StreamShape
<1>2. \A p, q \in probes : p.actor = q.actor => p = q
  BY <1>1
<1> HIDE DEF probes
<1>3. journal = {}
  BY <1>0 DEF Shapes, JournalShape
<1>4. StreamShape' /\ (repeated = {})' /\ JournalShape'
  BY <1>0, <1>3 DEF Shapes, StreamShape, JournalShape, StreamKept, Moved, Followed
<1>5. SelectionList' = {}
  BY <1>0 DEF SelectionList
<1>6. Lists'
  BY <1>0, <1>1, <1>2, <1>5 DEF Shapes, Lists, IsList, StreamKept
<1>7. ASSUME NEW p \in probes PROVE NoticedUpTo(p.actor, p.cursor) /\ Accounted(p.actor, p.cursor)
  BY <1>1, <1>3 DEF Shapes, NoticesShape, NoticedUpTo, AccountedShape
<1>8. NoticesShape'
  BY <1>0, <1>5, <1>7 DEF Shapes, NoticesShape, StreamKept, NoticedUpTo, Followed
<1>9. AccountedShape'
  BY <1>0, <1>5, <1>7 DEF Shapes, AccountedShape, StreamKept, Accounted, Followed
<1> QED
  BY <1>4, <1>6, <1>8, <1>9 DEF Shapes

\* A receipt is silent only if every event between its ends was read and needs
\* no notice, or is behind the cursor by now.
LEMMA SilentNeedsNone ==
  ASSUME Parameters, TypeOK, Shapes, NEW p \in visit.selection.probes, Rows(p) # {}, Silent(Rows(p))
  PROVE  NeedsNone(ReceiptOf(p))
<1> DEFINE r == ReceiptOf(p)
           c == cursor[p.actor]
           range == {e \in events : e.actor = p.actor /\ e.sequence > p.cursor /\ e.sequence <= p.head}
           R == Rows(p)
<1>0. StreamShape
  BY DEF Shapes
<1>1. /\ r.actor = p.actor /\ r.from = p.cursor /\ Followed(p.actor)
      /\ p.actor \in Actors /\ p.cursor \in Int /\ p.head \in Int /\ c \in Int /\ RowsPerActor \in Nat
  BY <1>0, ReceiptType DEF TypeOK, Selections, NotFollowed, Parameters, Sequences
<1>2. R = {f \in range : Cardinality(Later(range, f)) < RowsPerActor /\ f.sequence > c}
  BY <1>1 DEF Rows, Later
<1>3. \A f \in events : f.sequence \in Int
  BY DEF TypeOK, Events, Sequences
<1>4. PICK last \in R : last.sequence = r.through /\ \A f \in R : f.sequence <= last.sequence
  BY <1>0, ReceiptType
<1>5. IsFiniteSet(R) /\ R \in SUBSET events /\ Cardinality(R) < RowsPerActor
  <2>1. R \in SUBSET events
    BY <1>2
  <2> QED
    BY <1>0, <2>1, EventsAreFinite, FS_Subset DEF Silent
<1>6. ASSUME NEW e \in R PROVE e.direct
  <2>1. Later(R, e) \in SUBSET (R \ {e})
    BY <1>3, <1>5 DEF Later
  <2>2. IsFiniteSet(R \ {e}) /\ Cardinality(R \ {e}) = Cardinality(R) - 1 /\ Cardinality(R) \in Nat
    <3> HIDE DEF R
    <3> QED
      BY <1>5, FS_RemoveElement, FS_CardinalityType
  <2>3. Cardinality(Later(R, e)) <= Cardinality(R) - 1 /\ Cardinality(Later(R, e)) \in Nat
    <3>1. IsFiniteSet(Later(R, e)) /\ Cardinality(Later(R, e)) <= Cardinality(R \ {e})
      BY <2>1, <2>2, FS_Subset
    <3> HIDE DEF R
    <3> QED
      BY <2>2, <3>1, FS_CardinalityType
  <2>4. Cardinality(Later(R, e)) < RowsPerActor - 1
    <3> HIDE DEF R
    <3> QED
      BY <1>1, <1>5, <2>2, <2>3
  <2>5. e \in Shown(R)
    BY <2>4 DEF Shown, Later
  <2> QED
    BY <2>5 DEF Silent
<1>7. ASSUME NEW e \in events, e.actor = p.actor, base[p.actor] < e.sequence,
             p.cursor < e.sequence, e.sequence <= r.through
      PROVE  e.direct \/ e.sequence \in noticed \cup settled
  <2>1. CASE e.sequence <= c
    <3>1. Accounted(p.actor, c)
      BY <1>1 DEF Shapes, AccountedShape
    <3> HIDE DEF c
    <3> QED
      BY <1>7, <2>1, <3>1 DEF Accounted
  <2>2. CASE ~(e.sequence <= c)
    <3>1. last \in range
      BY <1>2
    <3>2. last.sequence <= p.head
      BY <3>1
    <3>3. e.sequence > c /\ e.sequence <= p.head /\ e.sequence > p.cursor
      <4> HIDE DEF c
      <4> QED
        BY <1>1, <1>3, <1>4, <1>5, <1>7, <2>2, <3>2
    <3>4. e \in range
      BY <1>7, <3>3
    <3>5. Cardinality({f \in range : Cardinality(Later(range, f)) < RowsPerActor /\ f.sequence > c}) < RowsPerActor
      BY <1>2, <1>5
    <3>6. Cardinality(Later(range, e)) < RowsPerActor
      <4>1. range \in SUBSET events
        OBVIOUS
      <4> HIDE DEF range, c
      <4> QED
        BY <1>0, <1>1, <3>3, <3>4, <3>5, <4>1, NewestOf
    <3>7. e \in R
      BY <1>2, <3>3, <3>4, <3>6
    <3> QED
      BY <1>6, <3>7
  <2> QED
    BY <2>1, <2>2
<1> HIDE DEF r
<1> QED
  BY <1>1, <1>7 DEF NeedsNone, r

LEMMA ReadKeeps ==
  ASSUME Parameters, TypeOK, Shapes, ReadEvents PROVE Shapes'
<1> DEFINE found == {p \in visit.selection.probes : Rows(p) # {}}
           silent == {ReceiptOf(p) : p \in {q \in found : Silent(Rows(q))}}
           notices == {ReceiptOf(p) : p \in {q \in found : ~Silent(Rows(q))}}
<1>0. /\ StreamKept /\ UNCHANGED <<journal, noticed, repeated, settled>> /\ visit.stage = "probed"
      /\ visit'.stage = "selected" /\ visit'.selection.probes = {}
      /\ visit'.selection.notices = notices /\ visit'.selection.silent = silent
  <2>1. /\ StreamKept /\ UNCHANGED <<journal, noticed, repeated, settled>> /\ visit.stage = "probed"
        /\ visit' = [visit EXCEPT !.stage = "selected", !.selection.probes = {}, !.selection.silent = silent,
                                  !.selection.notices = notices]
    BY DEF ReadEvents, StreamKept, InStage, streamVars, followVars, localVars, historyVars
  <2> HIDE DEF silent, notices
  <2> QED
    BY <2>1, TypeParts DEF VisitType, Selections
<1>1. ASSUME NEW r \in silent \cup notices
      PROVE  \E p \in found : r = ReceiptOf(p) /\ (r \in silent => \E q \in found : r = ReceiptOf(q) /\ Silent(Rows(q)))
  OBVIOUS
<1>2. ASSUME NEW r \in silent \cup notices
      PROVE  \E p \in visit.selection.probes :
               r = ReceiptOf(p) /\ r.actor = p.actor /\ r.from = p.cursor /\ r.through <= high
  <2>1. PICK p \in found : r = ReceiptOf(p)
    BY <1>1
  <2>2. Rows(p) # {} /\ p \in visit.selection.probes
    OBVIOUS
  <2> QED
    BY <2>1, <2>2, ReceiptType DEF Shapes
<1>3. \A r \in silent : NeedsNone(r)
  BY SilentNeedsNone
<1> HIDE DEF found, silent, notices
<1>4. SelectionList' = silent \cup notices
  BY <1>0 DEF SelectionList
<1>5. ASSUME NEW r \in silent \cup notices, NEW q \in silent \cup notices, r.actor = q.actor PROVE r = q
  BY <1>2, <1>5 DEF Shapes, Lists
<1>6. ASSUME NEW r \in silent \cup notices
      PROVE  /\ r.through <= high /\ r.from <= high
             /\ NoticedUpTo(r.actor, r.from) /\ Accounted(r.actor, r.from)
  BY <1>2 DEF Shapes, Lists, NoticesShape, AccountedShape
<1>7. StreamShape' /\ (repeated = {})' /\ JournalShape'
  BY <1>0 DEF Shapes, StreamShape, JournalShape, StreamKept, Moved, Followed
<1>8. Lists'
  BY <1>0, <1>4, <1>5, <1>6 DEF Shapes, Lists, IsList, StreamKept
<1>9. NoticesShape'
  BY <1>0, <1>4, <1>6 DEF Shapes, NoticesShape, StreamKept, NoticedUpTo, Followed
<1>10. AccountedShape'
  BY <1>0, <1>3, <1>4, <1>6 DEF Shapes, AccountedShape, StreamKept, Accounted, NeedsNone, Followed
<1> QED
  BY <1>7, <1>8, <1>9, <1>10 DEF Shapes

\* No event of a selected notice was in one before, and every event up to the
\* end of a committed receipt is accounted for.
LEMMA CommitKeeps ==
  ASSUME Parameters, TypeOK, Shapes, NEW included \in SUBSET visit.selection.notices, Commit(included)
  PROVE  Shapes'
<1> DEFINE silent == visit.selection.silent
<1>0. /\ StreamKept /\ journal = {} /\ journal' = silent \cup included
      /\ noticed' = noticed \cup CoveredBy(included)
      /\ repeated' = repeated \cup (noticed \cap CoveredBy(included))
      /\ settled' = settled \cup {n \in CoveredBy(silent) : \A e \in events : e.sequence = n => e.direct}
      /\ visit'.stage = "committed" /\ visit'.selection = NoSelection
  <2>1. visit' = [visit EXCEPT !.stage = "committed", !.selection = NoSelection]
    BY DEF Commit
  <2>2. visit'.stage = "committed" /\ visit'.selection = NoSelection
    BY <2>1, TypeParts DEF VisitType
  <2> QED
    BY <2>2 DEF Commit, StreamKept, streamVars, followVars
<1>1. /\ journal' \subseteq SelectionList /\ journal' \in SUBSET Receipts
      /\ silent \in SUBSET Receipts /\ included \in SUBSET Receipts /\ included \in SUBSET SelectionList
  BY <1>0 DEF SelectionList, TypeOK, Selections
<1>2. /\ \A e \in events : e.sequence \in Int /\ e.actor \in Actors
      /\ \A r \in Receipts : r.through \in Int /\ r.from \in Int /\ r.actor \in Actors
      /\ \A a \in Actors : base[a] \in Int
  BY DEF TypeOK, Events, Sequences, Receipts, Parameters
<1>3. ASSUME NEW receipts, NEW e \in events, e.sequence \in CoveredBy(receipts)
      PROVE  \E r \in receipts : r.actor = e.actor /\ r.from < e.sequence /\ e.sequence <= r.through
  <2>1. PICK r \in receipts : e.sequence \in Covered(r.actor, r.from, r.through)
    BY <1>3 DEF CoveredBy
  <2>2. PICK f \in events : /\ f.sequence = e.sequence /\ f.actor = r.actor
                            /\ f.sequence > r.from /\ f.sequence <= r.through
    BY <2>1 DEF Covered
  <2>3. f = e
    BY <2>2 DEF Shapes, StreamShape
  <2> QED
    BY <1>2, <2>1, <2>2, <2>3
<1>4. ASSUME NEW receipts, NEW n \in CoveredBy(receipts) PROVE \E e \in events : e.sequence = n
  BY DEF CoveredBy, Covered
<1>5. noticed \cap CoveredBy(included) = {}
  <2> SUFFICES ASSUME NEW n \in noticed, n \in CoveredBy(included) PROVE FALSE
    OBVIOUS
  <2>1. PICK e \in events : e.sequence = n
    BY <1>4
  <2>2. PICK r \in included : r.actor = e.actor /\ r.from < e.sequence
    BY <1>3, <2>1
  <2>3. e.sequence <= r.from
    BY <1>1, <2>1, <2>2 DEF Shapes, NoticesShape, NoticedUpTo
  <2> QED
    BY <1>1, <1>2, <2>2, <2>3
<1>6. ASSUME NEW e \in events, NEW r \in included, r.actor = e.actor, r.from < e.sequence, e.sequence <= r.through
      PROVE  e.sequence \in CoveredBy(included)
  BY <1>1, <1>2, <1>6 DEF CoveredBy, Covered
<1>7. ASSUME NEW e \in events, NEW r \in silent, r.actor = e.actor, base[e.actor] < e.sequence,
             r.from < e.sequence, e.sequence <= r.through
      PROVE  e.sequence \in noticed' \cup settled'
  <2>1. NeedsNone(r)
    BY DEF Shapes, AccountedShape
  <2>2. CASE e.sequence \in noticed \cup settled
    BY <1>0, <2>2
  <2>3. CASE e.direct
    <3>1. e.sequence \in CoveredBy(silent)
      BY <1>1, <1>2, <1>7 DEF CoveredBy, Covered
    <3>2. \A f \in events : f.sequence = e.sequence => f.direct
      BY <2>3 DEF Shapes, StreamShape
    <3> QED
      BY <1>0, <3>1, <3>2
  <2> QED
    BY <1>7, <2>1, <2>2, <2>3 DEF NeedsNone
<1>8. ASSUME NEW r \in journal' PROVE Accounted(r.actor, r.through)'
  <2>0. /\ r \in Receipts /\ r \in SelectionList /\ (r \in silent \/ r \in included)
        /\ Accounted(r.actor, r.from)
    BY <1>0, <1>1 DEF Shapes, AccountedShape
  <2> SUFFICES ASSUME NEW e \in events, e.actor = r.actor, base[r.actor] < e.sequence, e.sequence <= r.through
               PROVE  e.sequence \in noticed' \cup settled'
    BY <1>0 DEF Accounted, StreamKept
  <2>1. CASE e.sequence <= r.from
    BY <1>0, <2>0, <2>1 DEF Accounted
  <2>2. CASE ~(e.sequence <= r.from)
    <3>1. r.from < e.sequence
      BY <1>2, <2>0, <2>2
    <3>2. CASE r \in silent
      BY <1>7, <3>1, <3>2
    <3>3. CASE r \in included
      BY <1>0, <1>6, <3>1, <3>3
    <3> QED
      BY <2>0, <3>2, <3>3
  <2> QED
    BY <2>1, <2>2
<1>9. StreamShape' /\ (repeated = {})'
  <2>1. \A n \in CoveredBy(included) : n <= high
    BY <1>4 DEF Shapes, StreamShape
  <2> QED
    BY <1>0, <1>5, <2>1 DEF Shapes, StreamShape, StreamKept
<1>10. SelectionList' = {} /\ visit'.selection.probes = {} /\ visit'.selection.silent = {}
  BY <1>0 DEF SelectionList, NoSelection
<1>11. Lists' /\ JournalShape'
  BY <1>0, <1>1, <1>10 DEF Shapes, Lists, IsList, JournalShape, StreamKept, Moved, Followed
<1>12. NoticesShape'
  <2>1. ASSUME NEW e \in events, Followed(e.actor), e.sequence \in noticed'
        PROVE  e.sequence <= cursor[e.actor] \/ \E r \in journal' : r.actor = e.actor /\ e.sequence <= r.through
    <3>1. CASE e.sequence \in noticed
      BY <1>0, <2>1, <3>1 DEF Shapes, NoticesShape
    <3>2. CASE e.sequence \in CoveredBy(included)
      BY <1>0, <1>3, <3>2
    <3> QED
      BY <1>0, <2>1, <3>1, <3>2
  <2> QED
    BY <1>0, <1>10, <2>1 DEF NoticesShape, StreamKept, Followed
<1>13. AccountedShape'
  <2>1. \A a, n : Accounted(a, n) => Accounted(a, n)'
    BY <1>0 DEF Accounted, StreamKept
  <2> QED
    BY <1>0, <1>8, <1>10, <2>1 DEF Shapes, AccountedShape, StreamKept, Followed
<1> QED
  BY <1>9, <1>11, <1>12, <1>13 DEF Shapes

(***************************************************************************)
(* The invariant, and the two properties.                                  *)
(***************************************************************************)
\* A new history holds nothing that could be told twice or passed over.
LEMMA ShapesAtFirst ==
  ASSUME Parameters PROVE Init => Shapes
<1> SUFFICES ASSUME Init PROVE Shapes
  OBVIOUS
<1> USE DEF Init
<1>1. visit.stage = "none" /\ visit.selection = NoSelection
  BY DEF NoVisit
<1>2. SelectionList = {} /\ visit.selection.probes = {} /\ visit.selection.silent = {}
  BY <1>1 DEF SelectionList, NoSelection
<1>3. \A k \in Slots : ack[k].saved = {} /\ ack[k].live = TRUE /\ ack[k].answer = "none"
  BY DEF NoAck
<1>4. StreamShape
  <2>1. \A a \in Actors : cursor[a] <= high
    BY DEF NotFollowed
  <2> QED
    BY <2>1 DEF StreamShape
<1>5. Lists
  BY <1>2, <1>3 DEF Lists, IsList
<1>6. JournalShape
  BY <1>3 DEF JournalShape, Slots
<1>7. NoticesShape /\ AccountedShape
  BY <1>2, <1>3 DEF NoticesShape, AccountedShape, Accounted
<1> QED
  BY <1>4, <1>5, <1>6, <1>7 DEF Shapes

\* Every step keeps what the journal, the acknowledgements and the selection
\* know of the cursors.
LEMMA ShapesNext ==
  ASSUME Parameters, TypeOK, Shapes, [Next]_vars PROVE Shapes'
<1>1. ASSUME Stream PROVE Shapes'
  BY <1>1, PublishKeeps, FollowKeeps, UnfollowKeeps, PruneKeeps, DismissKeeps DEF Stream
<1>2. ASSUME Acknowledging PROVE Shapes'
  BY <1>2, LateAckReturnsKeeps, AckKeeps DEF Acknowledging
<1>3. ASSUME VisitStep PROVE Shapes'
  BY <1>3, StartVisitKeeps, AckReturnsKeeps, ProbeKeeps, ReadKeeps, CommitKeeps, PlainStepsKeep,
     ReacknowledgeKeeps, VisitEndsKeeps DEF VisitStep
<1> QED
  BY <1>1, <1>2, <1>3, RestartKeeps, EraseKeeps, PlainStepsKeep DEF Next

\* The journal is empty while a visit selects, what was in a notice is behind
\* the cursor or in the journal, receipts start after it, and every event up to
\* a cursor or to the end of a receipt is accounted for.
THEOREM FollowerInvariantHolds ==
  ASSUME Parameters PROVE Spec => []FollowerInvariant
<1>1. Init => TypeOK /\ Shapes
  BY TypeInit, ShapesAtFirst
<1>2. TypeOK /\ Shapes /\ [Next]_vars => TypeOK' /\ Shapes'
  <2>1. SUFFICES ASSUME TypeOK, Shapes, [Next]_vars PROVE TypeOK' /\ Shapes'
    OBVIOUS
  <2>2. StreamShape /\ Lists
    BY <2>1 DEF Shapes
  <2> QED
    BY <2>1, <2>2, TypeNext, ShapesNext
<1>3. TypeOK /\ Shapes => FollowerInvariant
  BY DEF Shapes, FollowerInvariant
<1> QED
  BY <1>1, <1>2, <1>3, PTL DEF Spec

\* The state of the stream, the follow rows, the journal, the visit and the
\* acknowledgements has its type.
THEOREM TypeCorrect ==
  ASSUME Parameters PROVE Spec => []TypeOK
<1>1. FollowerInvariant => TypeOK
  BY DEF FollowerInvariant
<1> QED
  BY <1>1, FollowerInvariantHolds, PTL

\* No event is in two committed notices, whatever fails, is stopped or is late
\* between a commit and its acknowledgement.
THEOREM SummariesAreSingle ==
  ASSUME Parameters PROVE Spec => []NoSecondSummary
<1>1. FollowerInvariant => NoSecondSummary
  BY DEF FollowerInvariant, NoSecondSummary
<1> QED
  BY <1>1, FollowerInvariantHolds, PTL

\* Every event up to the cursor of a follow row was in a committed notice, or
\* needed none.
THEOREM CursorsSkipNothing ==
  ASSUME Parameters PROVE Spec => []NeverSkipped
<1>1. FollowerInvariant => NeverSkipped
  <2> SUFFICES ASSUME FollowerInvariant, NEW e \in events, Followed(e.actor),
                      base[e.actor] < e.sequence, e.sequence <= cursor[e.actor]
               PROVE  e.sequence \in noticed \cup settled
    BY DEF NeverSkipped
  <2>1. e.actor \in Actors
    BY DEF FollowerInvariant, TypeOK, Events
  <2> QED
    BY <2>1 DEF FollowerInvariant, AccountedShape, Accounted
<1> QED
  BY <1>1, FollowerInvariantHolds, PTL

=============================================================================
