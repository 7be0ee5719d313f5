----------------------------- MODULE ToolProofs -----------------------------
(***************************************************************************)
(* Proofs for ToolOutcome: what a participant is told of its calls is true *)
(* and stays true, every call is answered once, and a post whose outcome   *)
(* the participant does not know is not sent again.                        *)
(*                                                                         *)
(* The lemmas come in three layers: the units of a call, what a pair of    *)
(* answer and publication does to the journal, and one lemma for each kind *)
(* of step of the loop.                                                    *)
(***************************************************************************)
EXTENDS ToolInvariant, FiniteSetTheorems, TLAPS

(***************************************************************************)
(* Calls and their units                                                   *)
(***************************************************************************)
\* A response is a sequence of effects, and its calls have positions.
LEMMA AskedShape ==
    ASSUME Parameters, TypeOK, NEW r \in Responses
    PROVE  /\ asked[r] \in Seq(Effects)
           /\ Len(asked[r]) \in Nat
           /\ DOMAIN asked[r] = 1..Len(asked[r])
           /\ DOMAIN asked[r] \subseteq Positions
           /\ \A k \in DOMAIN asked[r] : asked[r][k] \in Effects
           /\ Arrived(r) => asked[r] \in Contents /\ Len(asked[r]) > 0
<1>1. asked[r] \in Contents \cup {<<>>}
  BY DEF TypeOK
<1>2. CASE asked[r] = <<>>
  BY <1>2 DEF Arrived
<1>3. CASE asked[r] \in Contents
  <2>1. asked[r] \in Seq(Effects) /\ asked[r] # <<>>
    BY <1>3 DEF Parameters
  <2>2. DOMAIN asked[r] \subseteq Positions
    BY <1>3 DEF Positions
  <2> QED BY <2>1, <2>2, <1>3 DEF Arrived
<1> QED BY <1>1, <1>2, <1>3

\* A position is a positive number.
LEMMA PositionsAreNumbers ==
    ASSUME Parameters
    PROVE  Positions \subseteq Nat \ {0}
<1> SUFFICES ASSUME NEW c \in Contents, NEW k \in DOMAIN c
             PROVE  k \in Nat \ {0}
  BY DEF Positions
<1>1. c \in Seq(Effects)
  BY DEF Parameters
<1> QED BY <1>1

\* A unit is a response, a position and a target.
LEMMA UnitParts ==
    ASSUME NEW u \in Units
    PROVE  /\ u[1] \in Responses /\ u[2] \in Positions /\ u[3] \in 1..BatchSize
           /\ u = <<u[1], u[2], u[3]>>
BY DEF Units

\* The units of some calls, one by one.
LEMMA UnitsOfIs ==
    ASSUME NEW r, NEW calls, NEW u \in Units
    PROVE  u \in UnitsOf(r, calls) <=> u[1] = r /\ u[2] \in calls /\ u[3] \in Targets(r, u[2])
<1>1. u = <<u[1], u[2], u[3]>>
  BY UnitParts
<1>2. ASSUME u \in UnitsOf(r, calls)
      PROVE  u[1] = r /\ u[2] \in calls /\ u[3] \in Targets(r, u[2])
  <2>1. PICK k \in calls : \E i \in Targets(r, k) : u = <<r, k, i>>
    BY <1>2 DEF UnitsOf
  <2> QED BY <2>1
<1>3. ASSUME u[1] = r, u[2] \in calls, u[3] \in Targets(r, u[2])
      PROVE  u \in UnitsOf(r, calls)
  <2>1. u \in {<<r, u[2], i>> : i \in Targets(r, u[2])}
    BY <1>1, <1>3
  <2> QED BY <2>1, <1>3 DEF UnitsOf
<1> QED BY <1>2, <1>3

\* A call of a response has a unit for each of its targets.
LEMMA CallUnits ==
    ASSUME Parameters, TypeOK, NEW r \in Responses, NEW k \in DOMAIN asked[r], NEW i \in 1..BatchSize
    PROVE  /\ <<r, k, i>> \in Units
           /\ Targets(r, k) \subseteq 1..BatchSize /\ 1 \in Targets(r, k)
<1>1. k \in Positions
  BY AskedShape
<1> QED BY <1>1 DEF Units, Targets, Parameters

\* The loop's current target follows those that have an outcome.
LEMMA CurrentIs ==
    ASSUME Parameters, NEW r, NEW n \in 1..BatchSize,
           \A i \in 1..BatchSize : fate[Unit(r, i)] = "none" <=> i >= n
    PROVE  Current(r) = Unit(r, n)
<1>1. BatchSize \in Nat
  BY DEF Parameters
<1>2. {i \in 1..BatchSize : fate[<<r, call[r], i>>] # "none"} = 1..(n - 1)
  BY <1>1 DEF Unit
<1>3. Cardinality(1..(n - 1)) = n - 1
  BY <1>1, FS_Interval
<1>4. PICK done : done = {i \in 1..BatchSize : fate[<<r, call[r], i>>] # "none"}
  OBVIOUS
<1>5. Current(r) = <<r, call[r], 1 + Cardinality(done)>>
  BY <1>4 DEF Current
<1>6. Cardinality(done) = n - 1
  BY <1>2, <1>3, <1>4
<1> QED BY <1>1, <1>5, <1>6 DEF Unit

\* The visit has one loop, that of its latest response.
LEMMA OneLoop ==
    ASSUME ToolInvariant, NEW r \in Responses, Working(r), NEW q \in Responses, Working(q)
    PROVE  q = r
<1>1. Latest(r) /\ Latest(q)
  BY DEF ToolInvariant, LoopShape
<1> QED BY <1>1 DEF Latest, Responses

(***************************************************************************)
(* What the loop knows of its response                                     *)
(***************************************************************************)
\* A published response is that of the loop.
LEMMA PublishedIsTheLoops ==
    ASSUME ToolInvariant, NEW r \in Responses, Working(r)
    PROVE  /\ Arrived(r) /\ Latest(r) /\ LoopShape(r) /\ InVisit(r)
           /\ publication # NoPublication => publication.response = r
           /\ \A q \in Responses : q # r => Open(q) = {}
           /\ Open(r) \subseteq DOMAIN asked[r]
<1>1. LoopShape(r) /\ Latest(r) /\ PublicationShape /\ InVisit(r)
  BY DEF ToolInvariant, JournalInvariant, LoopShape, Working
<1>2. Arrived(r)
  BY <1>1 DEF Latest
<1>3. ASSUME publication # NoPublication
      PROVE  publication.response = r
  <2>1. publication.response \in Responses /\ Latest(publication.response)
    BY <1>1, <1>3 DEF PublicationShape
  <2> QED BY <2>1, <1>1 DEF Latest, Responses
<1>4. \A q \in Responses : q # r => Open(q) = {}
  BY <1>3 DEF Open, NoPublication, Responses
<1>5. Open(r) \subseteq DOMAIN asked[r]
  BY <1>1 DEF PublicationShape, Open, NoPublication, Responses
<1> QED BY <1>1, <1>2, <1>3, <1>4, <1>5

\* An unanswered call with no stage of its own was not begun.
LEMMA NotBegun ==
    ASSUME JournalInvariant, NEW u \in Units, AsksFor(u), u[2] \in Open(u[1])
    PROVE  /\ SpokenFor(u, StageOf(u))
           /\ StageOf(u) = "prepared" => site[u] = "untouched"
           /\ told[u] = <<>>
BY DEF JournalInvariant, JournalShape, AnsweredShape, SpokenFor

\* What is told of these units is appended, and nothing else.
LEMMA ToldBecomes ==
    ASSUME NEW r, NEW calls, NEW answers, DOMAIN answers = UnitsOf(r, calls), Told(answers)
    PROVE  /\ \A u \in Units :
               /\ u[1] = r /\ u[2] \in calls /\ u[3] \in Targets(r, u[2]) =>
                      u \in UnitsOf(r, calls) /\ told'[u] = Append(told[u], answers[u])
               /\ ~(u[1] = r /\ u[2] \in calls /\ u[3] \in Targets(r, u[2])) => told'[u] = told[u]
           /\ DOMAIN told' = Units
<1>1. \A u \in Units : u \in UnitsOf(r, calls) <=> u[1] = r /\ u[2] \in calls /\ u[3] \in Targets(r, u[2])
  BY UnitsOfIs
<1> QED BY <1>1 DEF Told

(***************************************************************************)
(* Answering some of the calls that are open                               *)
(***************************************************************************)
\* The published record after a pair.
LEMMA CompletedIs ==
    ASSUME ToolInvariant, NEW r \in Responses, Working(r),
           NEW calls, calls \subseteq Open(r), NEW shown \in BOOLEAN,
           publication' = Completed(calls, shown), UNCHANGED <<asked, run>>
    PROVE  /\ Open(r)' = Open(r) \ calls
           /\ \A q \in Responses : q # r => Open(q)' = {}
           /\ publication' # NoPublication =>
                /\ publication # NoPublication /\ publication'.response = r
                /\ publication'.calls = Open(r) \ calls
                /\ publication'.calls = {} => ~publication'.shown
           /\ publication' \in [response : {0} \cup Responses, calls : SUBSET Positions, shown : BOOLEAN]
<1>1. /\ publication \in [response : {0} \cup Responses, calls : SUBSET Positions, shown : BOOLEAN]
      /\ publication # NoPublication => publication.response = r
  BY PublishedIsTheLoops DEF ToolInvariant, JournalInvariant, TypeOK
<1>2. CASE publication = NoPublication
  <2>1. publication' = NoPublication /\ Open(r) = {}
    BY <1>2 DEF Completed, Open, NoPublication, Responses
  <2> QED BY <2>1, <1>1, <1>2 DEF Open, NoPublication, Responses
<1>3. CASE publication # NoPublication
  <2>1. Open(r) = publication.calls /\ publication.response = r
    BY <1>1, <1>3 DEF Open
  <2>2. PICK rest : rest = [publication EXCEPT !.calls = @ \ calls, !.shown = @ \/ shown]
    OBVIOUS
  <2>3. /\ rest.response = r /\ rest.calls = Open(r) \ calls
        /\ rest \in [response : {0} \cup Responses, calls : SUBSET Positions, shown : BOOLEAN]
    BY <1>1, <2>1, <2>2
  <2>4. publication' = IF rest.shown /\ rest.calls = {} THEN NoPublication ELSE rest
    BY <1>3, <2>2 DEF Completed
  <2>5. CASE rest.shown /\ rest.calls = {}
    <3>1. publication' = NoPublication
      BY <2>4, <2>5
    <3> QED BY <3>1, <2>3, <2>5 DEF Open, NoPublication, Responses
  <2>6. CASE ~(rest.shown /\ rest.calls = {})
    <3>1. publication' = rest
      BY <2>4, <2>6
    <3> QED BY <3>1, <2>3, <2>6, <1>3 DEF Open, Responses
  <2> QED BY <2>5, <2>6
<1> QED BY <1>2, <1>3

\* True answers to open calls leave every answer true and given once.
LEMMA TrueAnswers ==
    ASSUME JournalInvariant, NEW r \in Responses, Open(r) \subseteq DOMAIN asked[r],
           NEW calls, calls \subseteq Open(r),
           NEW answers, DOMAIN answers = UnitsOf(r, calls),
           \A u \in Units : u[1] = r /\ u[2] \in calls /\ u[3] \in Targets(r, u[2]) =>
                answers[u] \in Answers /\ IsTrue(u, answers[u]),
           Told(answers), UNCHANGED <<asked, site>>
    PROVE  /\ ToldShape' /\ AnswersAreTrue' /\ NoBlindRepeat'
           /\ \A u \in Units : told'[u] # <<>> => told[u] # <<>> \/ AsksFor(u)
           /\ \A u \in Units : AsksFor(u) =>
                (told'[u] = <<>> <=> told[u] = <<>> /\ ~(u[1] = r /\ u[2] \in calls))
<1> DEFINE Answered(u) == u[1] = r /\ u[2] \in calls /\ u[3] \in Targets(r, u[2])
<1>1. \A u \in Units : /\ Answered(u) => told'[u] = Append(told[u], answers[u])
                       /\ ~Answered(u) => told'[u] = told[u]
  BY ToldBecomes
<1>2. told \in [Units -> {<<>>} \cup {<<a>> : a \in Answers}] /\ DOMAIN told' = Units
  BY ToldBecomes DEF JournalInvariant, ToldShape
<1>3. \A u \in Units : Answered(u) => AsksFor(u) /\ told[u] = <<>>
  BY NotBegun DEF AsksFor
<1>4. \A u \in Units : Answered(u) => told'[u] = <<answers[u]>>
  BY <1>1, <1>3
<1>5. ToldShape'
  <2>1. \A u \in Units : told'[u] \in {<<>>} \cup {<<a>> : a \in Answers}
    BY <1>1, <1>2, <1>4
  <2>2. told' = [u \in Units |-> told'[u]]
    BY DEF Told
  <2>3. told' \in [Units -> {<<>>} \cup {<<a>> : a \in Answers}]
    BY <2>1, <2>2
  <2> QED BY <2>3 DEF ToldShape
<1>6. AnswersAreTrue'
  <2> SUFFICES ASSUME NEW u \in Units, NEW n \in DOMAIN told'[u]
               PROVE  IsTrue(u, told[u][n])'
    BY DEF AnswersAreTrue
  <2>1. CASE Answered(u)
    <3>1. IsTrue(u, answers[u]) /\ n = 1 /\ told'[u][n] = answers[u]
      BY <2>1, <1>4
    <3> QED BY <3>1 DEF IsTrue
  <2>2. CASE ~Answered(u)
    <3>1. n \in DOMAIN told[u] /\ told'[u][n] = told[u][n]
      BY <2>2, <1>1
    <3>2. IsTrue(u, told[u][n])
      BY <3>1 DEF JournalInvariant, AnswersAreTrue
    <3> QED BY <3>1, <3>2 DEF IsTrue
  <2> QED BY <2>1, <2>2
<1>7. NoBlindRepeat'
  <2> SUFFICES ASSUME NEW u \in Units, NEW v \in Units,
                      u[1] < v[1] \/ (u[1] = v[1] /\ u[2] < v[2]),
                      IsPost(u)', IsPost(v)', site'[u] \in {"sent", "performed"}, site'[v] # "untouched"
               PROVE  told'[u] = <<"result">>
    BY DEF NoBlindRepeat
  <2>1. told[u] = <<"result">>
    BY DEF JournalInvariant, NoBlindRepeat, IsPost
  <2> QED BY <2>1, <1>1, <1>3
<1>8. \A u \in Units : AsksFor(u) =>
        (told'[u] = <<>> <=> told[u] = <<>> /\ ~(u[1] = r /\ u[2] \in calls))
  BY <1>1, <1>4 DEF AsksFor
<1> QED BY <1>1, <1>3, <1>5, <1>6, <1>7, <1>8

\* With the pending call among those that are answered, the journal is kept.
LEMMA Answering ==
    ASSUME Parameters, ToolInvariant, NEW r \in Responses, Working(r),
           NEW calls, calls \subseteq Open(r), NEW shown \in BOOLEAN,
           pending = NoCall \/ pending.call \in calls,
           NEW answers, DOMAIN answers = UnitsOf(r, calls),
           \A u \in Units : u[1] = r /\ u[2] \in calls /\ u[3] \in Targets(r, u[2]) =>
                answers[u] \in Answers /\ IsTrue(u, answers[u]),
           Told(answers), publication' = Completed(calls, shown), pending' = NoCall,
           UNCHANGED <<asked, run, site>>
    PROVE  /\ ToldShape' /\ PublicationShape' /\ AnsweredShape' /\ JournalShape'
           /\ AnswersAreTrue' /\ NoBlindRepeat'
           /\ \A u \in Units : told'[u] # <<>> => told[u] # <<>> \/ AsksFor(u)
           /\ Open(r)' = Open(r) \ calls
           /\ publication' \in [response : {0} \cup Responses, calls : SUBSET Positions, shown : BOOLEAN]
<1>1. /\ JournalInvariant /\ TypeOK /\ Latest(r) /\ InVisit(r) /\ Arrived(r)
      /\ Open(r) \subseteq DOMAIN asked[r]
      /\ \A q \in Responses : q # r => Open(q) = {}
  BY PublishedIsTheLoops DEF ToolInvariant, JournalInvariant
<1>2. /\ Open(r)' = Open(r) \ calls
      /\ \A q \in Responses : q # r => Open(q)' = {}
      /\ publication' # NoPublication =>
           /\ publication # NoPublication /\ publication'.response = r
           /\ publication'.calls = Open(r) \ calls
           /\ publication'.calls = {} => ~publication'.shown
      /\ publication' \in [response : {0} \cup Responses, calls : SUBSET Positions, shown : BOOLEAN]
  BY CompletedIs
<1>3. /\ ToldShape' /\ AnswersAreTrue' /\ NoBlindRepeat'
      /\ \A u \in Units : told'[u] # <<>> => told[u] # <<>> \/ AsksFor(u)
      /\ \A u \in Units : AsksFor(u) =>
           (told'[u] = <<>> <=> told[u] = <<>> /\ ~(u[1] = r /\ u[2] \in calls))
  BY <1>1, TrueAnswers
<1>4. PublicationShape'
  BY <1>1, <1>2 DEF PublicationShape, NoCall, InVisit, Latest, Arrived
<1>5. \A u \in Units : AsksFor(u)' <=> AsksFor(u)
  BY DEF AsksFor, Targets
<1>6. AnsweredShape'
  <2> SUFFICES ASSUME NEW u \in Units, AsksFor(u)
               PROVE  told'[u] = <<>> <=> u[2] \in Open(u[1])'
    BY <1>5 DEF AnsweredShape
  <2>1. u[1] \in Responses /\ (told[u] = <<>> <=> u[2] \in Open(u[1]))
    BY <1>1, UnitParts DEF JournalInvariant, AnsweredShape
  <2>2. CASE u[1] = r
    BY <2>1, <2>2, <1>2, <1>3
  <2>3. CASE u[1] # r
    BY <2>1, <2>3, <1>1, <1>2, <1>3
  <2> QED BY <2>2, <2>3
<1>7. JournalShape'
  <2> SUFFICES ASSUME NEW u \in Units, AsksFor(u), u[2] \in Open(u[1])'
               PROVE  SpokenFor(u, StageOf(u))'
    BY <1>5 DEF JournalShape
  <2>1. u[1] = r /\ u[2] \in Open(r) /\ u[2] \notin calls
    BY <1>2, UnitParts
  <2>2. StageOf(u) = "prepared"
    BY <2>1 DEF StageOf, NoCall, Responses
  <2>3. site[u] = "untouched"
    BY <1>1, <2>1, <2>2, NotBegun
  <2>4. StageOf(u)' = "prepared"
    BY <2>1 DEF StageOf, NoCall, Responses
  <2> QED BY <2>3, <2>4 DEF SpokenFor
<1> QED BY <1>2, <1>3, <1>4, <1>6, <1>7

(***************************************************************************)
(* What a step leaves alone                                                *)
(***************************************************************************)
\* The journal's part, while nothing is asked, told or published.
LEMMA JournalFrame ==
    ASSUME JournalInvariant, UNCHANGED <<asked, run, publication, told>>
    PROVE  /\ ToldShape' /\ AnsweredShape'
           /\ pending' = pending => PublicationShape'
           /\ site' = site => AnswersAreTrue' /\ NoBlindRepeat'
           /\ site' = site /\ pending' = pending => JournalShape'
<1>1. ToldShape'
  BY DEF JournalInvariant, ToldShape
<1>2. \A u \in Units : AsksFor(u)' <=> AsksFor(u)
  BY DEF AsksFor, Targets
<1>3. \A r : Open(r)' = Open(r)
  BY DEF Open
<1>4. AnsweredShape'
  BY <1>2, <1>3 DEF JournalInvariant, AnsweredShape
<1>5. ASSUME pending' = pending
      PROVE  PublicationShape'
  BY <1>5 DEF JournalInvariant, PublicationShape, InVisit, Latest, Arrived
<1>6. ASSUME site' = site
      PROVE  AnswersAreTrue' /\ NoBlindRepeat'
  <2>1. AnswersAreTrue'
    BY <1>6 DEF JournalInvariant, AnswersAreTrue, IsTrue
  <2>2. NoBlindRepeat'
    BY <1>6 DEF JournalInvariant, NoBlindRepeat, IsPost
  <2> QED BY <2>1, <2>2
<1>7. ASSUME site' = site, pending' = pending
      PROVE  JournalShape'
  <2>1. \A u : SpokenFor(u, StageOf(u))' <=> SpokenFor(u, StageOf(u))
    BY <1>7 DEF SpokenFor, StageOf
  <2> QED BY <2>1, <1>2, <1>3 DEF JournalInvariant, JournalShape
<1> QED BY <1>1, <1>4, <1>5, <1>6, <1>7

\* What responses leave behind, while a loop goes on.
LEMMA ArrivalFrame ==
    ASSUME Parameters, JournalInvariant, NEW r \in Responses, UNCHANGED <<asked, run>>,
           at[r] # "idle", NEW step, step # "idle", at' = [at EXCEPT ![r] = step],
           NEW k \in call[r]..Len(asked[r]), call' = [call EXCEPT ![r] = k],
           \A u \in Units :
                /\ told'[u] # <<>> => told[u] # <<>> \/ AsksFor(u)
                /\ site'[u] # "untouched" => site[u] # "untouched" \/ AsksFor(u)
                /\ fate'[u] # "none" => fate[u] # "none" \/ (u[1] = r /\ u[2] <= k)
    PROVE  ArrivalShape'
<1>1. TypeOK /\ ArrivalShape
  BY DEF JournalInvariant
<1>2. run' # 0 => Arrived(run)'
  BY <1>1 DEF ArrivalShape, Arrived
<1>3. ASSUME NEW q \in Responses
      PROVE  /\ Arrived(q)' => \A p \in 1..(q - 1) : Arrived(p)'
             /\ at'[q] = "idle" <=> ~Arrived(q)'
             /\ call'[q] \in 0..Len(asked'[q])
  <2>1. /\ Arrived(q) => \A p \in 1..(q - 1) : Arrived(p)
        /\ at[q] = "idle" <=> ~Arrived(q)
        /\ call[q] \in 0..Len(asked[q])
    BY <1>1 DEF ArrivalShape
  <2>2. at'[q] = "idle" <=> at[q] = "idle"
    BY <1>1 DEF TypeOK
  <2>3. call'[q] \in 0..Len(asked[q])
    <3>1. call'[q] = IF q = r THEN k ELSE call[q]
      BY <1>1 DEF TypeOK
    <3>2. Len(asked[q]) \in Nat /\ call[r] \in Nat
      BY <1>1, AskedShape DEF ArrivalShape
    <3> QED BY <2>1, <3>1, <3>2
  <2> QED BY <2>1, <2>2, <2>3 DEF Arrived
<1>4. ASSUME NEW u \in Units
      PROVE  /\ told'[u] # <<>> \/ site'[u] # "untouched" => AsksFor(u)'
             /\ fate'[u] # "none" => u[2] <= call'[u[1]]
  <2>1. /\ told[u] # <<>> \/ site[u] # "untouched" => AsksFor(u)
        /\ fate[u] # "none" => u[2] <= call[u[1]]
    BY <1>1 DEF ArrivalShape
  <2>2. AsksFor(u)' <=> AsksFor(u)
    BY DEF AsksFor, Targets
  <2>3. fate'[u] # "none" => u[2] <= call'[u[1]]
    <3>1. u[1] \in Responses /\ u[2] \in Nat
      BY UnitParts, PositionsAreNumbers
    <3>2. call'[u[1]] = (IF u[1] = r THEN k ELSE call[u[1]]) /\ call[r] \in Nat /\ Len(asked[r]) \in Nat
      BY <1>1, <3>1, AskedShape DEF TypeOK, ArrivalShape
    <3> QED BY <2>1, <3>1, <3>2
  <2> QED BY <2>1, <2>2, <2>3
<1> QED BY <1>2, <1>3, <1>4 DEF ArrivalShape

\* A loop keeps its place while its own state and the journal stay.
LEMMA LoopFrame ==
    ASSUME NEW r \in Responses, LoopShape(r), UNCHANGED <<asked, publication, pending, told, site, unknowns>>,
           at'[r] = at[r], call'[r] = call[r], left'[r] = left[r],
           at[r] \in CallSteps => \A i \in 1..BatchSize : fate'[Unit(r, i)] = fate[Unit(r, i)]
    PROVE  LoopShape(r)'
<1>1. Latest(r)' /\ (at'[r] \notin {"siblings", "ending"} => unknowns' <= 1)
  BY DEF LoopShape, Latest, Arrived
<1>2. OpenShape(r)'
  BY DEF LoopShape, OpenShape, Open, After
<1>3. PendingShape(r)'
  BY DEF LoopShape, PendingShape
<1>4. \A i : Unit(r, i)' = Unit(r, i)
  BY DEF Unit
<1>5. EarlierUnresolved' <=> EarlierUnresolved
  BY DEF EarlierUnresolved, IsPost
<1>6. Effect(r)' = Effect(r)
  BY DEF Effect
<1>7. Targets(r, call[r])' = Targets(r, call[r])
  BY DEF Targets
<1>8. CASE at[r] \in CallSteps
  <2>1. \A n : TargetShape(r, n) => TargetShape(r, n)'
    BY <1>4, <1>5, <1>6, <1>8 DEF TargetShape
  <2>2. \A i \in 1..BatchSize : FateShape(Unit(r, i)) => FateShape(Unit(r, i))'
    BY <1>4, <1>8 DEF FateShape
  <2>3. CallShape(r)'
    BY <1>4, <1>6, <1>7, <1>8, <2>1, <2>2 DEF LoopShape, CallShape
  <2> QED BY <1>1, <1>2, <1>3, <2>3 DEF LoopShape
<1>9. CASE at[r] \notin CallSteps
  <2>1. CallShape(r)'
    BY <1>9 DEF CallShape, CallSteps
  <2> QED BY <1>1, <1>2, <1>3, <2>1 DEF LoopShape
<1> QED BY <1>8, <1>9

(***************************************************************************)
(* Steps of a loop                                                         *)
(***************************************************************************)
\* A step of the visit's loop keeps the invariant if it keeps the journal and
\* the loop knows its new place.
LEMMA LoopMoves ==
    ASSUME ToolInvariant, NEW r \in Responses, Working(r), UNCHANGED <<asked, run>>,
           \A q \in Responses : q # r => at'[q] = at[q],
           JournalInvariant', LoopShape(r)'
    PROVE  ToolInvariant'
<1> SUFFICES ASSUME NEW q \in Responses, Working(q)', q # r
             PROVE  FALSE
  BY DEF ToolInvariant
<1>1. Working(q)
  BY DEF Working, InVisit
<1> QED BY <1>1, OneLoop

\* A step of the loop that tells nobody anything.
LEMMA QuietMoves ==
    ASSUME Parameters, ToolInvariant, NEW r \in Responses, at[r] \notin {"idle", "done"},
           NEW step \in Steps \ {"idle"}, at' = [at EXCEPT ![r] = step],
           NEW k \in call[r]..Len(asked[r]), call' = [call EXCEPT ![r] = k],
           UNCHANGED <<asked, run, stop, hung, pending, publication, told, left, fate, hashing, site,
                       unknowns, crashes>>,
           Working(r) => LoopShape(r)'
    PROVE  ToolInvariant'
<1>1. JournalInvariant /\ TypeOK
  BY DEF ToolInvariant, JournalInvariant
<1>2. TypeOK'
  <2>1. k \in {0} \cup Positions
    <3>1. Len(asked[r]) \in Nat /\ DOMAIN asked[r] = 1..Len(asked[r]) /\ DOMAIN asked[r] \subseteq Positions
      BY <1>1, AskedShape
    <3>2. call[r] \in Nat
      BY <1>1, PositionsAreNumbers DEF TypeOK
    <3> QED BY <3>1, <3>2
  <2>2. call' \in [Responses -> {0} \cup Positions] /\ at' \in [Responses -> Steps]
    BY <1>1, <2>1 DEF TypeOK
  <2> QED BY <1>1, <2>2 DEF TypeOK
<1>3. ArrivalShape'
  <2>1. \A u \in Units :
          /\ told'[u] # <<>> => told[u] # <<>> \/ AsksFor(u)
          /\ site'[u] # "untouched" => site[u] # "untouched" \/ AsksFor(u)
          /\ fate'[u] # "none" => fate[u] # "none" \/ (u[1] = r /\ u[2] <= k)
    OBVIOUS
  <2> QED BY <2>1, <1>1, ArrivalFrame
<1>4. JournalInvariant'
  BY <1>1, <1>2, <1>3, JournalFrame DEF JournalInvariant
<1>5. \A q \in Responses : q # r => at'[q] = at[q] /\ call'[q] = call[q]
  BY <1>1 DEF TypeOK
<1>6. CASE Working(r)
  BY <1>4, <1>5, <1>6, LoopMoves
<1>7. CASE ~Working(r)
  <2> SUFFICES ASSUME NEW q \in Responses, Working(q)'
               PROVE  LoopShape(q)'
    BY <1>4 DEF ToolInvariant
  <2>1. q # r
    BY <1>7 DEF Working, InVisit
  <2>2. Working(q)
    BY <2>1, <1>5 DEF Working, InVisit
  <2>3. LoopShape(q)
    BY <2>2 DEF ToolInvariant
  <2> QED BY <2>1, <2>3, <1>5, LoopFrame
<1> QED BY <1>6, <1>7

\* A step of the loop that answers calls.
LEMMA AnswerMoves ==
    ASSUME Parameters, ToolInvariant, NEW r \in Responses, Working(r),
           NEW calls, calls \subseteq Open(r), NEW shown \in BOOLEAN,
           pending = NoCall \/ pending.call \in calls,
           NEW answers, DOMAIN answers = UnitsOf(r, calls),
           \A u \in Units : u[1] = r /\ u[2] \in calls /\ u[3] \in Targets(r, u[2]) =>
                answers[u] \in Answers /\ IsTrue(u, answers[u]),
           Told(answers), publication' = Completed(calls, shown), pending' = NoCall,
           left' = [left EXCEPT ![r] = @ \ calls],
           NEW step \in {"next", "written", "interrupting", "siblings", "closing", "ending"},
           at' = [at EXCEPT ![r] = step],
           NEW k \in call[r]..Len(asked[r]), call' = [call EXCEPT ![r] = k],
           step # "ending" => left[r] \ calls = Open(r) \ calls,
           step \in {"next", "written", "interrupting"} => Open(r) \ calls = After(r, k),
           step = "closing" => Open(r) \ calls = {},
           unknowns' \in 0..2, step \notin {"siblings", "ending"} => unknowns' <= 1,
           UNCHANGED <<asked, run, stop, hung, fate, site, crashes>>, hashing' \subseteq hashing
    PROVE  ToolInvariant'
<1>1. JournalInvariant /\ TypeOK /\ Latest(r)
  BY PublishedIsTheLoops DEF ToolInvariant, JournalInvariant
<1>2. /\ ToldShape' /\ PublicationShape' /\ AnsweredShape' /\ JournalShape'
      /\ AnswersAreTrue' /\ NoBlindRepeat'
      /\ \A u \in Units : told'[u] # <<>> => told[u] # <<>> \/ AsksFor(u)
      /\ Open(r)' = Open(r) \ calls
      /\ publication' \in [response : {0} \cup Responses, calls : SUBSET Positions, shown : BOOLEAN]
  BY Answering
<1>3. TypeOK'
  <2>1. k \in {0} \cup Positions
    <3>1. Len(asked[r]) \in Nat /\ DOMAIN asked[r] = 1..Len(asked[r]) /\ DOMAIN asked[r] \subseteq Positions
      BY <1>1, AskedShape
    <3>2. call[r] \in Nat
      BY <1>1, PositionsAreNumbers DEF TypeOK
    <3> QED BY <3>1, <3>2
  <2>2. call' \in [Responses -> {0} \cup Positions] /\ at' \in [Responses -> Steps]
    BY <1>1, <2>1 DEF TypeOK, Steps
  <2>3. left' \in [Responses -> SUBSET Positions]
    BY <1>1 DEF TypeOK
  <2>4. \A u \in Units : \A n \in DOMAIN told'[u] : told'[u][n] \in Answers
    <3>1. \A u \in Units : told'[u] \in {<<>>} \cup {<<a>> : a \in Answers}
      BY <1>2 DEF ToldShape
    <3> QED BY <3>1
  <2>5. pending' \in [response : {0} \cup Responses, call : {0} \cup Positions, stage : Stages]
    BY DEF NoCall, Stages
  <2> QED BY <1>1, <1>2, <2>2, <2>3, <2>4, <2>5 DEF TypeOK
<1>4. ArrivalShape'
  <2>1. at[r] # "idle" /\ step # "idle"
    BY DEF Working
  <2>2. \A u \in Units :
          /\ told'[u] # <<>> => told[u] # <<>> \/ AsksFor(u)
          /\ site'[u] # "untouched" => site[u] # "untouched" \/ AsksFor(u)
          /\ fate'[u] # "none" => fate[u] # "none" \/ (u[1] = r /\ u[2] <= k)
    BY <1>2
  <2> QED BY <2>1, <2>2, <1>1, ArrivalFrame
<1>5. JournalInvariant'
  BY <1>2, <1>3, <1>4 DEF JournalInvariant
<1>6. LoopShape(r)'
  <2>1. /\ at'[r] = step /\ call'[r] = k /\ left'[r] = left[r] \ calls
        /\ \A q \in Responses : q # r => at'[q] = at[q]
    BY <1>1 DEF TypeOK
  <2>2. Latest(r)'
    BY <1>1 DEF Latest, Arrived
  <2>3. After(r, k)' = After(r, k)
    BY DEF After
  <2>4. OpenShape(r)'
    BY <1>2, <2>1, <2>3 DEF OpenShape, RestSteps, CallSteps, After
  <2>5. PendingShape(r)'
    BY <2>1 DEF PendingShape, RestSteps, CallSteps
  <2>6. CallShape(r)'
    BY <2>1 DEF CallShape
  <2> QED BY <2>1, <2>2, <2>4, <2>5, <2>6 DEF LoopShape
<1>7. \A q \in Responses : q # r => at'[q] = at[q]
  BY <1>1 DEF TypeOK
<1> QED BY <1>5, <1>6, <1>7, LoopMoves

\* What the recorded stages say of open calls is true of them.
LEMMA SettlementsAreTrue ==
    ASSUME JournalInvariant, NEW r \in Responses, NEW calls, calls \subseteq Open(r),
           Open(r) \subseteq DOMAIN asked[r]
    PROVE  /\ DOMAIN Settlements(r, calls) = UnitsOf(r, calls)
           /\ \A u \in Units : u[1] = r /\ u[2] \in calls /\ u[3] \in Targets(r, u[2]) =>
                Settlements(r, calls)[u] \in Answers /\ IsTrue(u, Settlements(r, calls)[u])
<1>1. DOMAIN Settlements(r, calls) = UnitsOf(r, calls)
  BY DEF Settlements
<1>2. SUFFICES ASSUME NEW u \in Units, u[1] = r, u[2] \in calls, u[3] \in Targets(r, u[2])
               PROVE  Settlements(r, calls)[u] \in Answers /\ IsTrue(u, Settlements(r, calls)[u])
  BY <1>1
<1>3. Settlements(r, calls)[u] = interruptedToolSettlement(StageOf(u))
  <2>1. u \in UnitsOf(r, calls)
    BY <1>2, UnitsOfIs
  <2>2. \/ StageOf(u) = pending.stage /\ pending.response = r /\ pending.call = u[2]
        \/ StageOf(u) = "prepared" /\ ~(pending.response = r /\ pending.call = u[2])
    BY <1>2 DEF StageOf
  <2> QED BY <2>1, <2>2 DEF Settlements
<1>4. SpokenFor(u, StageOf(u))
  BY <1>2, NotBegun DEF AsksFor
<1>5. StageOf(u) \in Stages
  BY DEF JournalInvariant, TypeOK, StageOf, Stages
<1>6. CASE StageOf(u) = "prepared"
  <2>1. Settlements(r, calls)[u] = "not_dispatched"
    BY <1>3, <1>6 DEF interruptedToolSettlement
  <2> QED BY <2>1, <1>4, <1>6 DEF SpokenFor, IsTrue, Answers
<1>7. CASE StageOf(u) = "reading"
  <2>1. Settlements(r, calls)[u] = "interrupted"
    BY <1>3, <1>7 DEF interruptedToolSettlement
  <2> QED BY <2>1, <1>4, <1>7 DEF SpokenFor, IsTrue, Answers
<1>8. CASE StageOf(u) = "dispatched"
  <2>1. Settlements(r, calls)[u] = "unknown"
    BY <1>3, <1>8 DEF interruptedToolSettlement
  <2> QED BY <2>1, <1>4, <1>8 DEF SpokenFor, IsTrue, Answers, Fates
<1> QED BY <1>5, <1>6, <1>7, <1>8 DEF Stages

\* The pending call is one of the open calls of the loop's response.
LEMMA PendingIsOpen ==
    ASSUME ToolInvariant, NEW r \in Responses, Working(r), pending # NoCall
    PROVE  pending.response = r /\ pending.call \in Open(r)
<1>1. pending.response \in Responses /\ pending.response = publication.response /\ pending.call \in publication.calls
  BY DEF ToolInvariant, JournalInvariant, PublicationShape
<1>2. publication # NoPublication
  BY <1>1 DEF NoPublication, Responses
<1> QED BY <1>1, <1>2, PublishedIsTheLoops DEF Open

\* The loop is interrupted and answers whatever is left.
LEMMA InterruptMoves ==
    ASSUME Parameters, ToolInvariant, NEW r \in Responses,
           at[r] \in (RestSteps \cup CallSteps) \ {"failing"},
           Answer(r, left[r], Settlements(r, left[r])), Go(r, "ending"),
           UNCHANGED <<journalVars, call, fate, site, unknowns>>, hashing' \subseteq hashing
    PROVE  ToolInvariant'
<1>1. Working(r)
  BY DEF Working, Answer, Authority, RestSteps, CallSteps
<1>2. JournalInvariant /\ TypeOK /\ LoopShape(r) /\ Open(r) \subseteq DOMAIN asked[r]
  BY <1>1, PublishedIsTheLoops DEF ToolInvariant, JournalInvariant
<1>3. left[r] = Open(r)
  BY <1>2 DEF LoopShape, OpenShape, RestSteps, CallSteps
<1>4. pending = NoCall \/ pending.call \in left[r]
  BY <1>1, <1>3, PendingIsOpen
<1>5. PICK answers : answers = Settlements(r, left[r])
  OBVIOUS
<1>6. /\ DOMAIN answers = UnitsOf(r, left[r])
      /\ \A u \in Units : u[1] = r /\ u[2] \in left[r] /\ u[3] \in Targets(r, u[2]) =>
                answers[u] \in Answers /\ IsTrue(u, answers[u])
  BY <1>2, <1>3, <1>5, SettlementsAreTrue
<1>7. /\ Told(answers) /\ publication' = Completed(left[r], TRUE) /\ pending' = NoCall
      /\ left' = [left EXCEPT ![r] = @ \ left[r]] /\ at' = [at EXCEPT ![r] = "ending"]
  BY <1>5 DEF Answer, Go
<1>8. call[r] \in call[r]..Len(asked[r]) /\ call' = [call EXCEPT ![r] = call[r]]
  <2>1. call[r] \in 0..Len(asked[r]) /\ Len(asked[r]) \in Nat
    BY <1>2, AskedShape DEF JournalInvariant, ArrivalShape
  <2> QED BY <2>1, <1>2 DEF TypeOK
<1>9. unknowns' \in 0..2 /\ UNCHANGED <<asked, run, stop, hung, fate, site, crashes>>
  BY <1>2 DEF TypeOK, journalVars
<1>10. left[r] \subseteq Open(r) /\ left[r] \ left[r] = Open(r) \ left[r]
  BY <1>3
<1> QED BY <1>1, <1>4, <1>6, <1>7, <1>8, <1>9, <1>10, AnswerMoves

\* The loop answers the call it is at.
LEMMA CallIsAnswered ==
    ASSUME Parameters, ToolInvariant, NEW r \in Responses, at[r] \in CallSteps, InVisit(r),
           NEW shown \in BOOLEAN, NEW answers, DOMAIN answers = UnitsOf(r, {call[r]}),
           \A i \in Targets(r, call[r]) :
                answers[Unit(r, i)] \in Answers /\ IsTrue(Unit(r, i), answers[Unit(r, i)]),
           Told(answers), publication' = Completed({call[r]}, shown), pending' = NoCall,
           left' = [left EXCEPT ![r] = @ \ {call[r]}],
           NEW step \in {"next", "written", "interrupting", "siblings"}, Go(r, step),
           unknowns' \in 0..2, step # "siblings" => unknowns' <= 1,
           UNCHANGED <<asked, run, stop, hung, call, fate, site, crashes>>, hashing' \subseteq hashing
    PROVE  ToolInvariant'
<1>1. Working(r)
  BY DEF Working, CallSteps
<1>2. JournalInvariant /\ TypeOK /\ LoopShape(r)
  BY <1>1, PublishedIsTheLoops DEF ToolInvariant, JournalInvariant
<1>3. /\ call[r] # 0 /\ Open(r) = After(r, call[r] - 1)
      /\ left[r] = Open(r) \/ left[r] = Open(r) \ {call[r]}
      /\ pending = NoCall \/ pending.call \in {call[r]}
  BY <1>2 DEF LoopShape, OpenShape, PendingShape, CallSteps
<1>4. /\ call[r] \in 1..Len(asked[r]) /\ Len(asked[r]) \in Nat
      /\ DOMAIN asked[r] = 1..Len(asked[r])
  BY <1>2, <1>3, AskedShape DEF JournalInvariant, ArrivalShape
<1>5. /\ {call[r]} \subseteq Open(r)
      /\ Open(r) \ {call[r]} = After(r, call[r])
      /\ left[r] \ {call[r]} = Open(r) \ {call[r]}
  BY <1>3, <1>4 DEF After
<1>6. \A u \in Units : u[1] = r /\ u[2] \in {call[r]} /\ u[3] \in Targets(r, u[2]) =>
                answers[u] \in Answers /\ IsTrue(u, answers[u])
  BY UnitParts DEF Unit
<1>7. call[r] \in call[r]..Len(asked[r]) /\ call' = [call EXCEPT ![r] = call[r]]
  BY <1>2, <1>4 DEF TypeOK
<1>8. at' = [at EXCEPT ![r] = step]
  BY DEF Go
<1> QED BY <1>1, <1>3, <1>5, <1>6, <1>7, <1>8, AnswerMoves

(***************************************************************************)
(* The actions of the loop                                                 *)
(***************************************************************************)
\* A step that leaves the call where it is, or ends the loop.
LEMMA StayOrEnd ==
    ASSUME Parameters, ToolInvariant, NEW r \in Responses, at[r] \notin {"idle", "done"},
           NEW step \in {"next", "closing", "ending"}, Go(r, step),
           step = "next" => at[r] \in RestSteps,
           step = "closing" => at[r] = "siblings" /\ left[r] = {} /\ unknowns < 2,
           UNCHANGED <<journalVars, answerVars, call, fate, worldVars, unknowns>>
    PROVE  ToolInvariant'
<1>1. TypeOK /\ ArrivalShape
  BY DEF ToolInvariant, JournalInvariant
<1>2. UNCHANGED <<asked, run, stop, hung, pending, publication, told, left, fate, hashing, site,
                 unknowns, crashes>>
  BY DEF journalVars, answerVars, worldVars
<1>3. call[r] \in call[r]..Len(asked[r]) /\ call' = [call EXCEPT ![r] = call[r]]
  <2>1. call[r] \in 0..Len(asked[r]) /\ Len(asked[r]) \in Nat
    BY <1>1, AskedShape DEF ArrivalShape
  <2> QED BY <2>1, <1>1 DEF TypeOK, journalVars, answerVars, worldVars
<1>4. ASSUME Working(r)
      PROVE  LoopShape(r)'
  <2>1. LoopShape(r)
    BY <1>4 DEF ToolInvariant
  <2>2. at'[r] = step /\ call'[r] = call[r] /\ left'[r] = left[r] /\ Open(r)' = Open(r)
    BY <1>1, <1>2, <1>3 DEF TypeOK, Go, Open
  <2>3. /\ Latest(r)'
        /\ at'[r] \notin {"siblings", "ending"} => unknowns' <= 1
    <3>1. step = "next" \/ step = "closing" => unknowns <= 1
      BY <2>1, <1>1 DEF LoopShape, RestSteps, TypeOK
    <3> QED BY <3>1, <2>1, <2>2, <1>2 DEF LoopShape, Latest, Arrived
  <2>4. OpenShape(r)'
    <3>1. After(r, call[r])' = After(r, call[r])
      BY <1>2, <1>3, <2>2 DEF After
    <3> QED BY <2>1, <2>2, <3>1 DEF LoopShape, OpenShape, RestSteps, CallSteps, After
  <2>5. PendingShape(r)'
    BY <2>1, <2>2, <1>2 DEF LoopShape, PendingShape, RestSteps, CallSteps
  <2>6. CallShape(r)'
    BY <2>2 DEF CallShape
  <2> QED BY <2>3, <2>4, <2>5, <2>6 DEF LoopShape
<1>5. step \in Steps \ {"idle"} /\ at' = [at EXCEPT ![r] = step]
  BY DEF Steps, Go
<1> QED BY <1>2, <1>3, <1>4, <1>5, QuietMoves

\* The steps that only move the loop on, or end it.
LEMMA PassingSteps ==
    ASSUME Parameters, ToolInvariant, NEW r \in Responses,
           \/ ResponseAccepted(r) \/ StopBeforeCall(r) \/ FailureIsLost(r) \/ LeaseKept(r)
           \/ RenewalThrows(r) \/ SiblingsAreTold(r) \/ VisitEnds(r)
    PROVE  ToolInvariant'
<1>1. CASE ResponseAccepted(r)
  BY <1>1, StayOrEnd DEF ResponseAccepted, RestSteps
<1>2. CASE StopBeforeCall(r)
  BY <1>2, StayOrEnd DEF StopBeforeCall, MoreCalls
<1>3. CASE FailureIsLost(r)
  BY <1>3, StayOrEnd DEF FailureIsLost
<1>4. CASE LeaseKept(r)
  BY <1>4, StayOrEnd DEF LeaseKept, RestSteps
<1>5. CASE RenewalThrows(r)
  BY <1>5, StayOrEnd DEF RenewalThrows
<1>6. CASE SiblingsAreTold(r)
  BY <1>6, StayOrEnd DEF SiblingsAreTold
<1>7. CASE VisitEnds(r)
  BY <1>7, StayOrEnd DEF VisitEnds
<1> QED BY <1>1, <1>2, <1>3, <1>4, <1>5, <1>6, <1>7

\* The next call has no outcome yet.
LEMMA BeginCallStep ==
    ASSUME Parameters, ToolInvariant, NEW r \in Responses, BeginCall(r)
    PROVE  ToolInvariant'
<1>1. TypeOK /\ ArrivalShape
  BY DEF ToolInvariant, JournalInvariant
<1>2. /\ at[r] = "next" /\ call[r] < Len(asked[r]) /\ InVisit(r) /\ Working(r)
      /\ call' = [call EXCEPT ![r] = call[r] + 1] /\ at' = [at EXCEPT ![r] = "renewing"]
      /\ UNCHANGED <<asked, run, stop, hung, pending, publication, told, left, fate, hashing, site,
                     unknowns, crashes>>
  BY DEF BeginCall, MoreCalls, Stopped, Working, Go, journalVars, answerVars, worldVars
<1>3. /\ Len(asked[r]) \in Nat /\ call[r] \in Nat
      /\ call[r] + 1 \in DOMAIN asked[r] /\ call[r] + 1 \in call[r]..Len(asked[r])
  BY <1>1, <1>2, AskedShape DEF ArrivalShape
<1>4. LoopShape(r)'
  <2>1. LoopShape(r)
    BY <1>2 DEF ToolInvariant
  <2>2. at'[r] = "renewing" /\ call'[r] = call[r] + 1 /\ left'[r] = left[r] /\ Open(r)' = Open(r)
    BY <1>1, <1>2 DEF TypeOK, Open
  <2>3. Latest(r)' /\ unknowns' <= 1
    BY <1>2, <2>1 DEF LoopShape, Latest, Arrived
  <2>4. OpenShape(r)'
    <3>1. After(r, call[r] - 1)' = After(r, call[r])
      <4>1. call'[r] - 1 = call[r]
        BY <2>2, <1>3
      <4> QED BY <4>1, <1>2 DEF After
    <3> QED BY <2>1, <2>2, <1>2, <1>3, <3>1 DEF LoopShape, OpenShape, RestSteps, CallSteps, After
  <2>5. PendingShape(r)'
    BY <2>1, <2>2, <1>2 DEF LoopShape, PendingShape, RestSteps, CallSteps
  <2>6. CallShape(r)'
    <3>1. ASSUME NEW i \in 1..BatchSize
          PROVE  fate'[<<r, call[r] + 1, i>>] = "none"
      <4>1. <<r, call[r] + 1, i>> \in Units
        BY <1>1, <1>3, CallUnits
      <4>2. PICK u \in Units : u = <<r, call[r] + 1, i>>
        BY <4>1
      <4>3. fate[u] # "none" => u[2] <= call[u[1]]
        BY <1>1 DEF ArrivalShape
      <4> QED BY <4>2, <4>3, <1>2, <1>3
    <3> QED BY <2>2, <3>1 DEF CallShape, Unit
  <2> QED BY <2>3, <2>4, <2>5, <2>6 DEF LoopShape
<1> QED BY <1>2, <1>3, <1>4, QuietMoves DEF Steps

\* The loop interrupted: by a truncated response, a stop, or a lost lease.
LEMMA InterruptSteps ==
    ASSUME Parameters, ToolInvariant, NEW r \in Responses,
           Interrupted(r) \/ LeaseLost(r) \/ PreparationStops(r) \/ LeaseGone(r)
    PROVE  ToolInvariant'
<1>1. at[r] \in {"interrupting", "received", "renewing", "preparing", "written"} /\ Interrupt(r)
  BY DEF Interrupted, LeaseLost, PreparationStops, LeaseGone
<1>2. at[r] \in (RestSteps \cup CallSteps) \ {"failing"}
  BY <1>1 DEF RestSteps, CallSteps
<1> QED BY <1>1, <1>2, InterruptMoves DEF Interrupt, worldVars

\* The call that the loop is at is open, and so are its units.
LEMMA CallAtHand ==
    ASSUME Parameters, ToolInvariant, NEW r \in Responses, at[r] \in CallSteps, InVisit(r)
    PROVE  /\ Working(r) /\ LoopShape(r) /\ JournalInvariant /\ TypeOK
           /\ call[r] \in DOMAIN asked[r] /\ call[r] \in Open(r) /\ call[r] \in Nat \ {0}
           /\ Effect(r) \in Effects
           /\ Targets(r, call[r]) = IF Effect(r) = "batch" THEN 1..BatchSize ELSE {1}
           /\ 1 \in 1..BatchSize
           /\ \A i \in 1..BatchSize :
                /\ Unit(r, i) \in Units
                /\ AsksFor(Unit(r, i)) <=> i \in Targets(r, call[r])
                /\ told[Unit(r, i)] = <<>>
                /\ i \notin Targets(r, call[r]) => site[Unit(r, i)] = "untouched"
                /\ pending.stage = "prepared" \/ pending = NoCall => site[Unit(r, i)] = "untouched"
<1>1. Working(r)
  BY DEF Working, CallSteps
<1>2. LoopShape(r) /\ JournalInvariant /\ TypeOK /\ ArrivalShape
  BY <1>1 DEF ToolInvariant, JournalInvariant
<1>3. call[r] # 0 /\ Open(r) = After(r, call[r] - 1)
  BY <1>2 DEF LoopShape, OpenShape
<1>4. call[r] \in DOMAIN asked[r] /\ call[r] \in Nat \ {0} /\ Effect(r) \in Effects
  BY <1>2, <1>3, AskedShape DEF ArrivalShape, Effect
<1>5. call[r] \in Open(r)
  BY <1>3, <1>4 DEF After
<1>6. Targets(r, call[r]) = IF Effect(r) = "batch" THEN 1..BatchSize ELSE {1}
  <2>1. 1..1 = {1}
    OBVIOUS
  <2> QED BY <2>1 DEF Targets, Effect
<1>7. BatchSize \in Nat \ {0}
  BY DEF Parameters
<1>8. ASSUME NEW i \in 1..BatchSize
      PROVE  /\ Unit(r, i) \in Units
             /\ AsksFor(Unit(r, i)) <=> i \in Targets(r, call[r])
             /\ told[Unit(r, i)] = <<>>
             /\ i \notin Targets(r, call[r]) => site[Unit(r, i)] = "untouched"
             /\ pending.stage = "prepared" \/ pending = NoCall => site[Unit(r, i)] = "untouched"
  <2>1. PICK u \in Units : u = Unit(r, i)
    BY <1>2, <1>4, CallUnits DEF Unit
  <2>2. u[1] = r /\ u[2] = call[r] /\ u[3] = i
    BY <2>1 DEF Unit
  <2>3. AsksFor(u) <=> i \in Targets(r, call[r])
    BY <1>4, <2>2 DEF AsksFor
  <2>4. told[u] # <<>> \/ site[u] # "untouched" => AsksFor(u)
    BY <1>2 DEF ArrivalShape
  <2>5. CASE AsksFor(u)
    <3>1. told[u] = <<>> /\ (StageOf(u) = "prepared" => site[u] = "untouched")
      BY <1>2, <1>5, <2>2, <2>5, NotBegun
    <3>2. pending.stage = "prepared" \/ pending = NoCall => StageOf(u) = "prepared"
      BY DEF StageOf, NoCall
    <3> QED BY <2>1, <2>3, <2>5, <3>1, <3>2
  <2>6. CASE ~AsksFor(u)
    BY <2>1, <2>3, <2>4, <2>6
  <2> QED BY <2>5, <2>6
<1> QED BY <1>1, <1>2, <1>4, <1>5, <1>6, <1>7, <1>8

\* The loop gives one answer for the whole call.
LEMMA OneAnswer ==
    ASSUME Parameters, ToolInvariant, NEW r \in Responses, at[r] \in CallSteps, InVisit(r),
           NEW shown \in BOOLEAN, NEW answer \in Answers,
           \A i \in Targets(r, call[r]) : IsTrue(Unit(r, i), answer),
           Told(Same(r, {call[r]}, answer)), publication' = Completed({call[r]}, shown),
           pending' = NoCall, left' = [left EXCEPT ![r] = @ \ {call[r]}],
           NEW step \in {"next", "written", "interrupting", "siblings"}, Go(r, step),
           unknowns' \in 0..2, step # "siblings" => unknowns' <= 1,
           UNCHANGED <<asked, run, stop, hung, call, fate, site, crashes>>, hashing' \subseteq hashing
    PROVE  ToolInvariant'
<1>1. PICK answers : answers = Same(r, {call[r]}, answer)
  OBVIOUS
<1>2. DOMAIN answers = UnitsOf(r, {call[r]}) /\ Told(answers)
  BY <1>1 DEF Same
<1>3. ASSUME NEW i \in Targets(r, call[r])
      PROVE  answers[Unit(r, i)] = answer
  <2>1. i \in 1..BatchSize /\ Unit(r, i) \in Units
    BY CallAtHand
  <2>2. PICK u \in Units : u = Unit(r, i)
    BY <2>1
  <2>3. u[1] = r /\ u[2] = call[r] /\ u[3] = i
    BY <2>2 DEF Unit
  <2>4. u \in UnitsOf(r, {call[r]})
    BY <2>3, UnitsOfIs
  <2> QED BY <1>1, <2>2, <2>4 DEF Same
<1>4. \A i \in Targets(r, call[r]) :
        answers[Unit(r, i)] \in Answers /\ IsTrue(Unit(r, i), answers[Unit(r, i)])
  BY <1>3
<1> QED BY <1>2, <1>4, CallIsAnswered

\* The target that the loop is at, for a post or a batch.
LEMMA TargetAtHand ==
    ASSUME Parameters, ToolInvariant, NEW r \in Responses, at[r] \in {"hashing", "waiting"}, InVisit(r)
    PROVE  \E n \in 1..BatchSize :
                /\ TargetShape(r, n) /\ Current(r) = Unit(r, n)
                /\ Effect(r) \in {"batch", "post"} /\ (Effect(r) = "post" => n = 1)
<1>1. Working(r) /\ LoopShape(r)
  BY CallAtHand DEF CallSteps
<1>2. PICK n \in 1..BatchSize : TargetShape(r, n)
  BY <1>1 DEF LoopShape, CallShape
<1>3. \A i \in 1..BatchSize : fate[Unit(r, i)] = "none" <=> i >= n
  BY <1>2 DEF TargetShape, Parameters
<1>4. Current(r) = Unit(r, n)
  BY <1>3, CurrentIs
<1> QED BY <1>2, <1>4 DEF TargetShape

\* A call of which nothing was performed can be answered as refused.
LEMMA FailsMoves ==
    ASSUME Parameters, ToolInvariant, NEW r \in Responses, at[r] \in CallSteps, Fails(r),
           \A i \in Targets(r, call[r]) : site[Unit(r, i)] \in {"untouched", "refused"},
           UNCHANGED site, hashing' \subseteq hashing
    PROVE  ToolInvariant'
<1>1. /\ InVisit(r) /\ Told(Same(r, {call[r]}, "refused")) /\ publication' = Completed({call[r]}, TRUE)
      /\ pending' = NoCall /\ left' = [left EXCEPT ![r] = @ \ {call[r]}] /\ Go(r, "next")
      /\ UNCHANGED <<asked, run, stop, hung, crashes, call, fate,
                     unknowns>>
  BY DEF Fails, Answer, Authority, journalVars
<1>2. \A i \in Targets(r, call[r]) : IsTrue(Unit(r, i), "refused")
  BY DEF IsTrue
<1>3. unknowns' \in 0..2 /\ unknowns' <= 1
  <2>1. LoopShape(r) /\ TypeOK
    BY <1>1, CallAtHand
  <2> QED BY <2>1, <1>1 DEF LoopShape, TypeOK, CallSteps
<1>4. "refused" \in Answers
  BY DEF Answers, Fates
<1> QED BY <1>1, <1>2, <1>3, <1>4, OneAnswer

\* A call that fails before anything is sent for it.
LEMMA EarlyFailures ==
    ASSUME Parameters, ToolInvariant, NEW r \in Responses, LeaseFails(r) \/ PreparationFails(r)
    PROVE  ToolInvariant'
<1>1. /\ at[r] \in {"renewing", "preparing"} /\ at[r] \in CallSteps /\ Fails(r) /\ InVisit(r)
      /\ UNCHANGED <<site, hashing>>
  BY DEF LeaseFails, PreparationFails, CallSteps, Fails, Answer, Authority, worldVars
<1>2. pending.stage = "prepared" \/ pending = NoCall
  BY <1>1, CallAtHand DEF LoopShape, PendingShape
<1>3. \A i \in Targets(r, call[r]) : site[Unit(r, i)] \in {"untouched", "refused"}
  BY <1>1, <1>2, CallAtHand
<1> QED BY <1>1, <1>3, FailsMoves

\* The refusal of a post whose thread was looked up.
LEMMA FailureIsToldStep ==
    ASSUME Parameters, ToolInvariant, NEW r \in Responses, FailureIsTold(r)
    PROVE  ToolInvariant'
<1>1. at[r] = "failing" /\ at[r] \in CallSteps /\ Fails(r) /\ InVisit(r) /\ UNCHANGED <<site, hashing>>
  BY DEF FailureIsTold, CallSteps, Fails, Answer, Authority, worldVars
<1>2. Effect(r) = "post" /\ site[Unit(r, 1)] = "refused"
  BY <1>1, CallAtHand DEF LoopShape, CallShape
<1>3. Targets(r, call[r]) = {1}
  BY <1>1, <1>2, CallAtHand
<1> QED BY <1>1, <1>2, <1>3, FailsMoves

\* A correction names a call of which nothing was sent.
LEMMA CorrectCallStep ==
    ASSUME Parameters, ToolInvariant, NEW r \in Responses, CorrectCall(r)
    PROVE  ToolInvariant'
<1>1. /\ at[r] = "preparing" /\ at[r] \in CallSteps /\ InVisit(r)
      /\ Told(Same(r, {call[r]}, "corrected")) /\ publication' = Completed({call[r]}, FALSE)
      /\ pending' = NoCall /\ left' = [left EXCEPT ![r] = @ \ {call[r]}] /\ Go(r, "next")
      /\ UNCHANGED <<asked, run, stop, hung, crashes, call, fate, site, hashing,
                     unknowns>>
  BY DEF CorrectCall, LetGo, Authority, CallSteps, journalVars, worldVars
<1>2. LoopShape(r) /\ TypeOK /\ pending.stage = "prepared"
  BY <1>1, CallAtHand DEF LoopShape, PendingShape
<1>3. \A i \in Targets(r, call[r]) : IsTrue(Unit(r, i), "corrected")
  BY <1>1, <1>2, CallAtHand DEF IsTrue
<1>4. unknowns' \in 0..2 /\ unknowns' <= 1
  BY <1>1, <1>2 DEF LoopShape, TypeOK
<1>5. "corrected" \in Answers
  BY DEF Answers
<1> QED BY <1>1, <1>3, <1>4, <1>5, OneAnswer

\* The result of a call is what the loop got from the website or the notes.
LEMMA ResultIsToldStep ==
    ASSUME Parameters, ToolInvariant, NEW r \in Responses, ResultIsTold(r)
    PROVE  ToolInvariant'
<1>1. /\ at[r] = "rendering" /\ at[r] \in CallSteps /\ InVisit(r)
      /\ Told(Same(r, {call[r]}, "result")) /\ publication' = Completed({call[r]}, TRUE)
      /\ pending' = NoCall /\ left' = [left EXCEPT ![r] = @ \ {call[r]}] /\ Go(r, "written")
      /\ UNCHANGED <<asked, run, stop, hung, crashes, call, fate, site, hashing,
                     unknowns>>
  BY DEF ResultIsTold, Answer, Authority, CallSteps, journalVars, worldVars
<1>2. LoopShape(r) /\ TypeOK
  BY <1>1, CallAtHand
<1>3. \A i \in Targets(r, call[r]) : IsTrue(Unit(r, i), "result")
  BY <1>1, <1>2 DEF LoopShape, CallShape, IsTrue, Unit, Effect
<1>4. unknowns' \in 0..2 /\ unknowns' <= 1
  BY <1>1, <1>2 DEF LoopShape, TypeOK
<1>5. "result" \in Answers
  BY DEF Answers, Fates
<1> QED BY <1>1, <1>3, <1>4, <1>5, OneAnswer

\* A read that fails, or that a stop cuts off.
LEMMA ReadFailsStep ==
    ASSUME Parameters, ToolInvariant, NEW r \in Responses, ReadFails(r)
    PROVE  ToolInvariant'
<1>1. at[r] = "rendering" /\ at[r] \in CallSteps /\ Effect(r) = "read" /\ UNCHANGED <<site, hashing>>
  BY DEF ReadFails, CallSteps, worldVars
<1>2. CASE Fails(r)
  <2>1. \A i \in Targets(r, call[r]) : site[Unit(r, i)] \in {"untouched", "refused"}
    BY <1>1, <1>2, CallAtHand DEF LoopShape, CallShape, Fails, Answer, Authority
  <2> QED BY <1>1, <1>2, <2>1, FailsMoves
<1>3. CASE ~Fails(r)
  BY <1>1, <1>3, InterruptMoves DEF ReadFails, RestSteps
<1> QED BY <1>2, <1>3

(***************************************************************************)
(* Requests and the targets of a batch                                     *)
(***************************************************************************)
\* The loop moves on inside a call, and tells nobody.
LEMMA TargetMoves ==
    ASSUME Parameters, ToolInvariant, NEW r \in Responses, at[r] \in CallSteps, InVisit(r),
           NEW step \in CallSteps, Go(r, step),
           UNCHANGED <<asked, run, stop, hung, publication, pending, told, call, site, unknowns, crashes>>,
           left' = left \/ left' = [left EXCEPT ![r] = @ \ {call[r]}],
           fate' \in [Units -> Fates],
           \A u \in Units : fate'[u] # "none" => fate[u] # "none" \/ (u[1] = r /\ u[2] <= call[r]),
           hashing' \subseteq Units, LoopShape(r)'
    PROVE  ToolInvariant'
<1>1. Working(r) /\ JournalInvariant /\ TypeOK /\ ArrivalShape /\ at[r] # "idle"
  BY CallAtHand DEF JournalInvariant, CallSteps
<1>2. step \in Steps /\ step # "idle" /\ at' = [at EXCEPT ![r] = step]
  BY DEF CallSteps, Steps, Go
<1>3. TypeOK'
  <2>1. left' \in [Responses -> SUBSET Positions] /\ at' \in [Responses -> Steps]
    BY <1>1, <1>2 DEF TypeOK
  <2> QED BY <1>1, <2>1 DEF TypeOK
<1>4. call[r] \in call[r]..Len(asked[r]) /\ call' = [call EXCEPT ![r] = call[r]]
  <2>1. call[r] \in 0..Len(asked[r]) /\ Len(asked[r]) \in Nat
    BY <1>1, AskedShape DEF ArrivalShape
  <2> QED BY <2>1, <1>1 DEF TypeOK
<1>5. \A u \in Units :
          /\ told'[u] # <<>> => told[u] # <<>> \/ AsksFor(u)
          /\ site'[u] # "untouched" => site[u] # "untouched" \/ AsksFor(u)
          /\ fate'[u] # "none" => fate[u] # "none" \/ (u[1] = r /\ u[2] <= call[r])
  OBVIOUS
<1>6. ArrivalShape'
  BY <1>1, <1>2, <1>4, <1>5, ArrivalFrame
<1>7. JournalInvariant'
  BY <1>1, <1>3, <1>6, JournalFrame DEF JournalInvariant
<1>8. \A q \in Responses : q # r => at'[q] = at[q]
  BY <1>1, <1>2 DEF TypeOK
<1> QED BY <1>1, <1>7, <1>8, LoopMoves

\* The rest of the loop's shape, for a step inside a call past its preparation.
LEMMA TargetShapes ==
    ASSUME Parameters, ToolInvariant, NEW r \in Responses,
           at[r] \in CallSteps \ {"renewing", "failing"}, InVisit(r),
           NEW step \in CallSteps \ {"renewing", "preparing"}, Go(r, step),
           UNCHANGED <<asked, publication, call, unknowns>>,
           pending'.response = pending.response, pending'.call = pending.call,
           left' = IF step = "failing" THEN [left EXCEPT ![r] = @ \ {call[r]}] ELSE left
    PROVE  Latest(r)' /\ unknowns' <= 1 /\ OpenShape(r)' /\ PendingShape(r)' /\ at'[r] = step
<1>1. LoopShape(r) /\ TypeOK /\ at[r] \in CallSteps
  BY CallAtHand
<1>2. at'[r] = step /\ Open(r)' = Open(r)
  BY <1>1 DEF TypeOK, Go, Open
<1>3. Latest(r)' /\ unknowns' <= 1
  BY <1>1 DEF LoopShape, Latest, Arrived, CallSteps
<1>4. OpenShape(r)'
  <2>1. After(r, call[r] - 1)' = After(r, call[r] - 1)
    BY DEF After
  <2>2. call[r] # 0 /\ Open(r) = After(r, call[r] - 1) /\ left[r] = Open(r)
    BY <1>1 DEF LoopShape, OpenShape, CallSteps
  <2>3. left'[r] = IF step = "failing" THEN Open(r) \ {call[r]} ELSE Open(r)
    BY <1>1, <2>2 DEF TypeOK
  <2> QED BY <1>2, <2>1, <2>2, <2>3 DEF OpenShape, RestSteps, CallSteps
<1>5. PendingShape(r)'
  BY <1>1, <1>2 DEF LoopShape, PendingShape, RestSteps, CallSteps
<1> QED BY <1>2, <1>3, <1>4, <1>5

\* A batch stops at the target it is at: what is known of each target is what
\* became of it.
LEMMA BatchBreaksMoves ==
    ASSUME Parameters, ToolInvariant, NEW r \in Responses, at[r] \in {"hashing", "waiting"}, InVisit(r),
           NEW n \in 1..BatchSize, TargetShape(r, n), Current(r) = Unit(r, n), Effect(r) = "batch",
           NEW outcome \in Fates \ {"none"},
           outcome \in {"result", "committed"} => site[Unit(r, n)] = "performed",
           outcome = "refused" => site[Unit(r, n)] \in {"untouched", "refused"},
           outcome = "not_attempted" => site[Unit(r, n)] = "untouched",
           NEW step \in {"settling", "settling_stopped"}, BatchBreaks(r, outcome, step),
           UNCHANGED site, hashing' \subseteq hashing
    PROVE  ToolInvariant'
<1>1. /\ at[r] \in CallSteps \ {"renewing", "failing"} /\ step \in CallSteps \ {"renewing", "preparing"}
      /\ step # "failing" /\ Go(r, step)
      /\ UNCHANGED <<asked, run, stop, hung, publication, pending, told, left, call, site, unknowns, crashes>>
  BY DEF CallSteps, BatchBreaks, journalVars, answerVars
<1>2. TypeOK /\ LoopShape(r) /\ \A i \in 1..BatchSize : Unit(r, i) \in Units
  BY <1>1, CallAtHand
<1>3. Targets(r, call[r]) = 1..BatchSize
  BY <1>1, CallAtHand
<1>4. \A u \in Units : u \in UnitsOf(r, {call[r]}) <=> u[1] = r /\ u[2] = call[r]
  <2> SUFFICES ASSUME NEW u \in Units
               PROVE  u \in UnitsOf(r, {call[r]}) <=> u[1] = r /\ u[2] = call[r]
    OBVIOUS
  <2>1. u[3] \in 1..BatchSize
    BY UnitParts
  <2>2. u \in UnitsOf(r, {call[r]}) <=> u[1] = r /\ u[2] \in {call[r]} /\ u[3] \in Targets(r, u[2])
    BY UnitsOfIs
  <2>3. CASE u[2] = call[r]
    <3>1. u[3] \in Targets(r, u[2])
      BY <2>1, <2>3, <1>3
    <3> QED BY <2>2, <2>3, <3>1
  <2> QED BY <2>2, <2>3
<1>5. fate' = [u \in Units |-> IF u = Unit(r, n) THEN outcome
                              ELSE IF u \in UnitsOf(r, {call[r]}) /\ u[3] > n THEN "not_attempted"
                              ELSE fate[u]]
  <2>1. Unit(r, n)[3] = n
    BY DEF Unit
  <2> QED BY <2>1 DEF BatchBreaks
<1>6. fate' \in [Units -> Fates]
  BY <1>2, <1>5 DEF TypeOK, Fates
<1>7. \A u \in Units :
        fate'[u] = IF u = Unit(r, n) THEN outcome
                   ELSE IF u[1] = r /\ u[2] = call[r] /\ u[3] > n THEN "not_attempted" ELSE fate[u]
  BY <1>4, <1>5
<1>8. \A u \in Units : fate'[u] # "none" => fate[u] # "none" \/ (u[1] = r /\ u[2] <= call[r])
  <2> SUFFICES ASSUME NEW u \in Units, fate'[u] # fate[u]
               PROVE  u[1] = r /\ u[2] <= call[r]
    OBVIOUS
  <2>1. u[1] = r /\ u[2] = call[r]
    <3>1. CASE u = Unit(r, n)
      BY <3>1 DEF Unit
    <3>2. CASE u # Unit(r, n)
      BY <3>2, <1>7
    <3> QED BY <3>1, <3>2
  <2>2. call[r] \in Nat
    BY <1>1, CallAtHand
  <2> QED BY <2>1, <2>2
<1>9. ASSUME NEW i \in 1..BatchSize
      PROVE  FateShape(Unit(r, i))'
  <2>1. PICK u \in Units : u = Unit(r, i)
    BY <1>2
  <2>2. u[1] = r /\ u[2] = call[r] /\ u[3] = i
    BY <2>1 DEF Unit
  <2>3. fate'[u] = IF i = n THEN outcome ELSE IF i > n THEN "not_attempted" ELSE "result"
    <3>1. u = Unit(r, n) <=> i = n
      BY <2>1 DEF Unit
    <3>2. i < n => fate[u] = "result"
      BY <2>1 DEF TargetShape
    <3>3. i \in Int /\ n \in Int
      OBVIOUS
    <3>4. fate'[u] = IF u = Unit(r, n) THEN outcome ELSE IF i > n THEN "not_attempted" ELSE fate[u]
      BY <1>7, <2>2
    <3> QED BY <3>1, <3>2, <3>3, <3>4
  <2>4. (i < n => site[u] = "performed") /\ (i > n => site[u] = "untouched")
    BY <2>1 DEF TargetShape
  <2>5. FateShape(u)'
    <3>1. i = n => u = Unit(r, n)
      BY <2>1
    <3>2. i \in Int /\ n \in Int
      OBVIOUS
    <3> QED BY <2>3, <2>4, <3>1, <3>2 DEF FateShape, Fates
  <2>6. Unit(r, i)' = u
    BY <1>1, <2>1 DEF Unit
  <2> QED BY <2>5, <2>6 DEF FateShape
<1>10. LoopShape(r)'
  <2>1. Latest(r)' /\ unknowns' <= 1 /\ OpenShape(r)' /\ PendingShape(r)' /\ at'[r] = step
    BY <1>1, TargetShapes
  <2>2. Effect(r)' = "batch"
    BY <1>1 DEF Effect
  <2>3. CallShape(r)'
    BY <2>1, <2>2, <1>9 DEF CallShape
  <2> QED BY <2>1, <2>3 DEF LoopShape
<1>11. hashing' \subseteq Units /\ step \in CallSteps
  BY <1>1, <1>2 DEF TypeOK
<1> QED BY <1>1, <1>6, <1>8, <1>10, <1>11, TargetMoves

\* The time for a request runs out before it is sent.
LEMMA RequestFailsStep ==
    ASSUME Parameters, ToolInvariant, NEW r \in Responses, RequestFails(r)
    PROVE  ToolInvariant'
<1>1. at[r] = "hashing" /\ at[r] \in CallSteps /\ InVisit(r) /\ UNCHANGED <<site, hashing>>
  BY DEF RequestFails, CallSteps, worldVars
<1>2. PICK n \in 1..BatchSize : /\ TargetShape(r, n) /\ Current(r) = Unit(r, n)
                                /\ Effect(r) = "post" => n = 1
  BY <1>1, TargetAtHand
<1>3. site[Unit(r, n)] = "untouched"
  BY <1>1, <1>2 DEF TargetShape
<1>4. CASE Effect(r) = "post" /\ Fails(r)
  <2>1. Targets(r, call[r]) = {1}
    BY <1>1, <1>4, CallAtHand
  <2> QED BY <2>1, <1>1, <1>2, <1>3, <1>4, FailsMoves
<1>5. CASE Effect(r) = "batch" /\ BatchBreaks(r, "refused", "settling")
  BY <1>1, <1>2, <1>3, <1>5, BatchBreaksMoves DEF Fates
<1> QED BY <1>4, <1>5 DEF RequestFails

\* The write happened, and its result is unavailable.
LEMMA CommittedIssueStep ==
    ASSUME Parameters, ToolInvariant, NEW r \in Responses, CommittedIssue(r)
    PROVE  ToolInvariant'
<1>1. at[r] = "waiting" /\ at[r] \in CallSteps /\ InVisit(r) /\ UNCHANGED <<site, hashing>>
  BY DEF CommittedIssue, CallSteps, worldVars
<1>2. PICK n \in 1..BatchSize : /\ TargetShape(r, n) /\ Current(r) = Unit(r, n)
                                /\ Effect(r) = "post" => n = 1
  BY <1>1, TargetAtHand
<1>3. site[Unit(r, n)] = "performed"
  BY <1>2 DEF CommittedIssue
<1>4. ASSUME Effect(r) = "post", Answer(r, {call[r]}, Same(r, {call[r]}, "committed")),
             Go(r, "next"), UNCHANGED <<journalVars, call, fate, unknowns>>
      PROVE  ToolInvariant'
  <2>1. Targets(r, call[r]) = {1}
    BY <1>1, <1>4, CallAtHand
  <2>2. \A i \in Targets(r, call[r]) : IsTrue(Unit(r, i), "committed")
    BY <2>1, <1>2, <1>3, <1>4 DEF IsTrue
  <2>3. unknowns' \in 0..2 /\ unknowns' <= 1
    BY <1>1, <1>4, CallAtHand DEF LoopShape, TypeOK
  <2>4. /\ Told(Same(r, {call[r]}, "committed")) /\ publication' = Completed({call[r]}, TRUE)
        /\ pending' = NoCall /\ left' = [left EXCEPT ![r] = @ \ {call[r]}]
        /\ UNCHANGED <<asked, run, stop, hung, crashes, call, fate, unknowns>>
    BY <1>4 DEF Answer, journalVars
  <2>5. "committed" \in Answers
    BY DEF Answers, Fates
  <2> QED BY <1>1, <1>4, <2>2, <2>3, <2>4, <2>5, OneAnswer
<1>5. CASE Effect(r) = "batch" /\ BatchBreaks(r, "committed", "settling")
  BY <1>1, <1>2, <1>3, <1>5, BatchBreaksMoves DEF Fates
<1> QED BY <1>4, <1>5 DEF CommittedIssue

\* No answer, an answer nobody can read, or a stop while it was awaited.
LEMMA OutcomeUnknownStep ==
    ASSUME Parameters, ToolInvariant, NEW r \in Responses, OutcomeUnknown(r)
    PROVE  ToolInvariant'
<1>1. at[r] = "waiting" /\ at[r] \in CallSteps /\ InVisit(r) /\ UNCHANGED <<site, hashing>>
  BY DEF OutcomeUnknown, CallSteps, worldVars
<1>2. PICK n \in 1..BatchSize : /\ TargetShape(r, n) /\ Current(r) = Unit(r, n)
                                /\ Effect(r) = "post" => n = 1
  BY <1>1, TargetAtHand
<1>3. site[Unit(r, n)] # "untouched"
  BY <1>1, <1>2 DEF TargetShape
<1>4. ASSUME Effect(r) = "post", Answer(r, {call[r]}, Same(r, {call[r]}, "unknown")),
             unknowns' = unknowns + 1, Go(r, "siblings"), UNCHANGED <<journalVars, call, fate>>
      PROVE  ToolInvariant'
  <2>1. Targets(r, call[r]) = {1}
    BY <1>1, <1>4, CallAtHand
  <2>2. \A i \in Targets(r, call[r]) : IsTrue(Unit(r, i), "unknown")
    BY <2>1, <1>2, <1>3, <1>4 DEF IsTrue
  <2>3. unknowns' \in 0..2
    BY <1>1, <1>4, CallAtHand DEF LoopShape, TypeOK
  <2>4. /\ Told(Same(r, {call[r]}, "unknown")) /\ publication' = Completed({call[r]}, TRUE)
        /\ pending' = NoCall /\ left' = [left EXCEPT ![r] = @ \ {call[r]}]
        /\ UNCHANGED <<asked, run, stop, hung, crashes, call, fate>>
    BY <1>4 DEF Answer, journalVars
  <2>5. "unknown" \in Answers
    BY DEF Answers, Fates
  <2> QED BY <1>1, <1>4, <2>2, <2>3, <2>4, <2>5, OneAnswer
<1>5. CASE Effect(r) = "batch" /\ BatchBreaks(r, "unknown", "settling")
  BY <1>1, <1>2, <1>3, <1>5, BatchBreaksMoves DEF Fates
<1> QED BY <1>4, <1>5 DEF OutcomeUnknown

\* A refused post waits for a thread's identity with its answer still owed.
LEMMA AwaitsIdentityMoves ==
    ASSUME Parameters, ToolInvariant, NEW r \in Responses, at[r] = "waiting", InVisit(r),
           Effect(r) = "post", site[Unit(r, 1)] = "refused", FailureAwaitsIdentity(r),
           UNCHANGED <<site, hashing>>
    PROVE  ToolInvariant'
<1>1. /\ at[r] \in CallSteps /\ Go(r, "failing") /\ left' = [left EXCEPT ![r] = @ \ {call[r]}]
      /\ UNCHANGED <<asked, run, stop, hung, publication, pending, told, call, fate, unknowns, crashes>>
  BY DEF FailureAwaitsIdentity, CallSteps, journalVars
<1>2. TypeOK
  BY <1>1, CallAtHand
<1>3. LoopShape(r)'
  <2>1. Latest(r)' /\ unknowns' <= 1 /\ OpenShape(r)' /\ PendingShape(r)' /\ at'[r] = "failing"
    BY <1>1, TargetShapes DEF CallSteps
  <2>2. CallShape(r)'
    BY <1>1, <2>1 DEF CallShape, Effect, Unit
  <2> QED BY <2>1, <2>2 DEF LoopShape
<1>4. fate' \in [Units -> Fates] /\ hashing' \subseteq Units /\ "failing" \in CallSteps
  BY <1>1, <1>2 DEF TypeOK, CallSteps
<1> QED BY <1>1, <1>3, <1>4, TargetMoves

\* The website refused.
LEMMA RefusedStep ==
    ASSUME Parameters, ToolInvariant, NEW r \in Responses, Refused(r)
    PROVE  ToolInvariant'
<1>1. at[r] = "waiting" /\ at[r] \in CallSteps /\ InVisit(r) /\ UNCHANGED <<site, hashing>>
  BY DEF Refused, CallSteps, worldVars
<1>2. PICK n \in 1..BatchSize : /\ TargetShape(r, n) /\ Current(r) = Unit(r, n)
                                /\ Effect(r) = "post" => n = 1
  BY <1>1, TargetAtHand
<1>3. site[Unit(r, n)] = "refused"
  BY <1>2 DEF Refused
<1>4. CASE Effect(r) = "post" /\ Fails(r)
  <2>1. Targets(r, call[r]) = {1}
    BY <1>1, <1>4, CallAtHand
  <2> QED BY <2>1, <1>1, <1>2, <1>3, <1>4, FailsMoves
<1>5. CASE Effect(r) = "post" /\ FailureAwaitsIdentity(r)
  BY <1>1, <1>2, <1>3, <1>5, AwaitsIdentityMoves
<1>6. CASE Effect(r) = "batch" /\ BatchBreaks(r, "refused", "settling")
  BY <1>1, <1>2, <1>3, <1>6, BatchBreaksMoves DEF Fates
<1> QED BY <1>4, <1>5, <1>6 DEF Refused

\* A stop request met a request that had not been sent.
LEMMA DispatchStoppedStep ==
    ASSUME Parameters, ToolInvariant, NEW u \in Units, DispatchStopped(u)
    PROVE  ToolInvariant'
<1>1. PICK r \in Responses : r = u[1]
  BY UnitParts
<1>2. /\ at[r] = "hashing" /\ at[r] \in CallSteps /\ at[r] \in (RestSteps \cup CallSteps) \ {"failing"}
      /\ InVisit(r) /\ UNCHANGED site /\ hashing' \subseteq hashing
  BY <1>1 DEF DispatchStopped, Awaited, CallSteps
<1>3. PICK n \in 1..BatchSize : /\ TargetShape(r, n) /\ Current(r) = Unit(r, n)
                                /\ Effect(r) = "post" => n = 1
  BY <1>2, TargetAtHand
<1>4. site[Unit(r, n)] = "untouched"
  BY <1>2, <1>3 DEF TargetShape
<1>5. ASSUME Answer(r, left[r], Settlements(r, left[r])), Go(r, "ending"),
             UNCHANGED <<journalVars, call, fate, unknowns>>
      PROVE  ToolInvariant'
  BY <1>2, <1>5, InterruptMoves
<1>6. CASE Effect(r) = "batch" /\ BatchBreaks(r, "not_attempted", "settling_stopped")
  BY <1>2, <1>3, <1>4, <1>6, BatchBreaksMoves DEF Fates
<1> QED BY <1>1, <1>5, <1>6 DEF DispatchStopped

\* The outcomes of a batch are told as they are, and an unknown one counts.
LEMMA BatchIsToldStep ==
    ASSUME Parameters, ToolInvariant, NEW r \in Responses, BatchIsTold(r)
    PROVE  ToolInvariant'
<1>1. /\ at[r] \in {"settling", "settling_stopped"} /\ at[r] \in CallSteps /\ InVisit(r)
      /\ UNCHANGED <<asked, run, stop, hung, crashes, call, fate, site,
                     hashing>>
  BY DEF BatchIsTold, CallSteps, Answer, Authority, journalVars, worldVars
<1>2. LoopShape(r) /\ TypeOK
  BY <1>1, CallAtHand
<1>3. PICK answers : answers = [u \in UnitsOf(r, {call[r]}) |-> fate[u]]
  OBVIOUS
<1>4. /\ DOMAIN answers = UnitsOf(r, {call[r]}) /\ Told(answers) /\ publication' = Completed({call[r]}, TRUE)
      /\ pending' = NoCall /\ left' = [left EXCEPT ![r] = @ \ {call[r]}]
  BY <1>3 DEF BatchIsTold, Answer
<1>5. ASSUME NEW i \in Targets(r, call[r])
      PROVE  answers[Unit(r, i)] \in Answers /\ IsTrue(Unit(r, i), answers[Unit(r, i)])
  <2>1. i \in 1..BatchSize /\ Unit(r, i) \in Units
    BY <1>1, CallAtHand
  <2>2. PICK u \in Units : u = Unit(r, i)
    BY <2>1
  <2>3. u[1] = r /\ u[2] = call[r] /\ u[3] = i
    BY <2>2 DEF Unit
  <2>4. answers[u] = fate[u]
    BY <1>3, <2>3, UnitsOfIs
  <2>5. FateShape(u) /\ asked[r][call[r]] = "batch"
    BY <1>1, <1>2, <2>1, <2>2 DEF LoopShape, CallShape, Effect
  <2>6. fate[u] \in Fates \ {"none"}
    BY <1>2, <2>5 DEF TypeOK, FateShape
  <2> QED BY <2>2, <2>3, <2>4, <2>5, <2>6 DEF FateShape, IsTrue, Answers, Fates
<1>6. unknowns <= 1 /\ unknowns \in 0..2
  BY <1>1, <1>2 DEF LoopShape, TypeOK
<1>7. ASSUME unknowns' = unknowns + 1, Go(r, "siblings")
      PROVE  ToolInvariant'
  <2>1. unknowns' \in 0..2 /\ hashing' \subseteq hashing /\ TRUE \in BOOLEAN
    BY <1>1, <1>6, <1>7
  <2>2. PICK step : step = "siblings"
    OBVIOUS
  <2>3. step \in {"next", "written", "interrupting", "siblings"} /\ Go(r, step)
    BY <1>7, <2>2
  <2> QED BY <1>1, <1>4, <1>5, <2>1, <2>2, <2>3, CallIsAnswered
<1>8. ASSUME unknowns' = unknowns, NEW step \in {"next", "interrupting"}, Go(r, step)
      PROVE  ToolInvariant'
  BY <1>1, <1>4, <1>5, <1>6, <1>8, CallIsAnswered
<1>9. CASE \E u \in UnitsOf(r, {call[r]}) : fate[u] = "unknown"
  <2>1. unknowns' = unknowns + 1 /\ Go(r, "siblings")
    BY <1>9 DEF BatchIsTold
  <2> QED BY <2>1, <1>7
<1>10. CASE ~\E u \in UnitsOf(r, {call[r]}) : fate[u] = "unknown"
  <2>1. unknowns' = unknowns /\ Go(r, IF at[r] = "settling_stopped" THEN "interrupting" ELSE "next")
    BY <1>10 DEF BatchIsTold
  <2> QED BY <2>1, <1>8
<1> QED BY <1>9, <1>10

\* A request is prepared for the first target: no other was sent.
LEMMA PrepareRequestStep ==
    ASSUME Parameters, ToolInvariant, NEW r \in Responses, PrepareRequest(r)
    PROVE  ToolInvariant'
<1>1. /\ at[r] = "preparing" /\ at[r] \in CallSteps /\ InVisit(r)
      /\ Effect(r) = "batch" \/ (Effect(r) = "post" /\ ~EarlierUnresolved)
      /\ hashing' = hashing \cup {Current(r)} /\ Go(r, "hashing")
      /\ UNCHANGED <<asked, run, stop, hung, crashes, publication, pending, told, left, call, fate, site,
                     unknowns>>
  BY DEF PrepareRequest, CallSteps, Stopped, journalVars, answerVars
<1>2. /\ LoopShape(r) /\ TypeOK /\ pending.stage = "prepared" /\ 1 \in 1..BatchSize
      /\ \A i \in 1..BatchSize : fate[Unit(r, i)] = "none" /\ Unit(r, i) \in Units
  BY <1>1, CallAtHand DEF LoopShape, PendingShape, CallShape
<1>3. \A i \in 1..BatchSize : site[Unit(r, i)] = "untouched"
  BY <1>1, <1>2, CallAtHand
<1>4. Current(r) = Unit(r, 1)
  BY <1>2, CurrentIs
<1>5. LoopShape(r)'
  <2>1. Latest(r)' /\ unknowns' <= 1 /\ OpenShape(r)' /\ PendingShape(r)' /\ at'[r] = "hashing"
    BY <1>1, TargetShapes DEF CallSteps
  <2>2. Effect(r)' = Effect(r) /\ (EarlierUnresolved' <=> EarlierUnresolved) /\ \A i : Unit(r, i)' = Unit(r, i)
    BY <1>1 DEF Effect, EarlierUnresolved, IsPost, Unit
  <2>3. TargetShape(r, 1)'
    BY <1>1, <1>2, <1>3, <2>1, <2>2 DEF TargetShape
  <2>4. CallShape(r)'
    BY <1>2, <2>1, <2>3 DEF CallShape
  <2> QED BY <2>1, <2>4 DEF LoopShape
<1>6. hashing' \subseteq Units /\ fate' \in [Units -> Fates] /\ "hashing" \in CallSteps
  BY <1>1, <1>2, <1>4 DEF TypeOK, CallSteps
<1> QED BY <1>1, <1>5, <1>6, TargetMoves

\* The request of a post, or of the last target, returned.
LEMMA ReturnedStep ==
    ASSUME Parameters, ToolInvariant, NEW r \in Responses, Returned(r)
    PROVE  ToolInvariant'
<1>1. at[r] = "waiting" /\ at[r] \in CallSteps /\ InVisit(r)
  BY DEF Returned, CallSteps
<1>2. PICK n \in 1..BatchSize : /\ TargetShape(r, n) /\ Current(r) = Unit(r, n)
                                /\ Effect(r) \in {"batch", "post"} /\ (Effect(r) = "post" => n = 1)
  BY <1>1, TargetAtHand
<1>3. CASE Interrupt(r)
  BY <1>1, <1>3, InterruptMoves DEF Interrupt, worldVars, RestSteps
<1>4. ASSUME Go(r, "rendering"),
             fate' = [fate EXCEPT ![Current(r)] = IF Effect(r) = "batch" THEN "result" ELSE @],
             UNCHANGED <<journalVars, answerVars, call, worldVars, unknowns>>
      PROVE  ToolInvariant'
  <2>1. UNCHANGED <<asked, run, stop, hung, crashes, publication, pending, told, left, call, site, hashing,
                   unknowns>>
    BY <1>4 DEF journalVars, answerVars, worldVars
  <2>2. TypeOK /\ call[r] \in Nat /\ Unit(r, n) \in Units
    BY <1>1, CallAtHand
  <2>3. fate' \in [Units -> Fates]
    BY <1>4, <2>2 DEF TypeOK, Fates
  <2>4. \A u \in Units : fate'[u] # "none" => fate[u] # "none" \/ (u[1] = r /\ u[2] <= call[r])
    <3> SUFFICES ASSUME NEW u \in Units, fate'[u] # fate[u]
                 PROVE  u[1] = r /\ u[2] <= call[r]
      OBVIOUS
    <3>1. u = Unit(r, n)
      BY <1>2, <1>4, <2>2 DEF TypeOK
    <3> QED BY <3>1, <2>2 DEF Unit
  <2>5. \A i \in Targets(r, call[r]) : site[Unit(r, i)] = "performed"
    <3>1. Unit(r, n)[3] = n /\ site[Unit(r, n)] = "performed" /\ n + 1 \notin Targets(r, call[r])
      BY <1>2 DEF Returned, Unit
    <3>2. Targets(r, call[r]) = IF Effect(r) = "batch" THEN 1..BatchSize ELSE {1}
      BY <1>1, CallAtHand
    <3>3. BatchSize \in Nat
      BY DEF Parameters
    <3>4. CASE Effect(r) = "batch"
      <4>1. n = BatchSize
        BY <3>1, <3>2, <3>3, <3>4
      <4> QED BY <1>2, <3>1, <3>2, <3>3, <3>4, <4>1 DEF TargetShape
    <3>5. CASE Effect(r) = "post"
      BY <1>2, <3>1, <3>2, <3>5
    <3> QED BY <1>2, <3>4, <3>5
  <2>6. LoopShape(r)'
    <3>1. Latest(r)' /\ unknowns' <= 1 /\ OpenShape(r)' /\ PendingShape(r)' /\ at'[r] = "rendering"
      BY <1>1, <1>4, <2>1, TargetShapes DEF CallSteps
    <3>2. /\ Effect(r)' = Effect(r) /\ Targets(r, call[r])' = Targets(r, call[r])
          /\ \A i : Unit(r, i)' = Unit(r, i)
      BY <2>1 DEF Effect, Targets, Unit
    <3>3. CallShape(r)'
      BY <1>2, <2>1, <2>5, <3>1, <3>2 DEF CallShape
    <3> QED BY <3>1, <3>3 DEF LoopShape
  <2>7. hashing' \subseteq Units /\ "rendering" \in CallSteps
    BY <2>1, <2>2 DEF TypeOK, CallSteps
  <2> QED BY <1>1, <1>4, <2>1, <2>3, <2>4, <2>6, <2>7, TargetMoves
<1> QED BY <1>3, <1>4 DEF Returned

\* One target is done, and the next is prepared or the rest is given up.
LEMMA NextTargetStep ==
    ASSUME Parameters, ToolInvariant, NEW r \in Responses, NextTarget(r)
    PROVE  ToolInvariant'
<1>1. at[r] = "waiting" /\ at[r] \in CallSteps /\ InVisit(r) /\ UNCHANGED site
  BY DEF NextTarget, CallSteps
<1>2. PICK n \in 1..BatchSize : /\ TargetShape(r, n) /\ Current(r) = Unit(r, n)
                                /\ Effect(r) \in {"batch", "post"} /\ (Effect(r) = "post" => n = 1)
  BY <1>1, TargetAtHand
<1>3. PICK next : next = [Current(r) EXCEPT ![3] = @ + 1]
  OBVIOUS
<1>4. site[Unit(r, n)] = "performed" /\ next \in UnitsOf(r, {call[r]})
  BY <1>2, <1>3 DEF NextTarget
<1>5. next = Unit(r, n + 1)
  BY <1>2, <1>3 DEF Unit
<1>6. n + 1 \in 1..BatchSize /\ Effect(r) = "batch"
  <2>1. PICK i \in Targets(r, call[r]) : <<r, call[r], n + 1>> = <<r, call[r], i>>
    BY <1>4, <1>5 DEF UnitsOf, Unit
  <2>2. n + 1 \in Targets(r, call[r])
    BY <2>1
  <2>3. Targets(r, call[r]) = IF Effect(r) = "batch" THEN 1..BatchSize ELSE {1}
    BY <1>1, CallAtHand
  <2>4. CASE Effect(r) = "post"
    BY <2>2, <2>3, <2>4, <1>2
  <2>5. CASE Effect(r) = "batch"
    BY <2>2, <2>3, <2>5
  <2> QED BY <1>2, <2>4, <2>5
<1>7. CASE BatchBreaks(r, "result", "settling_stopped") /\ UNCHANGED hashing
  BY <1>1, <1>2, <1>4, <1>6, <1>7, BatchBreaksMoves DEF Fates
<1>8. ASSUME fate' = [fate EXCEPT ![Current(r)] = "result"], hashing' = hashing \cup {next},
             Go(r, "hashing"), UNCHANGED <<journalVars, answerVars, call, unknowns>>
      PROVE  ToolInvariant'
  <2>1. UNCHANGED <<asked, run, stop, hung, crashes, publication, pending, told, left, call, site, unknowns>>
    BY <1>1, <1>8 DEF journalVars, answerVars
  <2>2. TypeOK /\ call[r] \in Nat /\ Unit(r, n) \in Units /\ Unit(r, n + 1) \in Units
    BY <1>1, <1>6, CallAtHand
  <2>3. fate' = [fate EXCEPT ![Unit(r, n)] = "result"] /\ fate' \in [Units -> Fates]
    BY <1>2, <1>8, <2>2 DEF TypeOK, Fates
  <2>4. \A u \in Units : fate'[u] # "none" => fate[u] # "none" \/ (u[1] = r /\ u[2] <= call[r])
    <3> SUFFICES ASSUME NEW u \in Units, fate'[u] # fate[u]
                 PROVE  u[1] = r /\ u[2] <= call[r]
      OBVIOUS
    <3>1. u = Unit(r, n)
      BY <2>2, <2>3 DEF TypeOK
    <3> QED BY <3>1, <2>2 DEF Unit
  <2>5. TargetShape(r, n + 1)'
    <3>1. Effect(r)' = "batch" /\ at'[r] = "hashing" /\ \A i : Unit(r, i)' = Unit(r, i)
      BY <1>6, <1>8, <2>1, <2>2 DEF Effect, Unit, Go, TypeOK
    <3>2. ASSUME NEW i \in 1..BatchSize
          PROVE  /\ fate'[Unit(r, i)] = IF i < n + 1 THEN "result" ELSE "none"
                 /\ i < n + 1 => site'[Unit(r, i)] = "performed"
                 /\ i > n => site'[Unit(r, i)] = "untouched"
      <4>1. /\ fate[Unit(r, i)] = IF i < n THEN "result" ELSE "none"
            /\ i < n => site[Unit(r, i)] = "performed"
            /\ i > n => site[Unit(r, i)] = "untouched"
        BY <1>2 DEF TargetShape
      <4>2. Unit(r, i) \in Units
        BY <1>1, CallAtHand
      <4>3. fate'[Unit(r, i)] = IF i = n THEN "result" ELSE fate[Unit(r, i)]
        <5>1. Unit(r, i) = Unit(r, n) <=> i = n
          BY DEF Unit
        <5> QED BY <2>2, <2>3, <4>2, <5>1 DEF TypeOK
      <4> QED BY <4>1, <4>3, <1>4, <2>1
    <3> QED BY <3>1, <3>2, <1>6 DEF TargetShape
  <2>6. LoopShape(r)'
    <3>1. Latest(r)' /\ unknowns' <= 1 /\ OpenShape(r)' /\ PendingShape(r)' /\ at'[r] = "hashing"
      BY <1>1, <1>8, <2>1, TargetShapes DEF CallSteps
    <3>2. CallShape(r)'
      BY <1>6, <2>5, <3>1 DEF CallShape
    <3> QED BY <3>1, <3>2 DEF LoopShape
  <2>7. hashing' \subseteq Units /\ "hashing" \in CallSteps
    BY <1>5, <1>8, <2>2 DEF TypeOK, CallSteps
  <2> QED BY <1>1, <1>8, <2>1, <2>3, <2>4, <2>6, <2>7, TargetMoves
<1> QED BY <1>3, <1>7, <1>8 DEF NextTarget

(***************************************************************************)
(* The stage of the pending call                                           *)
(***************************************************************************)
\* The pending call gets a stage that speaks for what its step sends.
LEMMA MarkMoves ==
    ASSUME Parameters, ToolInvariant, NEW r \in Responses, at[r] \in CallSteps, InVisit(r),
           NEW stage \in Stages, pending' = [response |-> r, call |-> call[r], stage |-> stage],
           pending = NoCall \/ pending.call = call[r],
           NEW step \in CallSteps, Go(r, step),
           UNCHANGED <<asked, run, stop, hung, publication, told, left, call, fate, unknowns, crashes>>,
           hashing' \subseteq hashing, site' = [u \in Units |-> site'[u]],
           \A u \in Units : site'[u] \in {"untouched", "sent", "performed", "refused"},
           \A u \in Units : site'[u] # site[u] =>
                u[1] = r /\ u[2] = call[r] /\ u[3] \in Targets(r, call[r]),
           \A i \in Targets(r, call[r]) : SpokenFor(Unit(r, i), stage)',
           NoBlindRepeat', LoopShape(r)'
    PROVE  ToolInvariant'
<1>1. /\ Working(r) /\ JournalInvariant /\ TypeOK /\ ArrivalShape /\ at[r] # "idle"
      /\ call[r] \in DOMAIN asked[r] /\ call[r] \in Open(r)
  BY CallAtHand DEF JournalInvariant, CallSteps
<1>2. step \in Steps /\ step # "idle" /\ at' = [at EXCEPT ![r] = step]
  BY DEF CallSteps, Steps, Go
<1>3. TypeOK'
  <2>1. pending' \in [response : {0} \cup Responses, call : {0} \cup Positions, stage : Stages]
    BY <1>1, AskedShape
  <2>2. at' \in [Responses -> Steps]
    BY <1>1, <1>2 DEF TypeOK
  <2>3. site' \in [Units -> {"untouched", "sent", "performed", "refused"}]
    OBVIOUS
  <2> QED BY <1>1, <2>1, <2>2, <2>3 DEF TypeOK
<1>4. call[r] \in call[r]..Len(asked[r]) /\ call' = [call EXCEPT ![r] = call[r]]
  <2>1. call[r] \in 0..Len(asked[r]) /\ Len(asked[r]) \in Nat
    BY <1>1, AskedShape DEF ArrivalShape
  <2> QED BY <2>1, <1>1 DEF TypeOK
<1>5. \A u \in Units : site'[u] # site[u] => AsksFor(u) /\ told[u] = <<>> /\ u[2] \in Open(u[1])
  <2> SUFFICES ASSUME NEW u \in Units, site'[u] # site[u]
               PROVE  AsksFor(u) /\ told[u] = <<>> /\ u[2] \in Open(u[1])
    OBVIOUS
  <2>1. u[1] = r /\ u[2] = call[r] /\ u[3] \in Targets(r, call[r])
    OBVIOUS
  <2>2. AsksFor(u)
    BY <2>1, <1>1 DEF AsksFor
  <2> QED BY <2>1, <2>2, <1>1, NotBegun
<1>6. ArrivalShape'
  <2>1. \A u \in Units :
          /\ told'[u] # <<>> => told[u] # <<>> \/ AsksFor(u)
          /\ site'[u] # "untouched" => site[u] # "untouched" \/ AsksFor(u)
          /\ fate'[u] # "none" => fate[u] # "none" \/ (u[1] = r /\ u[2] <= call[r])
    BY <1>5
  <2> QED BY <2>1, <1>1, <1>2, <1>4, ArrivalFrame
<1>7. ToldShape' /\ AnsweredShape'
  BY <1>1, JournalFrame
<1>8. publication # NoPublication /\ publication.response = r /\ Open(r) = publication.calls
  BY <1>1, PublishedIsTheLoops DEF Open, NoPublication, Responses
<1>9. PublicationShape'
  <2>1. pending'.response = r /\ pending'.call \in publication.calls
    BY <1>1, <1>8
  <2>2. PublicationShape
    BY <1>1 DEF JournalInvariant
  <2> QED BY <2>1, <2>2, <1>8 DEF PublicationShape, InVisit, Latest, Arrived
<1>10. JournalShape'
  <2> SUFFICES ASSUME NEW u \in Units, AsksFor(u)', u[2] \in Open(u[1])'
               PROVE  SpokenFor(u, StageOf(u))'
    BY DEF JournalShape
  <2>1. AsksFor(u) /\ u[2] \in Open(u[1])
    BY DEF AsksFor, Targets, Open
  <2>2. CASE u[1] = r /\ u[2] = call[r]
    <3>1. u[3] \in Targets(r, call[r]) /\ u = Unit(r, u[3])
      BY <2>1, <2>2, UnitParts DEF AsksFor, Unit
    <3>2. StageOf(u)' = stage
      BY <2>2 DEF StageOf
    <3>3. SpokenFor(Unit(r, u[3]), stage)'
      BY <3>1
    <3>4. Unit(r, u[3])' = u
      BY <3>1 DEF Unit
    <3> QED BY <3>2, <3>3, <3>4 DEF SpokenFor
  <2>3. CASE ~(u[1] = r /\ u[2] = call[r])
    <3>1. StageOf(u)' = "prepared"
      BY <2>3 DEF StageOf
    <3>2. StageOf(u) = "prepared"
      <4>1. CASE pending = NoCall
        BY <4>1 DEF StageOf, NoCall
      <4>2. CASE pending # NoCall
        <5>1. pending.response = r /\ pending.call = call[r]
          BY <1>1, <4>2, PendingIsOpen
        <5> QED BY <2>3, <5>1 DEF StageOf
      <4> QED BY <4>1, <4>2
    <3>3. site'[u] = "untouched"
      BY <1>1, <2>1, <2>3, <3>2, NotBegun
    <3> QED BY <3>1, <3>3 DEF SpokenFor
  <2> QED BY <2>2, <2>3
<1>11. AnswersAreTrue'
  <2> SUFFICES ASSUME NEW u \in Units, NEW m \in DOMAIN told[u]
               PROVE  IsTrue(u, told[u][m])'
    BY DEF AnswersAreTrue
  <2>1. site'[u] = site[u]
    BY <1>5
  <2>2. IsTrue(u, told[u][m])
    BY <1>1 DEF JournalInvariant, AnswersAreTrue
  <2> QED BY <2>1, <2>2 DEF IsTrue
<1>12. JournalInvariant'
  BY <1>3, <1>6, <1>7, <1>9, <1>10, <1>11 DEF JournalInvariant
<1>13. \A q \in Responses : q # r => at'[q] = at[q]
  BY <1>1, <1>2 DEF TypeOK
<1> QED BY <1>1, <1>12, <1>13, LoopMoves

\* What a mark leaves: the pending record of the call with another stage.
LEMMA MarkIs ==
    ASSUME TypeOK, NEW r, pending.response = r, pending.call = call[r], NEW stage, Mark(r, stage)
    PROVE  pending' = [response |-> r, call |-> call[r], stage |-> stage]
<1>1. pending \in [response : {0} \cup Responses, call : {0} \cup Positions, stage : Stages]
  BY DEF TypeOK
<1>2. pending' = [pending EXCEPT !.stage = stage]
  BY DEF Mark
<1> QED BY <1>1, <1>2

\* A step that sends nothing for a post sends no second post.
LEMMA NothingRepeated ==
    ASSUME JournalInvariant, UNCHANGED <<asked, told>>,
           \A u \in Units : site'[u] # site[u] => ~IsPost(u)
    PROVE  NoBlindRepeat'
BY DEF JournalInvariant, NoBlindRepeat, IsPost

\* The lease is renewed: the call becomes the pending one.
LEMMA LeaseRenewedStep ==
    ASSUME Parameters, ToolInvariant, NEW r \in Responses, LeaseRenewed(r)
    PROVE  ToolInvariant'
<1>1. /\ at[r] = "renewing" /\ at[r] \in CallSteps /\ InVisit(r) /\ Go(r, "preparing")
      /\ pending' = [response |-> r, call |-> call[r], stage |-> "prepared"]
      /\ UNCHANGED <<asked, run, stop, hung, crashes, publication, told, left, call, fate, site, hashing,
                     unknowns>>
  BY DEF LeaseRenewed, CallSteps, Authority, journalVars, worldVars
<1>2. LoopShape(r) /\ TypeOK /\ JournalInvariant /\ pending = NoCall
  BY <1>1, CallAtHand DEF LoopShape, PendingShape
<1>3. \A i \in Targets(r, call[r]) : SpokenFor(Unit(r, i), "prepared")'
  <2> SUFFICES ASSUME NEW i \in Targets(r, call[r])
               PROVE  SpokenFor(Unit(r, i), "prepared")'
    OBVIOUS
  <2>1. site[Unit(r, i)] = "untouched"
    BY <1>1, <1>2, CallAtHand
  <2> QED BY <2>1, <1>1 DEF SpokenFor, Unit
<1>4. NoBlindRepeat'
  BY <1>1, <1>2, NothingRepeated
<1>5. LoopShape(r)'
  <2>1. at'[r] = "preparing" /\ Open(r)' = Open(r) /\ After(r, call[r] - 1)' = After(r, call[r] - 1)
    BY <1>1, <1>2 DEF TypeOK, Go, Open, After
  <2>2. Latest(r)' /\ unknowns' <= 1
    BY <1>1, <1>2 DEF LoopShape, Latest, Arrived
  <2>3. OpenShape(r)'
    BY <1>1, <1>2, <2>1 DEF LoopShape, OpenShape, RestSteps, CallSteps
  <2>4. PendingShape(r)'
    BY <1>1, <2>1 DEF PendingShape, RestSteps, CallSteps
  <2>5. CallShape(r)'
    BY <1>1, <1>2, <2>1 DEF LoopShape, CallShape, Unit
  <2> QED BY <2>1, <2>2, <2>3, <2>4, <2>5 DEF LoopShape
<1>6. /\ "preparing" \in CallSteps /\ "prepared" \in Stages
      /\ site' = [u \in Units |-> site'[u]]
      /\ \A u \in Units : site'[u] \in {"untouched", "sent", "performed", "refused"}
  BY <1>1, <1>2 DEF CallSteps, Stages, TypeOK
<1>7. \A u \in Units : site'[u] # site[u] =>
        u[1] = r /\ u[2] = call[r] /\ u[3] \in Targets(r, call[r])
  BY <1>1
<1> QED BY <1>1, <1>2, <1>3, <1>4, <1>5, <1>6, <1>7, MarkMoves

\* A read is marked before it starts, and sends nothing.
LEMMA StartReadingStep ==
    ASSUME Parameters, ToolInvariant, NEW r \in Responses, StartReading(r)
    PROVE  ToolInvariant'
<1>1. /\ at[r] = "preparing" /\ at[r] \in CallSteps /\ InVisit(r) /\ Go(r, "rendering")
      /\ Effect(r) = "read" /\ Mark(r, "reading")
      /\ UNCHANGED <<asked, run, stop, hung, crashes, publication, told, left, call, fate, site, hashing,
                     unknowns>>
  BY DEF StartReading, CallSteps, Stopped, journalVars, worldVars
<1>2. /\ LoopShape(r) /\ TypeOK /\ JournalInvariant
      /\ pending.response = r /\ pending.call = call[r] /\ pending.stage = "prepared"
  BY <1>1, CallAtHand DEF LoopShape, PendingShape, CallSteps
<1>3. pending' = [response |-> r, call |-> call[r], stage |-> "reading"]
  BY <1>1, <1>2, MarkIs
<1>4. \A i \in Targets(r, call[r]) : SpokenFor(Unit(r, i), "reading")'
  BY <1>1 DEF SpokenFor, Unit, Effect
<1>5. NoBlindRepeat'
  BY <1>1, <1>2, NothingRepeated
<1>6. LoopShape(r)'
  <2>1. Latest(r)' /\ unknowns' <= 1 /\ OpenShape(r)' /\ PendingShape(r)' /\ at'[r] = "rendering"
    BY <1>1, <1>2, <1>3, TargetShapes DEF CallSteps
  <2>2. \A i \in Targets(r, call[r]) : site[Unit(r, i)] = "untouched"
    BY <1>1, <1>2, CallAtHand
  <2>3. Effect(r)' = "read" /\ Targets(r, call[r])' = Targets(r, call[r]) /\ \A i : Unit(r, i)' = Unit(r, i)
    BY <1>1 DEF Effect, Targets, Unit
  <2>4. CallShape(r)'
    BY <1>1, <2>1, <2>2, <2>3 DEF CallShape
  <2> QED BY <2>1, <2>4 DEF LoopShape
<1>7. /\ "rendering" \in CallSteps /\ "reading" \in Stages
      /\ site' = [u \in Units |-> site'[u]]
      /\ \A u \in Units : site'[u] \in {"untouched", "sent", "performed", "refused"}
  BY <1>1, <1>2 DEF CallSteps, Stages, TypeOK
<1>8. \A u \in Units : site'[u] # site[u] =>
        u[1] = r /\ u[2] = call[r] /\ u[3] \in Targets(r, call[r])
  BY <1>1
<1> QED BY <1>1, <1>2, <1>3, <1>4, <1>5, <1>6, <1>7, <1>8, MarkMoves

\* One unit of the call is sent or written, and its call is marked with it.
LEMMA SendMoves ==
    ASSUME Parameters, ToolInvariant, NEW r \in Responses, at[r] \in CallSteps, InVisit(r),
           pending.response = r, pending.call = call[r], Mark(r, "dispatched"),
           NEW n \in Targets(r, call[r]), NEW status \in {"sent", "performed"},
           site' = [site EXCEPT ![Unit(r, n)] = status],
           Effect(r) = "batch" \/ Targets(r, call[r]) = {n},
           NEW step \in CallSteps, Go(r, step),
           UNCHANGED <<asked, run, stop, hung, publication, told, left, call, fate, unknowns, crashes>>,
           hashing' \subseteq hashing, NoBlindRepeat', LoopShape(r)'
    PROVE  ToolInvariant'
<1>1. TypeOK /\ JournalInvariant /\ n \in 1..BatchSize /\ Unit(r, n) \in Units
  <2>1. n \in 1..BatchSize
    BY CallAtHand
  <2> QED BY <2>1, CallAtHand
<1>2. pending' = [response |-> r, call |-> call[r], stage |-> "dispatched"]
  BY <1>1, MarkIs
<1>3. \A u \in Units : site'[u] = IF u = Unit(r, n) THEN status ELSE site[u]
  BY <1>1 DEF TypeOK
<1>4. \A i \in Targets(r, call[r]) : SpokenFor(Unit(r, i), "dispatched")'
  <2> SUFFICES ASSUME NEW i \in Targets(r, call[r])
               PROVE  SpokenFor(Unit(r, i), "dispatched")'
    OBVIOUS
  <2>1. Unit(r, i)' = Unit(r, i)
    BY DEF Unit
  <2>2. CASE Effect(r) = "batch"
    BY <2>1, <2>2 DEF SpokenFor, Unit, Effect
  <2>3. CASE i = n
    <3>1. site'[Unit(r, i)] = status
      BY <1>1, <1>3, <2>3
    <3> QED BY <2>1, <3>1 DEF SpokenFor
  <2> QED BY <2>2, <2>3
<1>5. /\ "dispatched" \in Stages /\ site' = [u \in Units |-> site'[u]]
      /\ \A u \in Units : site'[u] \in {"untouched", "sent", "performed", "refused"}
  BY <1>1, <1>3 DEF Stages, TypeOK
<1>6. \A u \in Units : site'[u] # site[u] =>
        u[1] = r /\ u[2] = call[r] /\ u[3] \in Targets(r, call[r])
  BY <1>3 DEF Unit
<1> QED BY <1>2, <1>4, <1>5, <1>6, MarkMoves

\* A note is written once, with the mark of its call.
LEMMA WriteNoteStep ==
    ASSUME Parameters, ToolInvariant, NEW r \in Responses, WriteNote(r)
    PROVE  ToolInvariant'
<1>1. /\ at[r] = "preparing" /\ at[r] \in CallSteps /\ InVisit(r) /\ Go(r, "rendering")
      /\ Effect(r) = "note" /\ Mark(r, "dispatched") /\ site' = [site EXCEPT ![Current(r)] = "performed"]
      /\ UNCHANGED <<asked, run, stop, hung, crashes, publication, told, left, call, fate, hashing,
                     unknowns>>
  BY DEF WriteNote, CallSteps, Stopped, journalVars
<1>2. /\ LoopShape(r) /\ TypeOK /\ JournalInvariant /\ 1 \in 1..BatchSize /\ Unit(r, 1) \in Units
      /\ pending.response = r /\ pending.call = call[r] /\ Targets(r, call[r]) = {1}
      /\ \A i \in 1..BatchSize : fate[Unit(r, i)] = "none"
  BY <1>1, CallAtHand DEF LoopShape, PendingShape, CallShape, CallSteps
<1>3. Current(r) = Unit(r, 1)
  BY <1>2, CurrentIs
<1>4. \A u \in Units : site'[u] = IF u = Unit(r, 1) THEN "performed" ELSE site[u]
  BY <1>1, <1>2, <1>3 DEF TypeOK
<1>5. \A u \in Units : site'[u] # site[u] => ~IsPost(u)
  BY <1>1, <1>4 DEF Unit, IsPost, Effect
<1>6. NoBlindRepeat'
  BY <1>1, <1>2, <1>5, NothingRepeated
<1>7. LoopShape(r)'
  <2>1. pending' = [response |-> r, call |-> call[r], stage |-> "dispatched"]
    BY <1>1, <1>2, MarkIs
  <2>2. Latest(r)' /\ unknowns' <= 1 /\ OpenShape(r)' /\ PendingShape(r)' /\ at'[r] = "rendering"
    BY <1>1, <1>2, <2>1, TargetShapes DEF CallSteps
  <2>3. Effect(r)' = "note" /\ Targets(r, call[r])' = {1} /\ Unit(r, 1)' = Unit(r, 1)
    BY <1>1, <1>2 DEF Effect, Targets, Unit
  <2>4. CallShape(r)'
    BY <1>2, <1>4, <2>2, <2>3 DEF CallShape
  <2> QED BY <2>2, <2>4 DEF LoopShape
<1>8. 1 \in Targets(r, call[r]) /\ "rendering" \in CallSteps
  BY <1>2 DEF CallSteps
<1> QED BY <1>1, <1>2, <1>3, <1>6, <1>7, <1>8, SendMoves

\* Before a post is sent, every earlier post that reached the website has been
\* told with its result, and no later one has been touched.
LEMMA NoRepeatOnSend ==
    ASSUME Parameters, ToolInvariant, NEW r \in Responses, at[r] \in CallSteps, InVisit(r),
           pending.response = r, pending.call = call[r],
           NEW n \in 1..BatchSize, UNCHANGED <<asked, told>>,
           site' = [site EXCEPT ![Unit(r, n)] = "sent"],
           Effect(r) = "post" => ~EarlierUnresolved
    PROVE  NoBlindRepeat'
<1>1. PICK x \in Units : x = Unit(r, n)
  BY CallAtHand
<1>2. /\ JournalInvariant /\ TypeOK /\ ArrivalShape /\ AnsweredShape /\ ToldShape
      /\ AnswersAreTrue /\ NoBlindRepeat
      /\ LoopShape(r) /\ x[1] = r /\ x[2] = call[r] /\ Open(r) = After(r, call[r] - 1)
      /\ call[r] \in Nat
  BY <1>1, CallAtHand DEF JournalInvariant, Unit, LoopShape, OpenShape
<1>3. \A u \in Units : site'[u] = IF u = x THEN "sent" ELSE site[u]
  BY <1>1, <1>2 DEF TypeOK
<1>4. SUFFICES ASSUME NEW u \in Units, NEW v \in Units,
                      u[1] < v[1] \/ (u[1] = v[1] /\ u[2] < v[2]), IsPost(u), IsPost(v),
                      site'[u] \in {"sent", "performed"}, site'[v] # "untouched"
               PROVE  told[u] = <<"result">>
  BY DEF NoBlindRepeat, IsPost
<1>5. Latest(r) /\ \A q \in Responses : q # r => Open(q) = {}
  BY CallAtHand, PublishedIsTheLoops
<1>6. u[1] \in Responses /\ u[2] \in Nat /\ v[1] \in Responses /\ v[2] \in Nat
  BY UnitParts, PositionsAreNumbers
<1>7. \A w \in Units : site[w] # "untouched" \/ told[w] # <<>> => AsksFor(w)
  BY <1>2 DEF ArrivalShape
<1>8. CASE u # x /\ v # x
  BY <1>2, <1>3, <1>4, <1>8 DEF NoBlindRepeat
<1>9. CASE v = x /\ u # x
  <2>1. site[u] \in {"sent", "performed"} /\ AsksFor(u)
    BY <1>3, <1>4, <1>7, <1>9
  <2>2. u[2] \notin Open(u[1])
    <3>1. CASE u[1] # r
      BY <3>1, <1>5, <1>6
    <3>2. CASE u[1] = r
      <4>1. u[2] < call[r]
        BY <3>2, <1>2, <1>4, <1>6, <1>9 DEF Responses
      <4> QED BY <4>1, <3>2, <1>2, <1>6 DEF After
    <3> QED BY <3>1, <3>2
  <2>3. told[u] # <<>>
    BY <2>1, <2>2, <1>2 DEF AnsweredShape
  <2>4. PICK a \in Answers : told[u] = <<a>>
    BY <2>3, <1>2 DEF ToldShape
  <2>5. IsTrue(u, a)
    <3>1. 1 \in DOMAIN told[u] /\ told[u][1] = a
      BY <2>4
    <3> QED BY <3>1, <1>2 DEF AnswersAreTrue
  <2>6. asked[u[1]][u[2]] = "post" /\ Effect(r) = "post"
    BY <1>2, <1>4, <1>9 DEF IsPost, Effect
  <2>7. a \notin {"unknown", "committed"}
    <3>1. 1 \in DOMAIN told[u] /\ told[u][1] = a
      BY <2>4
    <3> QED BY <3>1, <2>6, <1>4 DEF EarlierUnresolved
  <2>8. a = "result"
    BY <2>1, <2>5, <2>6, <2>7 DEF IsTrue, Answers, Fates
  <2> QED BY <2>4, <2>8
<1>10. CASE u = x
  <2>1. v # x /\ site[v] # "untouched" /\ AsksFor(v)
    BY <1>3, <1>4, <1>6, <1>7, <1>10 DEF Responses
  <2>2. v[1] = r
    <3>1. Arrived(v[1])
      BY <2>1, AskedShape, <1>2, <1>6 DEF AsksFor, Arrived
    <3> QED BY <3>1, <1>2, <1>4, <1>5, <1>6, <1>10 DEF Latest, Responses
  <2>3. v[2] > call[r] /\ v[2] \in DOMAIN asked[r]
    BY <2>1, <2>2, <1>2, <1>4, <1>6, <1>10 DEF AsksFor, Responses
  <2>4. v[2] \in Open(v[1])
    BY <2>2, <2>3, <1>2, <1>6 DEF After
  <2>5. StageOf(v) = "prepared"
    BY <2>3, <1>2, <1>6 DEF StageOf
  <2> QED BY <2>1, <2>4, <2>5, <1>2, NotBegun
<1> QED BY <1>8, <1>9, <1>10, <1>4

\* A request is sent once, right after a look at the stop request.
LEMMA DispatchStep ==
    ASSUME Parameters, ToolInvariant, NEW u \in Units, Dispatch(u)
    PROVE  ToolInvariant'
<1>1. PICK r \in Responses : r = u[1]
  BY UnitParts
<1>2. /\ at[r] = "hashing" /\ at[r] \in CallSteps /\ InVisit(r) /\ u = Current(r)
      /\ hashing' \subseteq hashing /\ site' = [site EXCEPT ![u] = "sent"]
      /\ Mark(r, "dispatched") /\ Go(r, "waiting")
      /\ UNCHANGED <<asked, run, stop, hung, crashes, publication, told, left, call, fate,
                     unknowns>>
  BY <1>1 DEF Dispatch, MayDispatch, Awaited, Stopped, CallSteps, journalVars
<1>3. PICK n \in 1..BatchSize : /\ TargetShape(r, n) /\ Current(r) = Unit(r, n)
                                 /\ Effect(r) \in {"batch", "post"} /\ (Effect(r) = "post" => n = 1)
  BY <1>2, TargetAtHand
<1>4. /\ LoopShape(r) /\ TypeOK /\ pending.response = r /\ pending.call = call[r]
      /\ Unit(r, n) \in Units /\ n \in Targets(r, call[r])
      /\ Effect(r) = "batch" \/ Targets(r, call[r]) = {n}
  BY <1>2, <1>3, CallAtHand DEF LoopShape, PendingShape, CallSteps
<1>5. site' = [site EXCEPT ![Unit(r, n)] = "sent"]
  BY <1>2, <1>3
<1>6. NoBlindRepeat'
  <2>1. Effect(r) = "post" => ~EarlierUnresolved
    BY <1>2, <1>3 DEF TargetShape
  <2> QED BY <2>1, <1>2, <1>4, <1>5, NoRepeatOnSend
<1>7. LoopShape(r)'
  <2>1. pending' = [response |-> r, call |-> call[r], stage |-> "dispatched"]
    BY <1>2, <1>4, MarkIs
  <2>2. Latest(r)' /\ unknowns' <= 1 /\ OpenShape(r)' /\ PendingShape(r)' /\ at'[r] = "waiting"
    BY <1>2, <1>4, <2>1, TargetShapes DEF CallSteps
  <2>3. Effect(r)' = Effect(r) /\ \A i : Unit(r, i)' = Unit(r, i)
    BY <1>2 DEF Effect, Unit
  <2>4. \A i \in 1..BatchSize : site'[Unit(r, i)] = IF i = n THEN "sent" ELSE site[Unit(r, i)]
    <3>1. \A i \in 1..BatchSize : Unit(r, i) \in Units /\ (Unit(r, i) = Unit(r, n) <=> i = n)
      BY <1>2, CallAtHand DEF Unit
    <3> QED BY <3>1, <1>4, <1>5 DEF TypeOK
  <2>5. TargetShape(r, n)'
    BY <1>2, <1>3, <2>2, <2>3, <2>4 DEF TargetShape
  <2>6. CallShape(r)'
    BY <2>2, <2>5 DEF CallShape
  <2> QED BY <2>2, <2>6 DEF LoopShape
<1>8. "waiting" \in CallSteps
  BY DEF CallSteps
<1> QED BY <1>2, <1>4, <1>5, <1>6, <1>7, <1>8, SendMoves

(***************************************************************************)
(* Calls answered without being begun                                      *)
(***************************************************************************)
\* Some open calls get one answer that says nothing happened, while no call is
\* pending.
LEMMA UnbegunAnswers ==
    ASSUME Parameters, ToolInvariant, NEW r \in Responses, Working(r), pending = NoCall,
           NEW calls, calls \subseteq Open(r), NEW shown \in BOOLEAN,
           NEW answer \in {"dropped", "refused", "not_attempted"},
           Told(Same(r, calls, answer)), publication' = Completed(calls, shown), pending' = NoCall,
           left[r] = Open(r), left' = [left EXCEPT ![r] = @ \ calls],
           NEW step \in {"next", "siblings", "closing"}, at' = [at EXCEPT ![r] = step],
           NEW k \in call[r]..Len(asked[r]), call' = [call EXCEPT ![r] = k],
           step = "next" => Open(r) \ calls = After(r, k),
           step = "closing" => Open(r) \ calls = {},
           step # "siblings" => unknowns <= 1,
           UNCHANGED <<asked, run, stop, hung, fate, hashing, site, unknowns, crashes>>
    PROVE  ToolInvariant'
<1>1. JournalInvariant /\ TypeOK /\ Open(r) \subseteq DOMAIN asked[r]
  BY PublishedIsTheLoops DEF ToolInvariant, JournalInvariant
<1>2. PICK answers : answers = Same(r, calls, answer)
  OBVIOUS
<1>3. DOMAIN answers = UnitsOf(r, calls) /\ Told(answers)
  BY <1>2 DEF Same
<1>4. ASSUME NEW u \in Units, u[1] = r, u[2] \in calls, u[3] \in Targets(r, u[2])
      PROVE  answers[u] \in Answers /\ IsTrue(u, answers[u])
  <2>1. answers[u] = answer
    BY <1>2, <1>4, UnitsOfIs DEF Same
  <2>2. AsksFor(u) /\ u[2] \in Open(u[1])
    BY <1>1, <1>4 DEF AsksFor
  <2>3. StageOf(u) = "prepared"
    BY DEF StageOf, NoCall
  <2>4. site[u] = "untouched"
    BY <1>1, <2>2, <2>3, NotBegun
  <2> QED BY <2>1, <2>4 DEF IsTrue, Answers, Fates
<1>5. unknowns' \in 0..2
  BY <1>1 DEF TypeOK
<1>6. \A u \in Units : u[1] = r /\ u[2] \in calls /\ u[3] \in Targets(r, u[2]) =>
        answers[u] \in Answers /\ IsTrue(u, answers[u])
  BY <1>4
<1> QED BY <1>3, <1>5, <1>6, AnswerMoves

\* The next call, while the loop is between two calls.
LEMMA CallAhead ==
    ASSUME Parameters, ToolInvariant, NEW r \in Responses, MoreCalls(r), ~Stopped(r)
    PROVE  /\ Working(r) /\ LoopShape(r) /\ TypeOK /\ at[r] = "next" /\ pending = NoCall /\ unknowns <= 1
           /\ left[r] = Open(r) /\ {call[r] + 1} \subseteq Open(r)
           /\ Open(r) \ {call[r] + 1} = After(r, call[r] + 1)
           /\ call[r] + 1 \in call[r]..Len(asked[r])
<1>1. at[r] = "next" /\ call[r] < Len(asked[r]) /\ Working(r)
  BY DEF MoreCalls, Stopped, Working
<1>2. LoopShape(r) /\ TypeOK /\ ArrivalShape
  BY <1>1 DEF ToolInvariant, JournalInvariant
<1>3. Open(r) = After(r, call[r]) /\ left[r] = Open(r) /\ pending = NoCall /\ unknowns <= 1
  BY <1>1, <1>2 DEF LoopShape, OpenShape, PendingShape, RestSteps, CallSteps
<1>4. call[r] \in Nat /\ Len(asked[r]) \in Nat /\ DOMAIN asked[r] = 1..Len(asked[r])
  BY <1>2, AskedShape DEF ArrivalShape
<1> QED BY <1>1, <1>2, <1>3, <1>4 DEF After

\* A malformed call is answered, a disallowed one is let go, before either begins.
LEMMA SkippedCallSteps ==
    ASSUME Parameters, ToolInvariant, NEW r \in Responses, DropCall(r) \/ MalformedCall(r)
    PROVE  ToolInvariant'
<1>1. MoreCalls(r) /\ ~Stopped(r)
  BY DEF DropCall, MalformedCall
<1>2. PICK calls : calls = {call[r] + 1}
  OBVIOUS
<1>3. PICK k \in call[r]..Len(asked[r]) : k = call[r] + 1
  BY <1>1, CallAhead
<1>4. /\ Working(r) /\ TypeOK /\ pending = NoCall /\ unknowns <= 1
      /\ left[r] = Open(r) /\ calls \subseteq Open(r) /\ Open(r) \ calls = After(r, k)
      /\ at[r] = "next"
  BY <1>1, <1>2, <1>3, CallAhead
<1>5. /\ at' = at /\ call' = [call EXCEPT ![r] = k] /\ pending' = NoCall
      /\ left' = [left EXCEPT ![r] = @ \ calls]
      /\ UNCHANGED <<asked, run, stop, hung, fate, hashing, site, unknowns, crashes>>
  BY <1>2, <1>3, <1>4 DEF DropCall, MalformedCall, Answer, LetGo, journalVars, worldVars
<1>6. at' = [at EXCEPT ![r] = "next"]
  BY <1>4, <1>5 DEF TypeOK
<1>7. CASE DropCall(r)
  <2>1. Told(Same(r, calls, "dropped")) /\ publication' = Completed(calls, FALSE)
    BY <1>2, <1>7 DEF DropCall, LetGo
  <2> QED BY <2>1, <1>4, <1>5, <1>6, UnbegunAnswers
<1>8. CASE MalformedCall(r)
  <2>1. Told(Same(r, calls, "refused")) /\ publication' = Completed(calls, TRUE)
    BY <1>2, <1>8 DEF MalformedCall, Answer
  <2> QED BY <2>1, <1>4, <1>5, <1>6, UnbegunAnswers
<1> QED BY <1>7, <1>8

\* The rest of a response is let go.
LEMMA DropRestStep ==
    ASSUME Parameters, ToolInvariant, NEW r \in Responses, DropRest(r)
    PROVE  ToolInvariant'
<1>1. /\ at[r] = "next" /\ InVisit(r) /\ Working(r)
      /\ Told(Same(r, left[r], "dropped")) /\ publication' = Completed(left[r], FALSE)
      /\ left' = [left EXCEPT ![r] = @ \ left[r]] /\ at' = [at EXCEPT ![r] = "closing"]
      /\ UNCHANGED <<asked, run, stop, hung, crashes, pending, call, fate, hashing, site,
                     unknowns>>
  BY DEF DropRest, LetGo, Authority, Working, Go, journalVars, worldVars
<1>2. LoopShape(r) /\ TypeOK /\ ArrivalShape
  BY <1>1 DEF ToolInvariant, JournalInvariant
<1>3. left[r] = Open(r) /\ pending = NoCall /\ unknowns <= 1
  BY <1>1, <1>2 DEF LoopShape, OpenShape, PendingShape, RestSteps, CallSteps
<1>4. call[r] \in call[r]..Len(asked[r]) /\ call' = [call EXCEPT ![r] = call[r]]
  <2>1. call[r] \in 0..Len(asked[r]) /\ Len(asked[r]) \in Nat
    BY <1>2, AskedShape DEF ArrivalShape
  <2> QED BY <2>1, <1>1, <1>2 DEF TypeOK
<1>5. PICK calls : calls = left[r]
  OBVIOUS
<1>6. calls \subseteq Open(r) /\ Open(r) \ calls = {} /\ pending' = NoCall
  BY <1>1, <1>3, <1>5
<1>7. /\ Told(Same(r, calls, "dropped")) /\ publication' = Completed(calls, FALSE)
      /\ left' = [left EXCEPT ![r] = @ \ calls]
  BY <1>1, <1>5
<1> QED BY <1>1, <1>3, <1>4, <1>6, <1>7, UnbegunAnswers

\* The siblings of an unknown outcome are answered one by one.
LEMMA SiblingIsToldStep ==
    ASSUME Parameters, ToolInvariant, NEW r \in Responses, SiblingIsTold(r)
    PROVE  ToolInvariant'
<1>1. PICK k \in left[r] : Answer(r, {k}, Same(r, {k}, "not_attempted"))
  BY DEF SiblingIsTold
<1>2. PICK calls : calls = {k}
  OBVIOUS
<1>3. /\ at[r] = "siblings" /\ InVisit(r) /\ Working(r)
      /\ Told(Same(r, calls, "not_attempted")) /\ publication' = Completed(calls, TRUE)
      /\ left' = [left EXCEPT ![r] = @ \ calls] /\ pending' = NoCall
      /\ UNCHANGED <<asked, run, stop, hung, crashes, at, call, fate, hashing, site,
                     unknowns>>
  BY <1>1, <1>2 DEF SiblingIsTold, Answer, Authority, Working, journalVars, worldVars
<1>4. LoopShape(r) /\ TypeOK /\ ArrivalShape
  BY <1>3 DEF ToolInvariant, JournalInvariant
<1>5. left[r] = Open(r) /\ pending = NoCall /\ calls \subseteq Open(r)
  BY <1>1, <1>2, <1>3, <1>4 DEF LoopShape, OpenShape, PendingShape, RestSteps, CallSteps
<1>6. call[r] \in call[r]..Len(asked[r]) /\ call' = [call EXCEPT ![r] = call[r]]
  <2>1. call[r] \in 0..Len(asked[r]) /\ Len(asked[r]) \in Nat
    BY <1>4, AskedShape DEF ArrivalShape
  <2> QED BY <2>1, <1>3, <1>4 DEF TypeOK
<1>7. at' = [at EXCEPT ![r] = "siblings"]
  BY <1>3, <1>4 DEF TypeOK
<1> QED BY <1>3, <1>5, <1>6, <1>7, UnbegunAnswers

\* At the end of the calls nothing of the response is open.
LEMMA EndOfCallsStep ==
    ASSUME Parameters, ToolInvariant, NEW r \in Responses, EndOfCalls(r)
    PROVE  ToolInvariant'
<1>1. /\ at[r] = "closing" \/ (at[r] = "next" /\ call[r] = Len(asked[r]))
      /\ InVisit(r) /\ Working(r) /\ at' = [at EXCEPT ![r] = "between"]
      /\ UNCHANGED <<asked, run, stop, hung, crashes, pending, told, left, call, fate, hashing, site,
                     unknowns>>
  BY DEF EndOfCalls, Authority, Working, Go, journalVars, worldVars
<1>2. LoopShape(r) /\ TypeOK /\ JournalInvariant /\ ArrivalShape /\ Latest(r)
  BY <1>1 DEF ToolInvariant, JournalInvariant, LoopShape
<1>3. Open(r) = {} /\ pending = NoCall /\ unknowns <= 1
  <2>1. /\ at[r] = "next" => Open(r) = After(r, call[r])
        /\ at[r] = "closing" => Open(r) = {}
        /\ pending = NoCall /\ unknowns <= 1
    BY <1>1, <1>2 DEF LoopShape, OpenShape, PendingShape, RestSteps
  <2>2. After(r, Len(asked[r])) = {}
    <3>1. Len(asked[r]) \in Nat /\ DOMAIN asked[r] = 1..Len(asked[r])
      BY <1>2, AskedShape
    <3> QED BY <3>1 DEF After
  <2> QED BY <2>1, <2>2, <1>1
<1>4. publication' = NoPublication
  <2>1. CASE publication = NoPublication
    BY <2>1 DEF EndOfCalls
  <2>2. CASE publication # NoPublication
    <3>1. publication.response = r
      BY <1>1, <2>2, PublishedIsTheLoops
    <3>2. publication.calls = {}
      BY <3>1, <1>3 DEF Open
    <3>3. ~publication.shown
      BY <2>2, <3>2, <1>2 DEF JournalInvariant, PublicationShape
    <3> QED BY <3>2, <3>3 DEF EndOfCalls
  <2> QED BY <2>1, <2>2
<1>5. \A q \in Responses : Open(q) = {} /\ Open(q)' = {}
  BY <1>1, <1>3, <1>4, PublishedIsTheLoops DEF Open, NoPublication
<1>6. TypeOK'
  BY <1>1, <1>2, <1>4 DEF TypeOK, Steps, NoPublication
<1>7. ArrivalShape'
  <2>1. call[r] \in call[r]..Len(asked[r]) /\ call' = [call EXCEPT ![r] = call[r]]
    <3>1. call[r] \in 0..Len(asked[r]) /\ Len(asked[r]) \in Nat
      BY <1>2, AskedShape DEF ArrivalShape
    <3> QED BY <3>1, <1>1, <1>2 DEF TypeOK
  <2>2. \A u \in Units :
          /\ told'[u] # <<>> => told[u] # <<>> \/ AsksFor(u)
          /\ site'[u] # "untouched" => site[u] # "untouched" \/ AsksFor(u)
          /\ fate'[u] # "none" => fate[u] # "none" \/ (u[1] = r /\ u[2] <= call[r])
    BY <1>1
  <2> QED BY <2>1, <2>2, <1>1, <1>2, ArrivalFrame
<1>8. ToldShape' /\ AnswersAreTrue' /\ NoBlindRepeat'
  BY <1>1, <1>2 DEF JournalInvariant, ToldShape, AnswersAreTrue, IsTrue, NoBlindRepeat, IsPost
<1>9. PublicationShape'
  BY <1>1, <1>3, <1>4 DEF PublicationShape
<1>10. AnsweredShape' /\ JournalShape'
  <2>1. \A u \in Units : AsksFor(u)' <=> AsksFor(u)
    BY <1>1 DEF AsksFor, Targets
  <2>2. \A u \in Units : u[1] \in Responses
    BY UnitParts
  <2> QED BY <2>1, <2>2, <1>1, <1>2, <1>5 DEF JournalInvariant, AnsweredShape, JournalShape
<1>11. JournalInvariant'
  BY <1>6, <1>7, <1>8, <1>9, <1>10 DEF JournalInvariant
<1>12. LoopShape(r)'
  <2>1. at'[r] = "between" /\ publication'.response # r
    BY <1>1, <1>2, <1>4 DEF TypeOK, NoPublication, Responses
  <2>2. Latest(r)'
    BY <1>1, <1>2 DEF Latest, Arrived
  <2> QED BY <2>1, <2>2, <1>1, <1>3
      DEF LoopShape, OpenShape, PendingShape, CallShape, RestSteps, CallSteps
<1> QED BY <1>1, <1>2, <1>11, <1>12, LoopMoves DEF TypeOK

(***************************************************************************)
(* Steps outside the loop                                                  *)
(***************************************************************************)
\* Nothing that the loops know changes: an abandoned request ends, a stop is
\* asked for.
LEMMA BackgroundMoves ==
    ASSUME ToolInvariant, stop' \in BOOLEAN, hung' \in BOOLEAN, hashing' \subseteq hashing,
           UNCHANGED <<asked, run, pending, publication, at, call, left, fate, site, told, unknowns, crashes>>
    PROVE  ToolInvariant'
<1>1. JournalInvariant /\ TypeOK
  BY DEF ToolInvariant, JournalInvariant
<1>2. TypeOK'
  BY <1>1 DEF TypeOK
<1>3. ArrivalShape'
  BY <1>1 DEF JournalInvariant, ArrivalShape, Arrived, AsksFor, Targets
<1>4. JournalInvariant'
  BY <1>1, <1>2, <1>3, JournalFrame DEF JournalInvariant
<1>5. ASSUME NEW q \in Responses, Working(q)'
      PROVE  LoopShape(q)'
  <2>1. LoopShape(q)
    BY <1>5 DEF Working, InVisit, ToolInvariant
  <2> QED BY <2>1, LoopFrame
<1> QED BY <1>4, <1>5 DEF ToolInvariant

\* The loops of some responses are over.
LEMMA OverMoves ==
    ASSUME ToolInvariant, NEW responses, \A r \in responses : at[r] # "idle", Over(responses),
           hashing' \subseteq hashing, crashes' \in 0..MaxCrashes,
           UNCHANGED <<asked, run, stop, hung, pending, publication, site, told, unknowns>>
    PROVE  ToolInvariant'
<1>1. JournalInvariant /\ TypeOK /\ ArrivalShape
  BY DEF ToolInvariant, JournalInvariant
<1>2. /\ at' = [r \in Responses |-> IF r \in responses THEN "done" ELSE at[r]]
      /\ call' = [r \in Responses |-> IF r \in responses THEN 0 ELSE call[r]]
      /\ left' = [r \in Responses |-> IF r \in responses THEN {} ELSE left[r]]
      /\ fate' = [u \in Units |-> IF u[1] \in responses THEN "none" ELSE fate[u]]
  BY DEF Over
<1>3. TypeOK'
  <2>1. at' \in [Responses -> Steps] /\ call' \in [Responses -> {0} \cup Positions]
    BY <1>1, <1>2 DEF TypeOK, Steps
  <2>2. left' \in [Responses -> SUBSET Positions]
    BY <1>1, <1>2 DEF TypeOK
  <2>3. fate' \in [Units -> Fates]
    BY <1>1, <1>2 DEF TypeOK, Fates
  <2> QED BY <1>1, <2>1, <2>2, <2>3 DEF TypeOK
<1>4. ArrivalShape'
  <2>1. run' # 0 => Arrived(run)'
    BY <1>1 DEF ArrivalShape, Arrived
  <2>2. ASSUME NEW q \in Responses
        PROVE  /\ Arrived(q)' => \A p \in 1..(q - 1) : Arrived(p)'
               /\ at'[q] = "idle" <=> ~Arrived(q)'
               /\ call'[q] \in 0..Len(asked'[q])
    BY <1>1, <1>2 DEF ArrivalShape, Arrived
  <2>3. ASSUME NEW u \in Units
        PROVE  /\ told'[u] # <<>> \/ site'[u] # "untouched" => AsksFor(u)'
               /\ fate'[u] # "none" => u[2] <= call'[u[1]]
    <3>1. u[1] \in Responses
      BY UnitParts
    <3> QED BY <3>1, <1>1, <1>2 DEF ArrivalShape, AsksFor, Targets
  <2> QED BY <2>1, <2>2, <2>3 DEF ArrivalShape
<1>5. JournalInvariant'
  BY <1>1, <1>3, <1>4, JournalFrame DEF JournalInvariant
<1>6. ASSUME NEW q \in Responses, Working(q)'
      PROVE  LoopShape(q)'
  <2>1. q \notin responses
    BY <1>2, <1>6 DEF Working
  <2>2. at'[q] = at[q] /\ call'[q] = call[q] /\ left'[q] = left[q]
    BY <1>2, <2>1
  <2>3. LoopShape(q)
    BY <1>6, <2>2 DEF Working, InVisit, ToolInvariant
  <2>4. ASSUME at[q] \in CallSteps, NEW i \in 1..BatchSize
        PROVE  fate'[Unit(q, i)] = fate[Unit(q, i)]
    <3>1. call[q] # 0
      BY <2>3, <2>4 DEF LoopShape, OpenShape
    <3>2. Unit(q, i) \in Units
      BY <1>1, <3>1 DEF TypeOK, Unit, Units
    <3> QED BY <3>2, <1>2, <2>1 DEF Unit
  <2> QED BY <2>2, <2>3, <2>4, LoopFrame
<1> QED BY <1>5, <1>6 DEF ToolInvariant

\* Closing a visit answers what is open with what the stages say, and leaves no
\* publication.
LEMMA Settling ==
    ASSUME JournalInvariant, Settle, run' = 0, UNCHANGED <<asked, site>>
    PROVE  /\ ToldShape' /\ PublicationShape' /\ AnsweredShape' /\ JournalShape'
           /\ AnswersAreTrue' /\ NoBlindRepeat'
           /\ \A u \in Units : told'[u] # <<>> => told[u] # <<>> \/ AsksFor(u)
           /\ publication' = NoPublication /\ pending' = NoCall
<1>1. publication' = NoPublication /\ pending' = NoCall /\ \A q \in Responses : Open(q)' = {}
  BY DEF Settle, Open, NoPublication
<1>2. PublicationShape /\ AnsweredShape /\ \A u \in Units : u[1] \in Responses
  BY UnitParts DEF JournalInvariant
<1>3. /\ ToldShape' /\ AnswersAreTrue' /\ NoBlindRepeat'
      /\ \A u \in Units : told'[u] # <<>> => told[u] # <<>> \/ AsksFor(u)
      /\ \A u \in Units : AsksFor(u) => told'[u] # <<>>
  <2>1. CASE publication = NoPublication
    <3>1. pending.response = 0 /\ \A q \in Responses : Open(q) = {}
      BY <1>2, <2>1 DEF PublicationShape, NoCall, NoPublication, Open, Responses
    <3>2. Told(<<>>)
      BY <2>1, <3>1 DEF Settle
    <3>3. told' = told
      <4>1. told = [u \in Units |-> told[u]]
        BY DEF JournalInvariant, ToldShape
      <4> QED BY <3>2, <4>1 DEF Told
    <3>4. ToldShape' /\ AnswersAreTrue' /\ NoBlindRepeat'
      BY <3>3 DEF JournalInvariant, ToldShape, AnswersAreTrue, IsTrue, NoBlindRepeat, IsPost
    <3> QED BY <3>1, <3>3, <3>4, <1>2 DEF AnsweredShape
  <2>2. CASE publication # NoPublication
    <3>1. PICK r \in Responses : r = publication.response
      BY <1>2, <2>2 DEF PublicationShape
    <3>2. PICK calls : calls = publication.calls
      OBVIOUS
    <3>3. /\ Open(r) = calls /\ calls \subseteq DOMAIN asked[r] /\ r # 0
          /\ \A q \in Responses : q # r => Open(q) = {}
      BY <1>2, <2>2, <3>1, <3>2 DEF PublicationShape, Open, Responses
    <3>4. Told(Settlements(r, calls))
      BY <2>2, <3>1, <3>2, <3>3 DEF Settle
    <3>5. PICK answers : answers = Settlements(r, calls)
      OBVIOUS
    <3>6. /\ DOMAIN answers = UnitsOf(r, calls)
          /\ \A u \in Units : u[1] = r /\ u[2] \in calls /\ u[3] \in Targets(r, u[2]) =>
                answers[u] \in Answers /\ IsTrue(u, answers[u])
      BY <3>3, <3>5, SettlementsAreTrue
    <3>7. /\ ToldShape' /\ AnswersAreTrue' /\ NoBlindRepeat'
          /\ \A u \in Units : told'[u] # <<>> => told[u] # <<>> \/ AsksFor(u)
          /\ \A u \in Units : AsksFor(u) =>
               (told'[u] = <<>> <=> told[u] = <<>> /\ ~(u[1] = r /\ u[2] \in calls))
      BY <3>3, <3>4, <3>5, <3>6, TrueAnswers
    <3>8. \A u \in Units : AsksFor(u) => told'[u] # <<>>
      BY <3>3, <3>7, <1>2 DEF AnsweredShape
    <3> QED BY <3>7, <3>8
  <2> QED BY <2>1, <2>2
<1>4. PublicationShape'
  BY <1>1 DEF PublicationShape
<1>5. AnsweredShape' /\ JournalShape'
  <2>1. \A u \in Units : AsksFor(u)' <=> AsksFor(u)
    BY DEF AsksFor, Targets
  <2> QED BY <2>1, <1>1, <1>2, <1>3 DEF AnsweredShape, JournalShape
<1> QED BY <1>1, <1>3, <1>4, <1>5

\* A closed visit has no loop that may write.
LEMMA CloseMoves ==
    ASSUME ToolInvariant, Close,
           NEW responses, \A r \in responses : at[r] # "idle",
           Over(responses) \/ UNCHANGED <<at, call, left, fate>>,
           UNCHANGED <<asked, hashing, site, unknowns, crashes>>
    PROVE  ToolInvariant'
<1>1. JournalInvariant /\ TypeOK /\ ArrivalShape
  BY DEF ToolInvariant, JournalInvariant
<1>2. /\ ToldShape' /\ PublicationShape' /\ AnsweredShape' /\ JournalShape'
      /\ AnswersAreTrue' /\ NoBlindRepeat' /\ run' = 0 /\ stop' = FALSE /\ hung' = FALSE
      /\ \A u \in Units : told'[u] # <<>> => told[u] # <<>> \/ AsksFor(u)
      /\ publication' = NoPublication /\ pending' = NoCall
  BY <1>1, Settling DEF Close
<1>3. PICK over : /\ \A r \in over : at[r] # "idle"
                  /\ at' = [r \in Responses |-> IF r \in over THEN "done" ELSE at[r]]
                  /\ call' = [r \in Responses |-> IF r \in over THEN 0 ELSE call[r]]
                  /\ left' = [r \in Responses |-> IF r \in over THEN {} ELSE left[r]]
                  /\ fate' = [u \in Units |-> IF u[1] \in over THEN "none" ELSE fate[u]]
  <2>1. CASE Over(responses)
    BY <2>1 DEF Over
  <2>2. CASE UNCHANGED <<at, call, left, fate>>
    <3>1. PICK none : none = {}
      OBVIOUS
    <3>2. /\ at = [r \in Responses |-> IF r \in none THEN "done" ELSE at[r]]
          /\ call = [r \in Responses |-> IF r \in none THEN 0 ELSE call[r]]
          /\ left = [r \in Responses |-> IF r \in none THEN {} ELSE left[r]]
          /\ fate = [u \in Units |-> IF u[1] \in none THEN "none" ELSE fate[u]]
      BY <3>1, <1>1 DEF TypeOK
    <3> QED BY <2>2, <3>1, <3>2
  <2> QED BY <2>1, <2>2
<1>4. TypeOK'
  <2>1. at' \in [Responses -> Steps] /\ call' \in [Responses -> {0} \cup Positions]
    BY <1>1, <1>3 DEF TypeOK, Steps
  <2>2. left' \in [Responses -> SUBSET Positions]
    BY <1>1, <1>3 DEF TypeOK
  <2>3. fate' \in [Units -> Fates]
    BY <1>1, <1>3 DEF TypeOK, Fates
  <2>4. \A u \in Units : \A n \in DOMAIN told'[u] : told'[u][n] \in Answers
    <3>1. \A u \in Units : told'[u] \in {<<>>} \cup {<<a>> : a \in Answers}
      BY <1>2 DEF ToldShape
    <3> QED BY <3>1
  <2>5. /\ pending' \in [response : {0} \cup Responses, call : {0} \cup Positions, stage : Stages]
        /\ publication' \in [response : {0} \cup Responses, calls : SUBSET Positions, shown : BOOLEAN]
    BY <1>2 DEF NoCall, NoPublication, Stages
  <2> QED BY <1>1, <1>2, <2>1, <2>2, <2>3, <2>4, <2>5 DEF TypeOK
<1>5. ArrivalShape'
  <2>1. ASSUME NEW q \in Responses
        PROVE  /\ Arrived(q)' => \A p \in 1..(q - 1) : Arrived(p)'
               /\ at'[q] = "idle" <=> ~Arrived(q)'
               /\ call'[q] \in 0..Len(asked'[q])
    BY <1>1, <1>3 DEF ArrivalShape, Arrived
  <2>2. ASSUME NEW u \in Units
        PROVE  /\ told'[u] # <<>> \/ site'[u] # "untouched" => AsksFor(u)'
               /\ fate'[u] # "none" => u[2] <= call'[u[1]]
    <3>1. u[1] \in Responses
      BY UnitParts
    <3> QED BY <3>1, <1>1, <1>2, <1>3 DEF ArrivalShape, AsksFor, Targets
  <2> QED BY <2>1, <2>2, <1>2 DEF ArrivalShape
<1>6. \A q \in Responses : ~Working(q)'
  BY <1>2 DEF Working, InVisit
<1> QED BY <1>2, <1>4, <1>5, <1>6 DEF ToolInvariant, JournalInvariant

\* The website performs or refuses what was sent: no answer becomes untrue, and
\* nothing that was performed or untouched changes.
LEMMA SiteExecutesStep ==
    ASSUME Parameters, ToolInvariant, NEW x \in Units, NEW outcome \in {"performed", "refused"},
           SiteExecutes(x, outcome)
    PROVE  ToolInvariant'
<1>1. /\ site[x] = "sent" /\ site' = [site EXCEPT ![x] = outcome]
      /\ UNCHANGED <<asked, run, stop, hung, pending, publication, at, call, left, fate, hashing, told,
                     unknowns, crashes>>
  BY DEF SiteExecutes, journalVars, answerVars
<1>2. JournalInvariant /\ TypeOK /\ ArrivalShape
  BY DEF ToolInvariant, JournalInvariant
<1>3. \A u \in Units : site'[u] = IF u = x THEN outcome ELSE site[u]
  BY <1>1, <1>2 DEF TypeOK
<1>4. TypeOK'
  BY <1>1, <1>2 DEF TypeOK
<1>5. \A u : AsksFor(u)' <=> AsksFor(u)
  BY <1>1 DEF AsksFor, Targets
<1>6. ArrivalShape'
  <2>1. \A u \in Units : site'[u] # "untouched" => site[u] # "untouched"
    BY <1>1, <1>3
  <2> QED BY <2>1, <1>1, <1>2, <1>5 DEF ArrivalShape, Arrived
<1>7. ToldShape' /\ AnsweredShape' /\ PublicationShape'
  BY <1>1, <1>2, JournalFrame
<1>8. JournalShape'
  <2> SUFFICES ASSUME NEW u \in Units, AsksFor(u), u[2] \in Open(u[1])
               PROVE  SpokenFor(u, StageOf(u))'
    BY <1>1, <1>5 DEF JournalShape, Open
  <2>1. SpokenFor(u, StageOf(u))
    BY <1>2, NotBegun
  <2>2. StageOf(u)' = StageOf(u)
    BY <1>1 DEF StageOf
  <2> QED BY <2>1, <2>2, <1>1, <1>3 DEF SpokenFor
<1>9. AnswersAreTrue'
  <2> SUFFICES ASSUME NEW u \in Units, NEW m \in DOMAIN told[u]
               PROVE  IsTrue(u, told[u][m])'
    BY <1>1 DEF AnswersAreTrue
  <2>1. IsTrue(u, told[u][m])
    BY <1>2 DEF JournalInvariant, AnswersAreTrue
  <2> QED BY <2>1, <1>1, <1>3 DEF IsTrue
<1>10. NoBlindRepeat'
  <2> SUFFICES ASSUME NEW u \in Units, NEW v \in Units,
                      u[1] < v[1] \/ (u[1] = v[1] /\ u[2] < v[2]),
                      IsPost(u), IsPost(v), site'[u] \in {"sent", "performed"}, site'[v] # "untouched"
               PROVE  told[u] = <<"result">>
    BY <1>1 DEF NoBlindRepeat, IsPost
  <2>1. site[u] \in {"sent", "performed"} /\ site[v] # "untouched"
    BY <1>1, <1>3
  <2> QED BY <2>1, <1>2 DEF JournalInvariant, NoBlindRepeat
<1>11. ASSUME NEW q \in Responses, Working(q)'
       PROVE  LoopShape(q)'
  <2>1. LoopShape(q) /\ Working(q)
    BY <1>1, <1>11 DEF Working, InVisit, ToolInvariant
  <2>2. Latest(q)' /\ (at'[q] \notin {"siblings", "ending"} => unknowns' <= 1)
    BY <1>1, <2>1 DEF LoopShape, Latest, Arrived
  <2>3. OpenShape(q)' /\ PendingShape(q)'
    BY <1>1, <2>1 DEF LoopShape, OpenShape, PendingShape, Open, After
  <2>4. CASE at[q] \notin CallSteps
    <3>1. CallShape(q)'
      BY <1>1, <2>4 DEF CallShape, CallSteps
    <3> QED BY <2>2, <2>3, <3>1 DEF LoopShape
  <2>5. CASE at[q] \in CallSteps
    <3>1. \A i \in 1..BatchSize : Unit(q, i) \in Units
      BY <2>1, <2>5, CallAtHand DEF Working
    <3>2. \A i \in Targets(q, call[q]) : i \in 1..BatchSize
      BY <2>1, <2>5, CallAtHand DEF Working
    <3>3. /\ (EarlierUnresolved' <=> EarlierUnresolved) /\ Effect(q)' = Effect(q)
          /\ Targets(q, call[q])' = Targets(q, call[q]) /\ \A i : Unit(q, i)' = Unit(q, i)
      BY <1>1 DEF EarlierUnresolved, IsPost, Effect, Targets, Unit
    <3>4. \A i \in 1..BatchSize :
            /\ site[Unit(q, i)] # "sent" => site'[Unit(q, i)] = site[Unit(q, i)]
            /\ site[Unit(q, i)] = "sent" => site'[Unit(q, i)] # "untouched"
      BY <1>1, <1>3, <3>1
    <3>5. \A n \in 1..BatchSize : TargetShape(q, n) => TargetShape(q, n)'
      BY <1>1, <3>3, <3>4 DEF TargetShape
    <3>6. \A i \in 1..BatchSize : FateShape(Unit(q, i)) => FateShape(Unit(q, i))'
      BY <1>1, <3>3, <3>4 DEF FateShape
    <3>7. at[q] = "failing" => 1 \in 1..BatchSize
      BY DEF Parameters
    <3>8. CallShape(q)'
      BY <1>1, <2>1, <3>2, <3>3, <3>4, <3>5, <3>6, <3>7 DEF LoopShape, CallShape
    <3> QED BY <2>2, <2>3, <3>8 DEF LoopShape
  <2> QED BY <2>4, <2>5
<1> QED BY <1>4, <1>6, <1>7, <1>8, <1>9, <1>10, <1>11 DEF ToolInvariant, JournalInvariant

\* A response arrives when nothing of an earlier one is open.
LEMMA RespondStep ==
    ASSUME Parameters, ToolInvariant, NEW r \in Responses, NEW content \in Contents, Respond(r, content)
    PROVE  ToolInvariant'
<1>1. /\ JournalInvariant /\ TypeOK /\ ArrivalShape /\ PublicationShape /\ AnsweredShape /\ ToldShape
      /\ AnswersAreTrue /\ NoBlindRepeat
  BY DEF ToolInvariant, JournalInvariant
<1>2. /\ asked[r] = <<>> /\ \A q \in 1..(r - 1) : asked[q] # <<>>
      /\ publication = NoPublication /\ asked' = [asked EXCEPT ![r] = content]
      /\ publication' = [response |-> r, calls |-> DOMAIN content, shown |-> FALSE]
      /\ left' = [left EXCEPT ![r] = DOMAIN content]
      /\ UNCHANGED <<stop, hung, pending, call, fate, hashing, site, told, crashes>>
  BY DEF Respond, worldVars
<1>3. /\ content \in Seq(Effects) /\ content # <<>> /\ Len(content) \in Nat
      /\ DOMAIN content = 1..Len(content) /\ DOMAIN content \subseteq Positions
      /\ \A k \in DOMAIN content : content[k] \in Effects
  <2>1. content \in Seq(Effects) /\ content # <<>>
    BY DEF Parameters
  <2>2. DOMAIN content \subseteq Positions
    BY DEF Positions
  <2> QED BY <2>1, <2>2
<1>4. \A q \in Responses : asked'[q] = IF q = r THEN content ELSE asked[q]
  BY <1>1, <1>2 DEF TypeOK
<1>5. PICK step \in {"received", "interrupting"} :
        \/ /\ run = 0 /\ run' = r
           /\ unknowns' = 0
           /\ Go(r, step)
        \/ /\ r > 1 /\ InVisit(r - 1) /\ at[r - 1] = "between"
           /\ at' = [at EXCEPT ![r - 1] = "done", ![r] = step]
           /\ UNCHANGED <<run, unknowns>>
  BY DEF Respond, Authority
<1>6. pending = NoCall /\ r # 0 /\ \A q \in Responses : q # 0 /\ Open(q) = {}
  BY <1>1, <1>2 DEF PublicationShape, NoPublication, Open, Responses
<1>7. /\ at[r] = "idle" /\ call[r] = 0
      /\ \A u \in Units : u[1] = r => told[u] = <<>> /\ site[u] = "untouched" /\ fate[u] = "none"
  <2>1. at[r] = "idle" /\ call[r] = 0
    BY <1>1, <1>2 DEF ArrivalShape, Arrived
  <2>2. ASSUME NEW u \in Units, u[1] = r
        PROVE  told[u] = <<>> /\ site[u] = "untouched" /\ fate[u] = "none"
    <3>1. u[2] \in Nat \ {0}
      BY UnitParts, PositionsAreNumbers
    <3>2. ~AsksFor(u)
      BY <1>2, <2>2, <3>1 DEF AsksFor
    <3>3. fate[u] # "none" => u[2] <= call[u[1]]
      BY <1>1 DEF ArrivalShape
    <3> QED BY <1>1, <2>1, <2>2, <3>1, <3>2, <3>3 DEF ArrivalShape
  <2> QED BY <2>1, <2>2
<1>8. \A q \in Responses : q > r => ~Arrived(q)
  <2> SUFFICES ASSUME NEW q \in Responses, q > r, Arrived(q)
               PROVE  FALSE
    OBVIOUS
  <2>1. r \in 1..(q - 1)
    BY DEF Responses
  <2> QED BY <2>1, <1>1, <1>2 DEF ArrivalShape, Arrived
<1> NumResponses \in Nat /\ Responses = 1..NumResponses /\ r \in Int
  BY DEF Parameters, Responses
<1>9. /\ at'[r] = step /\ at' \in [Responses -> Steps]
      /\ \A q \in Responses : q # r => at'[q] = at[q] \/ (at[q] = "between" /\ at'[q] = "done")
      /\ \A q \in Responses : run = run' /\ run # 0 /\ q = r - 1 => at'[q] = "done"
  <2>1. CASE run = 0 /\ run' = r /\ at' = [at EXCEPT ![r] = step]
    BY <2>1, <1>1 DEF TypeOK, Steps
  <2>2. CASE r > 1 /\ InVisit(r - 1) /\ at[r - 1] = "between" /\ UNCHANGED run
             /\ at' = [at EXCEPT ![r - 1] = "done", ![r] = step]
    <3>1. r - 1 \in Responses /\ r - 1 # r
      BY <2>2
    <3>2. \A q \in Responses : at'[q] = IF q = r THEN step ELSE IF q = r - 1 THEN "done" ELSE at[q]
      BY <2>2, <3>1, <1>1 DEF TypeOK
    <3>3. at' \in [Responses -> Steps]
      BY <2>2, <3>1, <1>1 DEF TypeOK, Steps
    <3> QED BY <2>2, <3>1, <3>2, <3>3
  <2> QED BY <2>1, <2>2, <1>5 DEF Go
<1>10. run' \in {0} \cup Responses /\ unknowns' \in 0..2 /\ run' # 0 /\ run' <= r
  BY <1>1, <1>5 DEF TypeOK, InVisit, Responses
<1>11. Latest(r)' /\ Arrived(r)'
  <2>1. \A q \in Responses : q > r => asked'[q] = asked[q]
    BY <1>4
  <2> QED BY <2>1, <1>3, <1>4, <1>8 DEF Latest, Arrived
<1>12. TypeOK'
  <2>1. asked' \in [Responses -> Contents \cup {<<>>}]
    BY <1>1, <1>2 DEF TypeOK
  <2>2. publication' \in [response : {0} \cup Responses, calls : SUBSET Positions, shown : BOOLEAN]
    BY <1>2, <1>3
  <2>3. left' \in [Responses -> SUBSET Positions]
    BY <1>1, <1>2, <1>3 DEF TypeOK
  <2> QED BY <2>1, <2>2, <2>3, <1>1, <1>2, <1>9, <1>10 DEF TypeOK
<1>13. \A u \in Units : u[1] # r => asked'[u[1]] = asked[u[1]] /\ (AsksFor(u)' <=> AsksFor(u))
  <2> SUFFICES ASSUME NEW u \in Units, u[1] # r
               PROVE  asked'[u[1]] = asked[u[1]] /\ (AsksFor(u)' <=> AsksFor(u))
    OBVIOUS
  <2>1. u[1] \in Responses
    BY UnitParts
  <2>2. asked'[u[1]] = asked[u[1]]
    BY <1>4, <2>1
  <2> QED BY <2>2 DEF AsksFor, Targets
<1>14. ArrivalShape'
  <2>1. run' # 0 => Arrived(run)'
    <3>1. CASE run' = r
      BY <3>1, <1>11 DEF Arrived
    <3>2. CASE run' = run /\ run # r
      BY <3>2, <1>1, <1>4 DEF ArrivalShape, Arrived, TypeOK
    <3> QED BY <3>1, <3>2, <1>5
  <2>2. ASSUME NEW q \in Responses
        PROVE  /\ Arrived(q)' => \A p \in 1..(q - 1) : Arrived(p)'
               /\ at'[q] = "idle" <=> ~Arrived(q)'
               /\ call'[q] \in 0..Len(asked'[q])
    <3>1. CASE q = r
      <4>1. \A p \in 1..(r - 1) : p \in Responses /\ p # r
        OBVIOUS
      <4> QED BY <3>1, <4>1, <1>2, <1>3, <1>4, <1>7, <1>9, <1>11 DEF Arrived
    <3>2. CASE q # r
      <4>1. /\ Arrived(q) => \A p \in 1..(q - 1) : Arrived(p)
            /\ at[q] = "idle" <=> ~Arrived(q)
            /\ call[q] \in 0..Len(asked[q])
        BY <1>1 DEF ArrivalShape
      <4>2. \A p \in 1..(q - 1) : p \in Responses
        OBVIOUS
      <4>3. asked'[q] = asked[q] /\ \A p \in 1..(q - 1) : Arrived(p) => Arrived(p)'
        BY <3>2, <4>2, <1>3, <1>4 DEF Arrived
      <4>4. at'[q] = "idle" <=> at[q] = "idle"
        BY <3>2, <1>9
      <4> QED BY <4>1, <4>3, <4>4, <1>2 DEF Arrived
    <3> QED BY <3>1, <3>2
  <2>3. ASSUME NEW u \in Units
        PROVE  /\ told'[u] # <<>> \/ site'[u] # "untouched" => AsksFor(u)'
               /\ fate'[u] # "none" => u[2] <= call'[u[1]]
    BY <1>1, <1>2, <1>7, <1>13 DEF ArrivalShape
  <2> QED BY <2>1, <2>2, <2>3 DEF ArrivalShape
<1>15. ToldShape'
  BY <1>1, <1>2 DEF ToldShape
<1>16. \A q \in Responses : Open(q)' = IF q = r THEN DOMAIN content ELSE {}
  BY <1>2 DEF Open
<1>17. PublicationShape'
  <2>1. 1 \in DOMAIN content
    BY <1>3
  <2> QED BY <2>1, <1>2, <1>4, <1>6, <1>10, <1>11 DEF PublicationShape, InVisit
<1>18. AnsweredShape'
  <2> SUFFICES ASSUME NEW u \in Units, AsksFor(u)'
               PROVE  told'[u] = <<>> <=> u[2] \in Open(u[1])'
    BY DEF AnsweredShape
  <2>1. u[1] \in Responses
    BY UnitParts
  <2>2. CASE u[1] = r
    BY <2>2, <1>2, <1>4, <1>7, <1>16 DEF AsksFor
  <2>3. CASE u[1] # r
    BY <2>1, <2>3, <1>1, <1>2, <1>6, <1>13, <1>16 DEF AnsweredShape
  <2> QED BY <2>2, <2>3
<1>19. JournalShape'
  <2> SUFFICES ASSUME NEW u \in Units, u[2] \in Open(u[1])'
               PROVE  SpokenFor(u, StageOf(u))'
    BY DEF JournalShape
  <2>1. u[1] = r
    BY <1>16, UnitParts
  <2>2. site'[u] = "untouched" /\ StageOf(u)' = "prepared"
    BY <2>1, <1>2, <1>6, <1>7 DEF StageOf, NoCall
  <2> QED BY <2>2 DEF SpokenFor
<1>20. AnswersAreTrue'
  <2> SUFFICES ASSUME NEW u \in Units, NEW m \in DOMAIN told[u]
               PROVE  IsTrue(u, told[u][m])'
    BY <1>2 DEF AnswersAreTrue
  <2>1. u[1] # r
    BY <1>7
  <2>2. IsTrue(u, told[u][m])
    BY <1>1 DEF AnswersAreTrue
  <2> QED BY <2>1, <2>2, <1>2, <1>13 DEF IsTrue
<1>21. NoBlindRepeat'
  <2> SUFFICES ASSUME NEW u \in Units, NEW v \in Units,
                      u[1] < v[1] \/ (u[1] = v[1] /\ u[2] < v[2]),
                      IsPost(u)', IsPost(v)', site[u] \in {"sent", "performed"}, site[v] # "untouched"
               PROVE  told[u] = <<"result">>
    BY <1>2 DEF NoBlindRepeat
  <2>1. u[1] # r /\ v[1] # r
    BY <1>7
  <2>2. IsPost(u) /\ IsPost(v)
    BY <2>1, <1>13 DEF IsPost
  <2> QED BY <2>2, <1>1 DEF NoBlindRepeat
<1>22. JournalInvariant'
  BY <1>12, <1>14, <1>15, <1>17, <1>18, <1>19, <1>20, <1>21 DEF JournalInvariant
<1>23. LoopShape(r)'
  <2>1. unknowns' <= 1
    <3>1. CASE run = 0 /\ unknowns' = 0
      BY <3>1
    <3>2. CASE r > 1 /\ InVisit(r - 1) /\ at[r - 1] = "between" /\ UNCHANGED unknowns
      <4>1. r - 1 \in Responses /\ Working(r - 1)
        BY <3>2 DEF Working
      <4>2. LoopShape(r - 1)
        BY <4>1 DEF ToolInvariant
      <4> QED BY <3>2, <4>2 DEF LoopShape
    <3> QED BY <3>1, <3>2, <1>5
  <2>2. OpenShape(r)'
    <3>1. Open(r)' = DOMAIN content /\ left'[r] = DOMAIN content
      BY <1>1, <1>2, <1>16 DEF TypeOK
    <3>2. After(r, call[r])' = DOMAIN content
      BY <1>2, <1>3, <1>4, <1>7 DEF After
    <3> QED BY <3>1, <3>2, <1>9 DEF OpenShape, RestSteps, CallSteps
  <2>3. PendingShape(r)'
    BY <1>2, <1>6, <1>9 DEF PendingShape, RestSteps, CallSteps
  <2>4. CallShape(r)'
    BY <1>9 DEF CallShape
  <2> QED BY <2>1, <2>2, <2>3, <2>4, <1>11 DEF LoopShape
<1>24. ASSUME NEW q \in Responses, Working(q)', q # r
       PROVE  FALSE
  <2>1. at'[q] = at[q] /\ at[q] # "idle" /\ at[q] # "done"
    BY <1>9, <1>24 DEF Working
  <2>2. ~(q > r)
    BY <2>1, <1>1, <1>8 DEF ArrivalShape
  <2>3. CASE run' = r
    BY <2>2, <2>3, <1>24 DEF Working, InVisit
  <2>4. CASE r > 1 /\ InVisit(r - 1) /\ at[r - 1] = "between" /\ run' = run /\ run' # r
    <3>1. r - 1 \in Responses /\ Working(r - 1) /\ Working(q)
      BY <2>1, <2>4, <1>24 DEF Working, InVisit
    <3>2. q = r - 1
      BY <3>1, OneLoop
    <3> QED BY <3>2, <2>1, <2>4, <1>9, <1>24 DEF InVisit
  <2> QED BY <2>3, <2>4, <1>5
<1> QED BY <1>22, <1>23, <1>24 DEF ToolInvariant

(***************************************************************************)
(* The theorems                                                            *)
(***************************************************************************)
\* Nothing is asked, told or sent at first.
LEMMA InitEstablishes ==
    ASSUME Parameters, Init
    PROVE  ToolInvariant
<1>1. TypeOK
  <2>1. told = [u \in Units |-> <<>>] /\ \A u \in Units : DOMAIN told[u] = {}
    BY DEF Init
  <2>2. \A u \in Units : \A n \in DOMAIN told[u] : told[u][n] \in Answers
    BY <2>1
  <2>3. /\ asked \in [Responses -> Contents \cup {<<>>}] /\ run \in {0} \cup Responses /\ stop \in BOOLEAN
        /\ at \in [Responses -> Steps] /\ call \in [Responses -> {0} \cup Positions]
        /\ left \in [Responses -> SUBSET Positions]
    BY DEF Init, Steps
  <2>4. /\ pending \in [response : {0} \cup Responses, call : {0} \cup Positions, stage : Stages]
        /\ publication \in [response : {0} \cup Responses, calls : SUBSET Positions, shown : BOOLEAN]
    BY DEF Init, NoCall, NoPublication, Stages
  <2>5. /\ fate \in [Units -> Fates] /\ hashing \subseteq Units
        /\ site \in [Units -> {"untouched", "sent", "performed", "refused"}]
    BY DEF Init, Fates
  <2>6. unknowns \in 0..2 /\ crashes \in 0..MaxCrashes
    BY DEF Init, Parameters
  <2>7. hung \in BOOLEAN
    BY DEF Init
  <2> QED BY <2>2, <2>3, <2>4, <2>5, <2>6, <2>7 DEF TypeOK
<1>2. ToldShape
  BY DEF Init, ToldShape
<1>3. ArrivalShape
  <2>1. \A r \in Responses : ~Arrived(r) /\ at[r] = "idle" /\ call[r] \in 0..Len(asked[r])
    BY DEF Init, Arrived
  <2>2. \A u \in Units : told[u] = <<>> /\ site[u] = "untouched" /\ fate[u] = "none"
    BY DEF Init
  <2>3. run = 0
    BY DEF Init
  <2> QED BY <2>1, <2>2, <2>3 DEF ArrivalShape
<1>4. publication = NoPublication /\ pending = NoCall /\ \A r \in Responses : Open(r) = {}
  BY DEF Init, Open, NoPublication
<1>5. PublicationShape
  BY <1>4 DEF PublicationShape
<1>6. \A u \in Units : ~AsksFor(u) /\ told[u] = <<>> /\ site[u] = "untouched"
  <2> SUFFICES ASSUME NEW u \in Units
               PROVE  ~AsksFor(u) /\ told[u] = <<>> /\ site[u] = "untouched"
    OBVIOUS
  <2>1. asked[u[1]] = <<>> /\ u[2] \in Nat \ {0}
    BY UnitParts, PositionsAreNumbers DEF Init
  <2> QED BY <2>1 DEF Init, AsksFor
<1>7. AnsweredShape /\ JournalShape /\ AnswersAreTrue /\ NoBlindRepeat
  BY <1>6 DEF AnsweredShape, JournalShape, AnswersAreTrue, NoBlindRepeat
<1>8. \A r \in Responses : ~Working(r)
  BY DEF Init, Working, InVisit
<1> QED BY <1>1, <1>2, <1>3, <1>5, <1>7, <1>8 DEF ToolInvariant, JournalInvariant

\* Every step of a response's loop keeps the invariant.
LEMMA LoopStepPreserves ==
    ASSUME Parameters, ToolInvariant, NEW r \in Responses, LoopStep(r)
    PROVE  ToolInvariant'
<1>1. CASE \E content \in Contents : Respond(r, content)
  BY <1>1, RespondStep
<1>2. CASE \/ ResponseAccepted(r) \/ StopBeforeCall(r) \/ FailureIsLost(r) \/ LeaseKept(r)
           \/ RenewalThrows(r) \/ SiblingsAreTold(r) \/ VisitEnds(r)
  BY <1>2, PassingSteps
<1>3. CASE Interrupted(r) \/ LeaseLost(r) \/ PreparationStops(r) \/ LeaseGone(r)
  BY <1>3, InterruptSteps
<1>4. CASE DropCall(r) \/ MalformedCall(r)
  BY <1>4, SkippedCallSteps
<1>5. CASE BeginCall(r)
  BY <1>5, BeginCallStep
<1>6. CASE FailureIsTold(r)
  BY <1>6, FailureIsToldStep
<1>7. CASE LeaseRenewed(r)
  BY <1>7, LeaseRenewedStep
<1>8. CASE LeaseFails(r) \/ PreparationFails(r)
  BY <1>8, EarlyFailures
<1>9. CASE StartReading(r)
  BY <1>9, StartReadingStep
<1>10. CASE WriteNote(r)
  BY <1>10, WriteNoteStep
<1>11. CASE CorrectCall(r)
  BY <1>11, CorrectCallStep
<1>12. CASE PrepareRequest(r)
  BY <1>12, PrepareRequestStep
<1>13. CASE RequestFails(r)
  BY <1>13, RequestFailsStep
<1>14. CASE Returned(r)
  BY <1>14, ReturnedStep
<1>15. CASE NextTarget(r)
  BY <1>15, NextTargetStep
<1>16. CASE CommittedIssue(r)
  BY <1>16, CommittedIssueStep
<1>17. CASE Refused(r)
  BY <1>17, RefusedStep
<1>18. CASE OutcomeUnknown(r)
  BY <1>18, OutcomeUnknownStep
<1>19. CASE ReadFails(r)
  BY <1>19, ReadFailsStep
<1>20. CASE ResultIsTold(r)
  BY <1>20, ResultIsToldStep
<1>21. CASE BatchIsTold(r)
  BY <1>21, BatchIsToldStep
<1>22. CASE DropRest(r)
  BY <1>22, DropRestStep
<1>23. CASE SiblingIsTold(r)
  BY <1>23, SiblingIsToldStep
<1>24. CASE EndOfCalls(r)
  BY <1>24, EndOfCallsStep
<1>25. CASE finalizeRun(r)
  <2>1. \A q \in {r} : at[q] # "idle"
    BY <1>25 DEF finalizeRun
  <2>2. Close /\ Over({r}) /\ UNCHANGED <<asked, hashing, site, unknowns, crashes>>
    BY <1>25 DEF finalizeRun, worldVars
  <2> QED BY <2>1, <2>2, CloseMoves
<1>26. CASE Perish(r)
  <2>1. \A q \in {r} : at[q] # "idle"
    BY <1>26 DEF Perish
  <2>2. /\ Over({r}) /\ hashing' \subseteq hashing /\ crashes' \in 0..MaxCrashes
        /\ UNCHANGED <<asked, run, stop, hung, pending, publication, site, told, unknowns>>
    BY <1>26 DEF Perish, worldVars, journalVars, ToolInvariant, JournalInvariant, TypeOK
  <2> QED BY <2>1, <2>2, OverMoves
<1> QED BY <1>1, <1>2, <1>3, <1>4, <1>5, <1>6, <1>7, <1>8, <1>9, <1>10, <1>11, <1>12, <1>13,
           <1>14, <1>15, <1>16, <1>17, <1>18, <1>19, <1>20, <1>21, <1>22, <1>23, <1>24, <1>25,
           <1>26 DEF LoopStep

\* So does every other step.
LEMMA NextPreserves ==
    ASSUME Parameters, ToolInvariant, [Next]_vars
    PROVE  ToolInvariant'
<1>1. TypeOK
  BY DEF ToolInvariant, JournalInvariant
<1>2. ASSUME NEW r \in Responses, LoopStep(r)
      PROVE  ToolInvariant'
  BY <1>2, LoopStepPreserves
<1>3. ASSUME NEW u \in Units, RequestStep(u)
      PROVE  ToolInvariant'
  <2>1. CASE Dispatch(u)
    BY <2>1, DispatchStep
  <2>2. CASE StrayEnds(u)
    <3>1. /\ hashing' \subseteq hashing /\ stop' \in BOOLEAN /\ hung' \in BOOLEAN
          /\ UNCHANGED <<asked, run, pending, publication, at, call, left, fate, site, told, unknowns, crashes>>
      BY <2>2, <1>1 DEF StrayEnds, journalVars, answerVars, TypeOK
    <3> QED BY <3>1, BackgroundMoves
  <2>3. CASE DispatchStopped(u)
    BY <2>3, DispatchStoppedStep
  <2>4. CASE SiteExecutes(u, "performed") \/ SiteExecutes(u, "refused")
    BY <2>4, SiteExecutesStep
  <2> QED BY <1>3, <2>1, <2>2, <2>3, <2>4 DEF RequestStep
<1>4. CASE reconcileRunJournal
  <2>1. Close /\ UNCHANGED <<at, call, left, fate>> /\ UNCHANGED <<asked, hashing, site, unknowns, crashes>>
    BY <1>4 DEF reconcileRunJournal, worldVars
  <2>2. PICK none : none = {}
    OBVIOUS
  <2>3. \A q \in none : at[q] # "idle"
    BY <2>2
  <2> QED BY <2>1, <2>3, CloseMoves
<1>5. CASE AskStop
  <2>1. /\ hashing' \subseteq hashing /\ stop' \in BOOLEAN /\ hung' \in BOOLEAN
        /\ UNCHANGED <<asked, run, pending, publication, at, call, left, fate, site, told, unknowns, crashes>>
    BY <1>1, <1>5 DEF AskStop, worldVars, answerVars, TypeOK
  <2> QED BY <2>1, BackgroundMoves
<1>6. CASE Crash \/ ResetsItself
  <2>1. PICK ended : ended = {r \in Responses : at[r] # "idle"}
    OBVIOUS
  <2>2. /\ \A r \in ended : at[r] # "idle"
        /\ Over(ended) /\ hashing' \subseteq hashing
        /\ UNCHANGED <<asked, run, stop, hung, pending, publication, site, told, unknowns>>
    BY <1>6, <2>1 DEF Crash, ResetsItself, Reset
  <2>3. crashes' \in 0..MaxCrashes
    BY <1>1, <1>6 DEF Crash, ResetsItself, TypeOK, Parameters
  <2> QED BY <2>2, <2>3, OverMoves
<1>7. CASE UNCHANGED vars
  <2>1. /\ hashing' \subseteq hashing /\ stop' \in BOOLEAN /\ hung' \in BOOLEAN
        /\ UNCHANGED <<asked, run, pending, publication, at, call, left, fate, site, told, unknowns, crashes>>
    BY <1>1, <1>7 DEF vars, TypeOK
  <2> QED BY <2>1, BackgroundMoves
<1>8. CASE Finished
  BY <1>7, <1>8 DEF Finished
<1>9. CASE abortHungTransition
  <2>1. /\ hashing' \subseteq hashing /\ stop' \in BOOLEAN /\ hung' \in BOOLEAN
        /\ UNCHANGED <<asked, run, pending, publication, at, call, left, fate, site, told, unknowns, crashes>>
    BY <1>1, <1>9 DEF abortHungTransition, worldVars, answerVars, TypeOK
  <2> QED BY <2>1, BackgroundMoves
<1> QED BY <1>2, <1>3, <1>4, <1>5, <1>6, <1>7, <1>8, <1>9 DEF Next

\* The journal, the publication and the loop agree on what is unanswered, and
\* the recorded stage covers what was sent.
THEOREM ToolInvariantHolds ==
    ASSUME Parameters
    PROVE  Spec => []ToolInvariant
<1>1. Init => ToolInvariant
  BY InitEstablishes
<1>2. ToolInvariant /\ [Next]_vars => ToolInvariant'
  BY NextPreserves
<1> QED BY <1>1, <1>2, PTL DEF Spec

\* Every variable keeps its type.
THEOREM TypeCorrect ==
    ASSUME Parameters
    PROVE  Spec => []TypeOK
<1>1. ToolInvariant => TypeOK
  BY DEF ToolInvariant, JournalInvariant
<1> QED BY <1>1, ToolInvariantHolds, PTL

\* What a participant is told of a call is true, and nothing that the website
\* does later makes it untrue.
THEOREM AnswersStayTrue ==
    ASSUME Parameters
    PROVE  Spec => []AnswersAreTrue
<1>1. ToolInvariant => AnswersAreTrue
  BY DEF ToolInvariant, JournalInvariant
<1> QED BY <1>1, ToolInvariantHolds, PTL

\* A post whose outcome the participant does not know is not sent again.
THEOREM NoRepeat ==
    ASSUME Parameters
    PROVE  Spec => []NoBlindRepeat
<1>1. ToolInvariant => NoBlindRepeat
  BY DEF ToolInvariant, JournalInvariant
<1> QED BY <1>1, ToolInvariantHolds, PTL

\* No call is answered twice, one that is not answered stands in the response's
\* publication, and once a response's visit is settled, or its loop is about to
\* ask for the next one, nothing of it stands there.
LEMMA AnsweredOnce ==
    ASSUME Parameters, ToolInvariant
    PROVE  CallsAreAnswered
<1>1. /\ TypeOK /\ ToldShape /\ PublicationShape /\ AnsweredShape
  BY DEF ToolInvariant, JournalInvariant
<1>2. \A u \in Units : Len(told[u]) <= 1
  <2> SUFFICES ASSUME NEW u \in Units
               PROVE  Len(told[u]) <= 1
    OBVIOUS
  <2>1. CASE told[u] = <<>>
    BY <2>1
  <2>2. ASSUME NEW a \in Answers, told[u] = <<a>>
        PROVE  Len(told[u]) <= 1
    BY <2>2
  <2> QED BY <2>1, <2>2, <1>1 DEF ToldShape
<1>3. ASSUME NEW r \in Responses, ~InVisit(r) \/ at[r] = "between"
      PROVE  publication.response # r
  <2>1. CASE InVisit(r)
    <3>1. Working(r)
      BY <2>1, <1>3 DEF Working
    <3> QED BY <3>1, <2>1, <1>3 DEF ToolInvariant, LoopShape, OpenShape
  <2>2. CASE ~InVisit(r)
    BY <2>2, <1>1 DEF PublicationShape, NoPublication, Responses
  <2> QED BY <2>1, <2>2
<1>4. ASSUME NEW r \in Responses, publication.response # r
      PROVE  pending.response # r
  BY <1>1, <1>4 DEF PublicationShape, NoCall, Responses
<1>5. ASSUME NEW r \in Responses, NEW u \in UnitsOf(r, DOMAIN asked[r])
      PROVE  told[u] # <<>> \/ (publication.response = r /\ u[2] \in publication.calls)
  <2>1. PICK k \in DOMAIN asked[r] : \E j \in Targets(r, k) : u = <<r, k, j>>
    BY DEF UnitsOf
  <2>2. PICK i \in Targets(r, k) : u = <<r, k, i>>
    BY <2>1
  <2>3. 1 \in 1..BatchSize /\ i \in 1..BatchSize
    <3>1. 1 \in 1..BatchSize
      BY DEF Parameters
    <3> QED BY <3>1, <1>1, CallUnits
  <2>4. u \in Units
    BY <2>2, <2>3, <1>1, CallUnits
  <2>5. AsksFor(u)
    BY <2>2 DEF AsksFor
  <2>6. told[u] = <<>> => u[2] \in Open(r)
    BY <2>2, <2>4, <2>5, <1>1 DEF AnsweredShape
  <2> QED BY <2>6 DEF Open
<1> QED BY <1>2, <1>3, <1>4, <1>5 DEF CallsAreAnswered

\* Every call is answered once: by the loop, or by the settlement of its visit,
\* until which it stands in the publication that the settlement reads.
THEOREM EveryCallIsAnswered ==
    ASSUME Parameters
    PROVE  Spec => []CallsAreAnswered
<1>1. ToolInvariant => CallsAreAnswered
  BY AnsweredOnce
<1> QED BY <1>1, ToolInvariantHolds, PTL

(***************************************************************************)
(* What is sent                                                            *)
(***************************************************************************)
\* The website executes what was sent; nothing else changes there by itself.
Executes(u) == site[u] = "sent" /\ site'[u] \in {"performed", "refused"}

\* A unit is sent once, by the visit's own loop, before any stop and before it
\* is answered, and the step that sends it is the one that records it.  This
\* loop may have lost its authority to a hung transition: its call is then open
\* until the recovery, which finds the record.
SentAndRecorded(u) ==
    /\ site[u] = "untouched" /\ told[u] = <<>>
    /\ InVisit(u[1]) /\ ~stop
    /\ pending' = [response |-> u[1], call |-> u[2], stage |-> "dispatched"]

\* The recorded stage never lags behind what the website was sent: no reset,
\* stop or take-over falls between the two (markPendingToolDispatched is the
\* last thing before the request).
SendsAreRecorded == [][\A u \in Units : site'[u] # site[u] => Executes(u) \/ SentAndRecorded(u)]_vars

\* Few steps touch the website.
LEMMA SiteMoves ==
    ASSUME TypeOK, [Next]_vars
    PROVE  \/ UNCHANGED site
           \/ \E r \in Responses : WriteNote(r)
           \/ \E u \in Units : Dispatch(u)
           \/ \E u \in Units : SiteExecutes(u, "performed") \/ SiteExecutes(u, "refused")
<1>1. ASSUME NEW r \in Responses, LoopStep(r)
      PROVE  WriteNote(r) \/ UNCHANGED site
  BY <1>1 DEF LoopStep, Respond, ResponseAccepted, Interrupted, Interrupt, StopBeforeCall, DropCall,
     MalformedCall, BeginCall, FailureIsTold, FailureIsLost, LeaseRenewed, LeaseLost, LeaseFails,
     PreparationStops, PreparationFails, StartReading, CorrectCall, PrepareRequest, RequestFails,
     Returned, NextTarget, CommittedIssue, Refused, OutcomeUnknown, ReadFails, ResultIsTold,
     BatchIsTold, LeaseKept, LeaseGone, RenewalThrows, DropRest, SiblingIsTold, SiblingsAreTold,
     EndOfCalls, VisitEnds, finalizeRun, Perish, worldVars
<1>2. ASSUME NEW u \in Units, RequestStep(u)
      PROVE  \/ Dispatch(u) \/ UNCHANGED site
             \/ SiteExecutes(u, "performed") \/ SiteExecutes(u, "refused")
  BY <1>2 DEF RequestStep, StrayEnds, DispatchStopped
<1>3. CASE \/ reconcileRunJournal \/ AskStop \/ abortHungTransition \/ ResetsItself \/ Crash
          \/ Finished \/ UNCHANGED vars
  BY <1>3 DEF reconcileRunJournal, AskStop, abortHungTransition, ResetsItself, Crash, Reset, Finished,
     worldVars, vars
<1> QED BY <1>1, <1>2, <1>3 DEF Next

\* A note and a request are recorded as they are made.
LEMMA WritesAreRecorded ==
    ASSUME Parameters, ToolInvariant, NEW r \in Responses, NEW outcome \in {"sent", "performed"},
           at[r] \in {"preparing", "hashing"}, InVisit(r), ~stop, Mark(r, "dispatched"),
           NEW n \in 1..BatchSize, site' = [site EXCEPT ![Unit(r, n)] = outcome],
           site[Unit(r, n)] = "untouched"
    PROVE  \A u \in Units : site'[u] # site[u] => SentAndRecorded(u)
<1>1. /\ TypeOK /\ pending.response = r /\ pending.call = call[r]
      /\ told[Unit(r, n)] = <<>>
  BY CallAtHand DEF LoopShape, PendingShape, CallSteps
<1>2. pending' = [response |-> r, call |-> call[r], stage |-> "dispatched"]
  BY <1>1, MarkIs
<1>3. \A u \in Units : site'[u] # site[u] => u = Unit(r, n)
  BY <1>1 DEF TypeOK
<1>4. SentAndRecorded(Unit(r, n))
  BY <1>1, <1>2 DEF SentAndRecorded, Unit
<1> QED BY <1>3, <1>4

\* Whatever is sent is recorded by the step that sends it, once, while its call
\* is not answered, whether or not the loop that sends it may still answer it.
THEOREM NothingIsSentUnrecorded ==
    ASSUME Parameters
    PROVE  Spec => SendsAreRecorded
<1>1. ASSUME ToolInvariant, [Next]_vars
      PROVE  \A u \in Units : site'[u] # site[u] => Executes(u) \/ SentAndRecorded(u)
  <2>1. TypeOK
    BY <1>1 DEF ToolInvariant, JournalInvariant
  <2>2. ASSUME NEW r \in Responses, WriteNote(r)
        PROVE  \A u \in Units : site'[u] # site[u] => SentAndRecorded(u)
    <3>1. /\ at[r] = "preparing" /\ at[r] \in CallSteps /\ InVisit(r) /\ ~stop
          /\ Mark(r, "dispatched") /\ site' = [site EXCEPT ![Current(r)] = "performed"]
      BY <2>2 DEF WriteNote, CallSteps, Stopped
    <3>2. /\ 1 \in 1..BatchSize /\ \A i \in 1..BatchSize : fate[Unit(r, i)] = "none"
          /\ site[Unit(r, 1)] = "untouched"
      BY <1>1, <3>1, CallAtHand DEF LoopShape, PendingShape, CallShape, CallSteps
    <3>3. Current(r) = Unit(r, 1)
      BY <3>2, CurrentIs
    <3>4. site' = [site EXCEPT ![Unit(r, 1)] = "performed"] /\ at[r] \in {"preparing", "hashing"}
      BY <3>1, <3>3
    <3> QED BY <1>1, <3>1, <3>2, <3>4, WritesAreRecorded
  <2>3. ASSUME NEW q \in Units, Dispatch(q)
        PROVE  \A u \in Units : site'[u] # site[u] => SentAndRecorded(u)
    <3>1. PICK r \in Responses : r = q[1]
      BY UnitParts
    <3>2. /\ at[r] = "hashing" /\ InVisit(r) /\ ~stop /\ q = Current(r)
          /\ Mark(r, "dispatched") /\ site' = [site EXCEPT ![Current(r)] = "sent"]
      BY <2>3, <3>1 DEF Dispatch, MayDispatch, Awaited, Stopped
    <3>3. PICK n \in 1..BatchSize : TargetShape(r, n) /\ Current(r) = Unit(r, n)
      BY <1>1, <3>2, TargetAtHand
    <3>4. site[Unit(r, n)] = "untouched"
      BY <3>2, <3>3 DEF TargetShape
    <3>5. site' = [site EXCEPT ![Unit(r, n)] = "sent"] /\ at[r] \in {"preparing", "hashing"}
      BY <3>2, <3>3
    <3> QED BY <1>1, <3>2, <3>4, <3>5, WritesAreRecorded
  <2>4. ASSUME NEW q \in Units, SiteExecutes(q, "performed") \/ SiteExecutes(q, "refused")
        PROVE  \A u \in Units : site'[u] # site[u] => Executes(u)
    BY <2>1, <2>4 DEF SiteExecutes, Executes, TypeOK
  <2> QED BY <1>1, <2>1, <2>2, <2>3, <2>4, SiteMoves
<1>2. ToolInvariant /\ [Next]_vars
      => [\A u \in Units : site'[u] # site[u] => Executes(u) \/ SentAndRecorded(u)]_vars
  BY <1>1
<1> QED BY <1>2, ToolInvariantHolds, PTL DEF Spec, SendsAreRecorded
=============================================================================
