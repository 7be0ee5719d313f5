-------------------------- MODULE SpotlightProofs --------------------------
(***************************************************************************)
(* Proofs about SpotlightDelivery: no thought is told twice, and a         *)
(* spotlight recorded as delivered is accounted for, for any number of     *)
(* spotlights and requests and any bound.                                  *)
(***************************************************************************)
EXTENDS SpotlightInvariant, TLAPS, FiniteSetTheorems, WellFoundedInduction

(***************************************************************************)
(* The queue.                                                              *)
(***************************************************************************)
\* A set of natural numbers has a smallest one.
LEMMA Smallest ==
  ASSUME NEW S \in SUBSET Nat, S # {}
  PROVE  \E x \in S : \A y \in S : x <= y
<1>1. PICK x \in S : \A y \in S : ~(<<y, x>> \in OpToRel(<, Nat))
  BY WFMin, NatLessThanWellFounded, Zenon
<1>2. \A y \in S : ~(y < x)
  BY <1>1 DEF OpToRel
<1> QED
  BY <1>2

Holds(entries, s) == \E i \in DOMAIN entries : entries[i] = s

\* What is kept of a list is in it, and nothing else that is wanted is lost.
LEMMA KeptEntries ==
  ASSUME NEW T, NEW entries \in Seq(T), NEW S
  PROVE  /\ Kept(entries, S) \in Seq(T)
         /\ \A s : Holds(Kept(entries, S), s) <=> s \in S /\ Holds(entries, s)
<1> DEFINE up(i) == {j \in 1..i : entries[j] \in S}
           rank == [i \in 0..Len(entries) |-> Cardinality(up(i))]
           size == Len(entries)
<1>1. size \in Nat /\ DOMAIN entries = 1..size /\ \A i \in 1..size : entries[i] \in T
  OBVIOUS
<1>2. ASSUME NEW i \in Nat PROVE IsFiniteSet(up(i)) /\ Cardinality(up(i)) \in Nat
  <2>1. IsFiniteSet(1..i)
    BY FS_Interval
  <2>2. up(i) \in SUBSET (1..i)
    OBVIOUS
  <2> QED
    BY <2>1, <2>2, FS_Subset, FS_CardinalityType
<1>3. Cardinality(up(0)) = 0
  <2>1. up(0) = {}
    OBVIOUS
  <2> QED
    BY <2>1, FS_EmptySet
<1>4. ASSUME NEW i \in Nat, i # 0, entries[i] \in S
      PROVE  Cardinality(up(i)) = Cardinality(up(i - 1)) + 1
  <2>1. up(i) = up(i - 1) \cup {i} /\ i \notin up(i - 1) /\ i - 1 \in Nat
    BY <1>4
  <2> HIDE DEF up
  <2> QED
    BY <1>2, <2>1, FS_AddElement
<1>5. ASSUME NEW i \in Nat, i # 0, entries[i] \notin S
      PROVE  Cardinality(up(i)) = Cardinality(up(i - 1))
  <2>1. up(i) = up(i - 1)
    BY <1>5
  <2> QED
    BY <2>1
<1>6. ASSUME NEW i \in Nat, NEW j \in Nat, i <= j
      PROVE  Cardinality(up(i)) <= Cardinality(up(j))
  <2>1. up(i) \in SUBSET up(j)
    BY <1>6
  <2> HIDE DEF up
  <2> QED
    BY <1>2, <2>1, FS_Subset
<1> HIDE DEF up
<1>7. rank \in [0..size -> Nat] /\ \A i \in 0..size : rank[i] = Cardinality(up(i))
  BY <1>1, <1>2
<1>8. rank[0] = 0
  BY <1>1, <1>3, <1>7
<1>9. ASSUME NEW i \in 1..size
      PROVE  /\ i - 1 \in 0..size /\ i \in 0..size
             /\ rank[i] = IF entries[i] \in S THEN rank[i - 1] + 1 ELSE rank[i - 1]
  <2>1. i - 1 \in 0..size /\ i \in 0..size /\ i \in Nat /\ i # 0
    BY <1>1
  <2> QED
    BY <1>4, <1>5, <1>7, <2>1
<1>10. ASSUME NEW i \in 0..size, NEW j \in 0..size, i <= j PROVE rank[i] <= rank[j]
  <2>1. i \in Nat /\ j \in Nat
    BY <1>1
  <2> QED
    BY <1>6, <1>7, <1>10, <2>1
<1> HIDE DEF rank
<1> DEFINE At(n, i) == i \in DOMAIN entries /\ entries[i] \in S /\ rank[i] = n
\* Places of the same rank are the same.
<1>11. ASSUME NEW i \in 1..size, NEW j \in 1..size, entries[j] \in S, rank[i] = rank[j]
       PROVE  ~(i < j)
  <2>1. SUFFICES ASSUME i < j PROVE FALSE
    OBVIOUS
  <2>2. i <= j - 1 /\ j - 1 \in 0..size /\ i \in 0..size /\ j \in 0..size
    BY <1>1, <2>1
  <2>3. rank[i] <= rank[j - 1] /\ rank[j] = rank[j - 1] + 1
    BY <1>9, <1>10, <1>11, <2>2
  <2> QED
    BY <1>7, <1>11, <2>2, <2>3
<1>12. ASSUME NEW i \in DOMAIN entries, entries[i] \in S
       PROVE  /\ rank[i] \in 1..rank[size]
              /\ (CHOOSE j \in DOMAIN entries : entries[j] \in S /\ rank[j] = rank[i]) = i
  <2>1. i \in 1..size /\ i \in 0..size /\ size \in 0..size /\ i <= size
    BY <1>1
  <2>2. rank[i] <= rank[size] /\ rank[i] = rank[i - 1] + 1 /\ i - 1 \in 0..size
    BY <1>9, <1>10, <1>12, <2>1
  <2>3. rank[i] \in 1..rank[size]
    BY <1>7, <2>1, <2>2
  <2>4. \A j \in DOMAIN entries : entries[j] \in S /\ rank[j] = rank[i] => j = i
    BY <1>1, <1>11, <1>12, <2>1
  <2> QED
    BY <1>12, <2>3, <2>4
\* The first place that reaches a rank has it.
<1>13. ASSUME NEW n \in 1..rank[size]
       PROVE  \E i \in DOMAIN entries : entries[i] \in S /\ rank[i] = n
  <2> DEFINE reach == {i \in 0..size : n <= rank[i]}
  <2>1. size \in 0..size /\ rank[size] \in Nat
    BY <1>1, <1>7
  <2>2. n <= rank[size] /\ n \in Nat /\ n >= 1
    BY <2>1
  <2>3. reach \in SUBSET Nat /\ reach # {}
    BY <1>1, <2>1, <2>2
  <2>4. PICK i \in reach : \A j \in reach : i <= j
    BY <2>3, Smallest
  <2>5. i \in 1..size
    BY <1>1, <1>8, <2>2, <2>4
  <2>6. i - 1 \notin reach /\ i - 1 \in 0..size
    BY <1>1, <2>4, <2>5
  <2>7. rank[i - 1] < n /\ n <= rank[i]
    BY <1>7, <2>2, <2>4, <2>6
  <2>8. entries[i] \in S /\ rank[i] = rank[i - 1] + 1
    BY <1>7, <1>9, <2>2, <2>5, <2>7, <2>6
  <2>9. rank[i] = n
    BY <1>7, <2>2, <2>6, <2>7, <2>8
  <2> QED
    BY <1>1, <2>5, <2>8, <2>9
<1> DEFINE kept == [n \in 1..rank[size] |->
                      entries[CHOOSE i \in DOMAIN entries : entries[i] \in S /\ rank[i] = n]]
<1>14. Kept(entries, S) = kept
  BY DEF Kept, rank, up
<1>15. ASSUME NEW n \in 1..rank[size]
       PROVE  \E i \in DOMAIN entries : entries[i] \in S /\ kept[n] = entries[i]
  BY <1>13, <1>15
<1>16. kept \in Seq(T) /\ DOMAIN kept = 1..rank[size]
  <2>1. rank[size] \in Nat
    BY <1>1, <1>7
  <2>2. \A n \in 1..rank[size] : kept[n] \in T
    BY <1>1, <1>15
  <2>3. kept = [n \in 1..rank[size] |-> kept[n]]
    OBVIOUS
  <2> HIDE DEF kept
  <2> QED
    BY <2>1, <2>2, <2>3
<1>17. ASSUME NEW s, Holds(kept, s) PROVE s \in S /\ Holds(entries, s)
  <2>1. PICK n \in 1..rank[size] : kept[n] = s
    BY <1>16, <1>17 DEF Holds
  <2>2. PICK i \in DOMAIN entries : entries[i] \in S /\ kept[n] = entries[i]
    BY <1>15
  <2> QED
    BY <2>1, <2>2 DEF Holds
<1>18. ASSUME NEW s, s \in S, Holds(entries, s) PROVE Holds(kept, s)
  <2>1. PICK i \in DOMAIN entries : entries[i] = s
    BY <1>18 DEF Holds
  <2>2. kept[rank[i]] = s /\ rank[i] \in DOMAIN kept
    BY <1>12, <1>16, <1>18, <2>1
  <2> QED
    BY <2>2 DEF Holds
<1> QED
  BY <1>14, <1>16, <1>17, <1>18

\* What a list holds when an entry is put at its end or its front, or taken off.
LEMMA ListEnds ==
  ASSUME NEW T, NEW entries \in Seq(T), NEW s \in T
  PROVE  /\ Append(entries, s) \in Seq(T) /\ <<s>> \o entries \in Seq(T)
         /\ \A t : Holds(Append(entries, s), t) <=> t = s \/ Holds(entries, t)
         /\ \A t : Holds(<<s>> \o entries, t) <=> t = s \/ Holds(entries, t)
<1>1. Len(entries) \in Nat /\ DOMAIN entries = 1..Len(entries)
  OBVIOUS
<1>2. ASSUME NEW t PROVE Holds(Append(entries, s), t) <=> t = s \/ Holds(entries, t)
  <2> DEFINE longer == Append(entries, s)
  <2>1. /\ DOMAIN longer = 1..(Len(entries) + 1) /\ longer[Len(entries) + 1] = s
        /\ \A i \in DOMAIN entries : longer[i] = entries[i] /\ i \in DOMAIN longer
        /\ \A i \in DOMAIN longer : i = Len(entries) + 1 \/ i \in DOMAIN entries
    BY <1>1
  <2> HIDE DEF longer
  <2>2. Len(entries) + 1 \in DOMAIN longer
    BY <1>1, <2>1
  <2>3. Holds(longer, t) <=> t = s \/ Holds(entries, t)
    BY <2>1, <2>2 DEF Holds
  <2> QED
    BY <2>3 DEF longer
<1>3. ASSUME NEW t PROVE Holds(<<s>> \o entries, t) <=> t = s \/ Holds(entries, t)
  <2> DEFINE longer == <<s>> \o entries
  <2>1. /\ DOMAIN longer = 1..(Len(entries) + 1) /\ longer[1] = s
        /\ \A i \in DOMAIN entries : longer[i + 1] = entries[i] /\ i + 1 \in DOMAIN longer
    BY <1>1
  <2>2. \A i \in DOMAIN longer : i = 1 \/ (i - 1 \in DOMAIN entries /\ longer[i] = entries[i - 1])
    BY <1>1
  <2> HIDE DEF longer
  <2>3. 1 \in DOMAIN longer
    BY <1>1, <2>1
  <2>4. Holds(longer, t) <=> t = s \/ Holds(entries, t)
    BY <2>1, <2>2, <2>3 DEF Holds
  <2> QED
    BY <2>4 DEF longer
<1> QED
  BY <1>2, <1>3

\* A list holds its first entry and what the others are.
LEMMA ListParts ==
  ASSUME NEW T, NEW entries \in Seq(T), entries # <<>>
  PROVE  /\ Head(entries) \in T /\ Tail(entries) \in Seq(T)
         /\ \A t : Holds(entries, t) <=> t = Head(entries) \/ Holds(Tail(entries), t)
<1>1. Len(entries) \in Nat \ {0} /\ DOMAIN entries = 1..Len(entries) /\ Head(entries) = entries[1]
  OBVIOUS
<1>2. /\ Head(entries) \in T /\ Tail(entries) \in Seq(T)
      /\ DOMAIN Tail(entries) = 1..(Len(entries) - 1)
      /\ \A i \in 1..(Len(entries) - 1) : Tail(entries)[i] = entries[i + 1]
  BY <1>1
<1>3. ASSUME NEW t PROVE Holds(entries, t) <=> t = Head(entries) \/ Holds(Tail(entries), t)
  <2>1. ASSUME Holds(entries, t) PROVE t = Head(entries) \/ Holds(Tail(entries), t)
    <3>1. PICK i \in 1..Len(entries) : entries[i] = t
      BY <1>1, <2>1 DEF Holds
    <3>2. CASE i = 1
      BY <1>1, <3>1, <3>2
    <3>3. CASE i # 1
      <4>1. i - 1 \in 1..(Len(entries) - 1) /\ (i - 1) + 1 = i
        BY <1>1, <3>1, <3>3
      <4> QED
        BY <1>2, <3>1, <4>1 DEF Holds
    <3> QED
      BY <3>2, <3>3
  <2>2. ASSUME t = Head(entries) PROVE Holds(entries, t)
    BY <1>1, <2>2 DEF Holds
  <2>3. ASSUME Holds(Tail(entries), t) PROVE Holds(entries, t)
    <3>1. PICK i \in 1..(Len(entries) - 1) : entries[i + 1] = t
      BY <1>2, <2>3 DEF Holds
    <3>2. i + 1 \in DOMAIN entries
      BY <1>1
    <3> QED
      BY <3>1, <3>2 DEF Holds
  <2> QED
    BY <2>1, <2>2, <2>3
<1> QED
  BY <1>2, <1>3

\* The empty list holds nothing.
LEMMA NothingHeld == \A t : ~Holds(<<>>, t)
BY DEF Holds

\* What is queued after an operation of the queue.
LEMMA QueueOperations ==
  ASSUME queue \in Seq(Spotlights), NEW s \in Spotlights
  PROVE  /\ Appended(s) \in Seq(Spotlights) /\ Prepended(s) \in Seq(Spotlights)
         /\ Kept(queue, Spotlights \ {s}) \in Seq(Spotlights)
         /\ \A t \in Spotlights :
              /\ Holds(Appended(s), t) <=> t = s \/ Queued(t)
              /\ Holds(Prepended(s), t) <=> t = s \/ Queued(t)
              /\ Holds(Kept(queue, Spotlights \ {s}), t) <=> t # s /\ Queued(t)
<1>1. \A t : Queued(t) <=> Holds(queue, t)
  BY DEF Queued, Holds
<1>2. /\ Kept(queue, Spotlights \ {s}) \in Seq(Spotlights)
      /\ \A t \in Spotlights : Holds(Kept(queue, Spotlights \ {s}), t) <=> t # s /\ Queued(t)
  BY <1>1, KeptEntries
<1>3. /\ Prepended(s) \in Seq(Spotlights)
      /\ \A t \in Spotlights : Holds(Prepended(s), t) <=> t = s \/ Queued(t)
  BY <1>2, ListEnds DEF Prepended
<1>4. /\ Appended(s) \in Seq(Spotlights)
      /\ \A t \in Spotlights : Holds(Appended(s), t) <=> t = s \/ Queued(t)
  BY <1>1, ListEnds DEF Appended
<1> QED
  BY <1>2, <1>3, <1>4

\* The drain takes the first entry that is still unread, and drops only entries
\* that are not.
LEMMA WaitingEntries ==
  ASSUME queue \in Seq(Spotlights)
  PROVE  /\ Waiting \in Seq(Spotlights)
         /\ \A t \in Spotlights : Holds(Waiting, t) <=> injection[t] = "unread" /\ Queued(t)
<1>1. \A t : Queued(t) <=> Holds(queue, t)
  BY DEF Queued, Holds
<1> QED
  BY <1>1, KeptEntries DEF Waiting

(***************************************************************************)
(* Most steps record no thought, tell none and lose none.                  *)
(***************************************************************************)
\* What such a step may do to requests, rows, and to what is owed.
CalmStep ==
  /\ UNCHANGED <<injection, told, expired>>
  /\ \A r \in Requests :
       /\ request'[r] = "waiting" => r \in asked'
       /\ request[r] \in {"idle", "done"} /\ Spotlight(r) \in expired => request'[r] \in {"idle", "done"}
  /\ \A s \in Spotlights :
       /\ s \in dropped => s \in dropped' \/ (injection[s] = "unread" /\ Owed(s)')
       /\ Recorded(s)' => Recorded(s)
       /\ Started(s)' => Started(s) \/ Owed(s)' \/ s \in dropped'
       /\ Owed(s) => Owed(s)' \/ told[s] > 0 \/ s \in dropped'

LEMMA CalmKeeps ==
  ASSUME SpotlightInvariant, TypeOK', VisitShape', CalmStep PROVE SpotlightInvariant'
<1>1. injection' = injection /\ told' = told /\ expired' = expired
  BY DEF CalmStep
<1>2. expired \in SUBSET Spotlights
  BY DEF SpotlightInvariant, TypeOK
<1>3. ToldShape'
  BY <1>1 DEF SpotlightInvariant, ToldShape
<1>4. ExpiredShape'
  <2>1. \A s \in expired : injection[s] = "none" /\ s \in dropped'
    BY <1>2 DEF CalmStep, SpotlightInvariant, ExpiredShape
  <2>2. ASSUME NEW s \in expired, NEW r \in Requests, Spotlight(r) = s
        PROVE  request'[r] \in {"idle", "done"}
    BY <2>2 DEF CalmStep, SpotlightInvariant, ExpiredShape
  <2> QED
    BY <1>1, <2>1, <2>2 DEF ExpiredShape
<1>5. LostShape'
  <2> SUFFICES ASSUME NEW s \in Spotlights, injection[s] = "none", Recorded(s)' PROVE s \in dropped'
    BY <1>1 DEF LostShape
  <2>1. s \in dropped
    BY DEF CalmStep, SpotlightInvariant, LostShape
  <2> QED
    BY <2>1 DEF CalmStep
<1>6. AccountedShape'
  <2>1. \A r \in Requests : request'[r] = "waiting" => r \in asked'
    BY DEF CalmStep
  <2>2. ASSUME NEW s \in Spotlights, Started(s)' PROVE told'[s] > 0 \/ Owed(s)' \/ s \in dropped'
    <3>1. Started(s) => told[s] > 0 \/ Owed(s) \/ s \in dropped
      BY DEF SpotlightInvariant, AccountedShape
    <3> QED
      BY <1>1, <2>2, <3>1 DEF CalmStep
  <2> QED
    BY <2>1, <2>2 DEF AccountedShape
<1> QED
  BY <1>3, <1>4, <1>5, <1>6 DEF SpotlightInvariant

\* What holds the spotlights is left alone.
HoldersKept == UNCHANGED <<queue, drains, visit, asked>>

LEMMA HoldersOwe ==
  ASSUME HoldersKept PROVE \A s : Owed(s)' <=> Owed(s)
BY DEF HoldersKept, Owed, Queued, Draining, Visiting, Asking

LEMMA RequestSpotlights == \A r \in Requests : Spotlight(r) \in Spotlights
BY DEF Requests, Spotlight

\* Advancing a request and writing its row.
LEMMA SenderCalm ==
  ASSUME SpotlightInvariant, NEW r \in Requests, NEW stage \in RequestStages \ {"waiting", "started", "pending"},
         Advance(r, stage), HoldersKept, UNCHANGED <<injection, told, expired, dropped>>,
         stage \in {"planned", "skipping", "done"} \/ request[r] \in PastInjection,
         stage = "done" \/ Spotlight(r) \notin expired,
         NEW status \in RowStates,
         row' \in {row, [row EXCEPT ![Spotlight(r)] = status]},
         status \in CompletedStatuses => request[r] \in {"started", "pending"}
  PROVE  CalmStep
<1>1. request \in [Requests -> RequestStages] /\ row \in [Spotlights -> RowStates]
  BY DEF SpotlightInvariant, TypeOK
<1>2. \A q \in Requests : request'[q] = IF q = r THEN stage ELSE request[q]
  BY <1>1 DEF Advance
<1>3. \A s \in Spotlights : row'[s] = row[s] \/ (s = Spotlight(r) /\ row'[s] = status)
  BY <1>1
<1>4. \A q \in Requests :
        /\ request'[q] = "waiting" => q \in asked'
        /\ request[q] \in {"idle", "done"} /\ Spotlight(q) \in expired => request'[q] \in {"idle", "done"}
  BY <1>2 DEF SpotlightInvariant, AccountedShape, HoldersKept
<1>5. \A s : Owed(s)' <=> Owed(s)
  BY HoldersOwe
<1>6. ASSUME NEW s \in Spotlights PROVE Recorded(s)' => Recorded(s)
  <2>1. ASSUME row'[s] \in CompletedStatuses PROVE Recorded(s)
    BY <1>3, <2>1 DEF Recorded, PastInjection
  <2>2. ASSUME NEW q \in Requests, Spotlight(q) = s, request'[q] \in PastInjection PROVE Recorded(s)
    BY <1>2, <2>2 DEF Recorded, PastInjection
  <2> QED
    BY <1>5, <2>1, <2>2 DEF Recorded
<1>7. ASSUME NEW s \in Spotlights PROVE Started(s)' => Started(s)
  <2>1. ASSUME row'[s] \in CompletedStatuses PROVE Started(s)
    BY <1>3, <2>1 DEF Started
  <2>2. ASSUME NEW q \in Requests, Spotlight(q) = s, request'[q] \in {"started", "pending"} PROVE Started(s)
    BY <1>2, <2>2 DEF Started
  <2> QED
    BY <2>1, <2>2 DEF Started
<1> QED
  BY <1>4, <1>5, <1>6, <1>7 DEF CalmStep

\* The steps of a sender but those that record a thought or ask for a visit.
LEMMA SenderKeeps ==
  ASSUME Parameters, SpotlightInvariant, NEW r \in Requests,
         \/ Send(r) \/ SkipPaused(r) \/ RecordUnconfirmed(r) \/ SenderEnds(r)
         \/ StartUnanswered(r) \/ RecordOutcome(r)
  PROVE  SpotlightInvariant'
<1> USE DEF queueVars, stateVars, HoldersKept
<1>0. Spotlight(r) \in Spotlights /\ request[r] \in RequestStages /\ "done" \in RequestStages
  BY RequestSpotlights DEF SpotlightInvariant, TypeOK, RequestStages
<1>1. ASSUME NEW stage \in RequestStages, Advance(r, stage), row' \in [Spotlights -> RowStates],
             UNCHANGED <<injection, asked, visit, told, dropped, queueVars, stateVars>>,
             faults' \in Nat
      PROVE  TypeOK' /\ VisitShape'
  BY <1>1 DEF SpotlightInvariant, TypeOK, VisitShape, Advance, NoVisit
<1>2. row \in [Spotlights -> RowStates] /\ faults \in Nat /\ row[Spotlight(r)] \in RowStates
      /\ \A status \in RowStates : [row EXCEPT ![Spotlight(r)] = status] \in [Spotlights -> RowStates]
  BY <1>0 DEF SpotlightInvariant, TypeOK
<1>3. faults' \in Nat
  BY <1>2 DEF Send, SkipPaused, RecordUnconfirmed, SenderEnds, StartUnanswered, RecordOutcome, Fault
<1>4. request[r] \in {"idle", "done"} \/ Spotlight(r) \notin expired
  BY DEF SpotlightInvariant, ExpiredShape
<1>5. CASE Send(r)
  <2> DEFINE stage == IF row[Spotlight(r)] \in CompletedStatuses THEN "done"
                      ELSE IF paused THEN "skipping" ELSE "planned"
  <2>1. stage \in RequestStages /\ stage \in {"planned", "skipping", "done"}
    BY DEF RequestStages
  <2>2. /\ Advance(r, stage) /\ Spotlight(r) \notin expired
        /\ UNCHANGED <<row, injection, asked, visit, told, dropped, queueVars, stateVars>>
    BY <1>5 DEF Send
  <2> HIDE DEF stage
  <2>3. "none" \in RowStates /\ "none" \notin CompletedStatuses /\ row' = row
    BY <2>2 DEF RowStates, CompletedStatuses
  <2>4. stage \notin {"waiting", "started", "pending"}
    BY <2>1
  <2>5. CalmStep
    BY <2>1, <2>2, <2>3, <2>4, SenderCalm
  <2> QED
    BY <1>1, <1>2, <1>3, <2>1, <2>2, <2>5, CalmKeeps
<1>6. CASE SkipPaused(r) \/ SenderEnds(r)
  <2>1. /\ Advance(r, "done") /\ row' \in {row, [row EXCEPT ![Spotlight(r)] = "not_injected"]}
        /\ UNCHANGED <<injection, asked, visit, told, dropped, queueVars, stateVars>>
    BY <1>6 DEF SkipPaused, SenderEnds
  <2>2. CalmStep
    BY <1>0, <2>1, SenderCalm DEF RowStates, CompletedStatuses
  <2> QED
    BY <1>0, <1>1, <1>2, <1>3, <2>1, <2>2, CalmKeeps DEF RowStates
<1>7. CASE RecordUnconfirmed(r)
  <2>1. /\ Advance(r, "recorded") /\ row' = [row EXCEPT ![Spotlight(r)] = "injected_tick_failed"]
        /\ UNCHANGED <<injection, asked, visit, told, dropped, queueVars, stateVars>>
        /\ request[r] = "injected" /\ "recorded" \in RequestStages
    BY <1>7 DEF RecordUnconfirmed, RequestStages
  <2>2. CalmStep
    BY <1>4, <2>1, SenderCalm DEF RowStates, CompletedStatuses, PastInjection
  <2> QED
    BY <1>1, <1>2, <1>3, <2>1, <2>2, CalmKeeps DEF RowStates
<1>8. CASE StartUnanswered(r)
  <2>1. /\ Advance(r, "failed") /\ row' = row
        /\ UNCHANGED <<injection, asked, visit, told, dropped, queueVars, stateVars>>
        /\ request[r] \in {"waiting", "started", "pending"} /\ "failed" \in RequestStages
    BY <1>8 DEF StartUnanswered, RequestStages
  <2>2. CalmStep
    BY <1>4, <2>1, SenderCalm DEF RowStates, CompletedStatuses, PastInjection
  <2> QED
    BY <1>1, <1>2, <1>3, <2>1, <2>2, CalmKeeps
<1>9. CASE RecordOutcome(r)
  <2> DEFINE status == Outcome[request[r]]
  <2>1. /\ Advance(r, "done") /\ row' = [row EXCEPT ![Spotlight(r)] = status]
        /\ UNCHANGED <<injection, asked, visit, told, dropped, queueVars, stateVars>>
    BY <1>9 DEF RecordOutcome
  <2>2. status \in RowStates /\ (status \in CompletedStatuses => request[r] \in {"started", "pending"})
    BY <1>9 DEF RecordOutcome, Outcome, RowStates, CompletedStatuses
  <2> HIDE DEF status
  <2>3. CalmStep
    BY <1>0, <2>1, <2>2, SenderCalm
  <2> QED
    BY <1>0, <1>1, <1>2, <1>3, <2>1, <2>2, <2>3, CalmKeeps
<1> QED
  BY <1>5, <1>6, <1>7, <1>8, <1>9

(***************************************************************************)
(* What the participant owes a spotlight changes hands.                    *)
(***************************************************************************)
\* Enough for a step to be calm that writes no row.
LEMMA OwedCalm ==
  ASSUME SpotlightInvariant, UNCHANGED <<row, injection, told, expired>>,
         \A q \in Requests :
           /\ request'[q] = request[q] \/ (request[q] \in PastInjection /\ request'[q] \in PastInjection)
           /\ request'[q] = "waiting" => q \in asked'
           /\ request'[q] \in {"started", "pending"} =>
                request'[q] = request[q] \/ Owed(Spotlight(q))',
         \A s \in Spotlights :
           /\ s \in dropped => s \in dropped' \/ (injection[s] = "unread" /\ Owed(s)')
           /\ Owed(s)' => Recorded(s)
           /\ Owed(s) => Owed(s)' \/ told[s] > 0 \/ s \in dropped'
  PROVE  CalmStep
<1>1. \A q \in Requests :
        request[q] \in {"idle", "done"} /\ Spotlight(q) \in expired => request'[q] \in {"idle", "done"}
  BY DEF PastInjection
<1>2. ASSUME NEW s \in Spotlights PROVE Recorded(s)' => Recorded(s)
  <2>1. ASSUME NEW q \in Requests, Spotlight(q) = s, request'[q] \in PastInjection PROVE Recorded(s)
    BY <2>1 DEF Recorded
  <2>2. row'[s] \in CompletedStatuses => Recorded(s)
    BY DEF Recorded
  <2> QED
    BY <2>1, <2>2 DEF Recorded
<1>3. ASSUME NEW s \in Spotlights PROVE Started(s)' => Started(s) \/ Owed(s)'
  <2>1. ASSUME NEW q \in Requests, Spotlight(q) = s, request'[q] \in {"started", "pending"}
        PROVE  Started(s) \/ Owed(s)'
    BY <2>1 DEF Started
  <2>2. row'[s] \in CompletedStatuses => Started(s)
    BY DEF Started
  <2> QED
    BY <2>1, <2>2 DEF Started
<1> QED
  BY <1>1, <1>2, <1>3 DEF CalmStep

LEMMA QueuedHolds == \A s : (Queued(s) <=> Holds(queue, s)) /\ (Draining(s) <=> Holds(drains, s))
BY DEF Queued, Draining, Holds

\* A request that ends its injection asks for a visit, now or later.
LEMMA StartKeeps ==
  ASSUME SpotlightInvariant, NEW r \in Requests, StartDeferred(r) \/ StartNow(r)
  PROVE  SpotlightInvariant'
<1> DEFINE s == Spotlight(r)
<1>1. TypeOK /\ s \in Spotlights /\ Recorded(s)
  BY RequestSpotlights DEF SpotlightInvariant, StartDeferred, StartNow, Recorded, PastInjection
<1>2. Regained(s) \in SUBSET Spotlights /\ \A t \in dropped : t \in Regained(s) \/ (t = s /\ injection[t] = "unread")
  BY <1>1 DEF TypeOK, Regained
<1>3. VisitShape'
  BY DEF SpotlightInvariant, VisitShape, StartDeferred, StartNow, queueVars
<1>4. CASE StartDeferred(r)
  <2>1. /\ UNCHANGED <<row, injection, asked, drains, visit, tails, told, faults, maintenance, paused, expired>>
        /\ queue' = Appended(s) /\ dropped' = Regained(s) /\ Advance(r, "pending") /\ request[r] = "recorded"
    BY <1>4 DEF StartDeferred, stateVars
  <2>2. Appended(s) \in Seq(Spotlights)
        /\ \A t \in Spotlights : Holds(Appended(s), t) <=> t = s \/ Queued(t)
    BY <1>1, QueueOperations DEF TypeOK
  <2>3. TypeOK'
    BY <1>1, <1>2, <2>1, <2>2 DEF TypeOK, Advance, RequestStages
  <2>4. \A t \in Spotlights : Queued(t)' <=> t = s \/ Queued(t)
    BY <2>1, <2>2 DEF Queued, Holds
  <2>5. \A t \in Spotlights : Owed(t)' <=> t = s \/ Owed(t)
    BY <2>1, <2>4 DEF Owed, Draining, Visiting, Asking
  <2>6. \A q \in Requests : request'[q] = IF q = r THEN "pending" ELSE request[q]
    BY <1>1, <2>1 DEF TypeOK, Advance
  <2>7. \A q \in Requests :
           /\ request'[q] = request[q] \/ (request[q] \in PastInjection /\ request'[q] \in PastInjection)
           /\ request'[q] = "waiting" => q \in asked'
           /\ request'[q] \in {"started", "pending"} =>
                request'[q] = request[q] \/ Owed(Spotlight(q))'
    BY <1>1, <2>1, <2>5, <2>6 DEF PastInjection, SpotlightInvariant, AccountedShape
  <2>8. \A t \in Spotlights :
           /\ t \in dropped => t \in dropped' \/ (injection[t] = "unread" /\ Owed(t)')
           /\ Owed(t)' => Recorded(t)
           /\ Owed(t) => Owed(t)' \/ told[t] > 0 \/ t \in dropped'
    BY <1>1, <1>2, <2>1, <2>5 DEF Recorded
  <2>9. CalmStep
    BY <2>1, <2>7, <2>8, OwedCalm
  <2> QED
    BY <1>3, <2>3, <2>9, CalmKeeps
<1>5. CASE StartNow(r)
  <2>1. /\ UNCHANGED <<row, injection, queue, drains, visit, tails, told, faults, maintenance, paused, expired>>
        /\ asked' = asked \cup {r} /\ dropped' = Regained(s) /\ Advance(r, "waiting") /\ request[r] = "recorded"
    BY <1>5 DEF StartNow, stateVars, queueVars
  <2>2. TypeOK'
    BY <1>1, <1>2, <2>1 DEF TypeOK, Advance, RequestStages
  <2>3. \A t \in Spotlights : Asking(t)' <=> t = s \/ Asking(t)
    BY <2>1 DEF Asking
  <2>4. \A t \in Spotlights : Owed(t)' <=> t = s \/ Owed(t)
    BY <2>1, <2>3 DEF Owed, Draining, Visiting, Queued
  <2>5. \A q \in Requests : request'[q] = IF q = r THEN "waiting" ELSE request[q]
    BY <1>1, <2>1 DEF TypeOK, Advance
  <2>6. \A q \in Requests :
           /\ request'[q] = request[q] \/ (request[q] \in PastInjection /\ request'[q] \in PastInjection)
           /\ request'[q] = "waiting" => q \in asked'
           /\ request'[q] \in {"started", "pending"} =>
                request'[q] = request[q] \/ Owed(Spotlight(q))'
    BY <2>1, <2>5 DEF PastInjection, SpotlightInvariant, AccountedShape
  <2>7. \A t \in Spotlights :
           /\ t \in dropped => t \in dropped' \/ (injection[t] = "unread" /\ Owed(t)')
           /\ Owed(t)' => Recorded(t)
           /\ Owed(t) => Owed(t)' \/ told[t] > 0 \/ t \in dropped'
    BY <1>1, <1>2, <2>1, <2>4 DEF Recorded
  <2>8. CalmStep
    BY <2>1, <2>6, <2>7, OwedCalm
  <2> QED
    BY <1>3, <2>2, <2>8, CalmKeeps
<1> QED
  BY <1>4, <1>5

\* An answered request was waiting, or had stopped listening.
LEMMA AnswerStages ==
  ASSUME TypeOK, NEW r \in Requests, NEW stage \in PastInjection \ {"waiting"}, Answer(r, stage)
  PROVE  /\ request' \in [Requests -> RequestStages]
         /\ \A q \in Requests :
              \/ request'[q] = request[q] /\ (q = r => request'[q] # "waiting")
              \/ q = r /\ request[q] = "waiting" /\ request'[q] = stage
BY DEF TypeOK, Answer, PastInjection, RequestStages

\* The participant answers a request for a visit: it starts, it is queued, or
\* it is refused and the spotlight let go.
LEMMA AskKeeps ==
  ASSUME SpotlightInvariant, NEW r \in Requests, AskAdmitted(r) \/ AskQueued(r) \/ AskRefused(r)
  PROVE  SpotlightInvariant'
<1> DEFINE s == Spotlight(r)
<1>1. TypeOK /\ s \in Spotlights
  BY RequestSpotlights DEF SpotlightInvariant
<1>2. /\ r \in asked /\ asked' = asked \ {r} /\ drains' = drains /\ tails' = tails
      /\ UNCHANGED <<row, injection, told, expired, maintenance, paused>>
  BY DEF AskAdmitted, AskQueued, AskRefused, queueVars, stateVars
<1>3. PICK stage \in {"started", "pending", "failed"} :
        /\ Answer(r, stage) /\ faults' \in Nat
        /\ stage = "started" => visit' = Admitted(s, FALSE) /\ visit.stage = "none" /\ queue' = queue /\ dropped' = dropped
        /\ stage = "pending" => visit' = visit /\ queue' = Appended(s) /\ dropped' = dropped
        /\ stage = "failed" => visit' = visit /\ queue' = queue /\ dropped' = dropped \cup {s}
  <2>1. CASE AskAdmitted(r)
    BY <1>1, <2>1 DEF AskAdmitted, Busy, queueVars, TypeOK
  <2>2. CASE AskQueued(r)
    BY <1>1, <2>2 DEF AskQueued, TypeOK
  <2>3. CASE AskRefused(r)
    <3>1. faults' \in Nat
      BY <1>1, <2>3 DEF AskRefused, TypeOK, Fault
    <3> QED
      BY <2>3, <3>1 DEF AskRefused, queueVars
  <2> QED
    BY <2>1, <2>2, <2>3
<1>4. /\ request' \in [Requests -> RequestStages]
      /\ \A q \in Requests :
            \/ request'[q] = request[q] /\ (q = r => request'[q] # "waiting")
            \/ q = r /\ request[q] = "waiting" /\ request'[q] = stage
  BY <1>1, <1>3, AnswerStages DEF PastInjection
<1>5. Appended(s) \in Seq(Spotlights)
      /\ \A t \in Spotlights : Holds(Appended(s), t) <=> t = s \/ Queued(t)
  BY <1>1, QueueOperations DEF TypeOK
<1>6. Admitted(s, FALSE) \in [stage : VisitStages, spotlight : Spotlights \cup {NoSpotlight}, drained : BOOLEAN]
  BY <1>1 DEF Admitted, VisitStages
<1>7. TypeOK'
  BY <1>1, <1>2, <1>3, <1>4, <1>5, <1>6 DEF TypeOK
<1>8. VisitShape'
  BY <1>3 DEF SpotlightInvariant, VisitShape, Admitted
<1>9. \A t \in Spotlights : Queued(t)' <=> Queued(t) \/ (t = s /\ queue' = Appended(s) /\ stage = "pending")
                               \/ (t = s /\ Queued(t)')
  BY <1>3, <1>5 DEF Queued, Holds
<1>10. stage = "pending" => Queued(s)'
  BY <1>1, <1>3, <1>5 DEF Queued, Holds
<1>11. stage = "started" => Visiting(s)'
  BY <1>3 DEF Visiting, Admitted
<1>12. \A t \in Spotlights : Visiting(t) => Visiting(t)'
  BY <1>3 DEF Visiting
<1>13. \A t \in Spotlights : Visiting(t)' => Visiting(t) \/ t = s
  BY <1>3 DEF Visiting, Admitted
<1>14. \A t \in Spotlights : (Asking(t)' => Asking(t)) /\ (Asking(t) => Asking(t)' \/ t = s)
  BY <1>2 DEF Asking
<1>15. Asking(s)
  BY <1>2 DEF Asking
<1>16. \A t \in Spotlights : Draining(t)' <=> Draining(t)
  BY <1>2 DEF Draining
<1>17. stage \in {"started", "pending"} => Owed(s)'
  BY <1>10, <1>11 DEF Owed
<1>18. \A t \in Spotlights : Owed(t)' => Owed(t)
  BY <1>9, <1>13, <1>14, <1>15, <1>16 DEF Owed
<1>19. \A t \in Spotlights : Owed(t) => Owed(t)' \/ t = s
  BY <1>9, <1>12, <1>14, <1>16 DEF Owed
<1>20. stage = "failed" => s \in dropped'
  BY <1>3
<1>21. \A t \in Spotlights : t \in dropped => t \in dropped'
  BY <1>3
<1>22. \A q \in Requests :
           /\ request'[q] = request[q] \/ (request[q] \in PastInjection /\ request'[q] \in PastInjection)
           /\ request'[q] = "waiting" => q \in asked'
           /\ request'[q] \in {"started", "pending"} =>
                request'[q] = request[q] \/ Owed(Spotlight(q))'
  BY <1>2, <1>4, <1>17 DEF PastInjection, SpotlightInvariant, AccountedShape
<1>23. \A t \in Spotlights :
           /\ t \in dropped => t \in dropped' \/ (injection[t] = "unread" /\ Owed(t)')
           /\ Owed(t)' => Recorded(t)
           /\ Owed(t) => Owed(t)' \/ told[t] > 0 \/ t \in dropped'
  BY <1>17, <1>18, <1>19, <1>20, <1>21 DEF Recorded
<1>24. CalmStep
  BY <1>2, <1>22, <1>23, OwedCalm
<1> QED
  BY <1>7, <1>8, <1>24, CalmKeeps

\* A thought that is no longer unread was told, or is let go.
LEMMA ConsumedIsAccounted ==
  ASSUME SpotlightInvariant, NEW s \in Spotlights, Recorded(s), injection[s] # "unread"
  PROVE  told[s] > 0 \/ s \in dropped
<1>1. CASE injection[s] = "read"
  BY <1>1 DEF SpotlightInvariant, ToldShape
<1>2. CASE injection[s] = "none"
  BY <1>2 DEF SpotlightInvariant, LostShape
<1> QED
  BY <1>1, <1>2 DEF SpotlightInvariant, TypeOK

\* The steps of a drain: it takes a spotlight out of the queue, starts its
\* visit, puts it back or lets it go.
LEMMA StartDrainKeeps ==
  ASSUME SpotlightInvariant, StartDrain PROVE SpotlightInvariant'
<1>1. /\ UNCHANGED <<request, row, injection, asked, visit, told, dropped, faults,
                     maintenance, paused, expired>>
      /\ TypeOK
  BY DEF StartDrain, stateVars, SpotlightInvariant
<1>2. tails' \in Nat
  BY <1>1 DEF StartDrain, TypeOK
<1>3. /\ Waiting \in Seq(Spotlights)
      /\ \A t \in Spotlights : Holds(Waiting, t) <=> injection[t] = "unread" /\ Queued(t)
  BY <1>1, WaitingEntries DEF TypeOK
<1>4. /\ queue' \in Seq(Spotlights) /\ drains' \in Seq(Spotlights)
      /\ \A t \in Spotlights : Holds(queue', t) \/ Holds(drains', t) <=>
                                 Holds(Waiting, t) \/ Holds(drains, t)
  <2>1. CASE Waiting = <<>>
    BY <1>1, <1>3, <2>1, NothingHeld DEF StartDrain, TypeOK
  <2>2. CASE Waiting # <<>>
    <3>1. queue' = Tail(Waiting) /\ drains' = Append(drains, Head(Waiting)) /\ drains \in Seq(Spotlights)
      BY <1>1, <2>2 DEF StartDrain, TypeOK
    <3>2. /\ Head(Waiting) \in Spotlights /\ Tail(Waiting) \in Seq(Spotlights)
          /\ \A t : Holds(Waiting, t) <=> t = Head(Waiting) \/ Holds(Tail(Waiting), t)
      BY <1>3, <2>2, ListParts
    <3>3. /\ Append(drains, Head(Waiting)) \in Seq(Spotlights)
          /\ \A t : Holds(Append(drains, Head(Waiting)), t) <=> t = Head(Waiting) \/ Holds(drains, t)
      BY <3>1, <3>2, ListEnds
    <3> QED
      BY <3>1, <3>2, <3>3
  <2> QED
    BY <2>1, <2>2
<1>5. TypeOK' /\ VisitShape'
  BY <1>1, <1>2, <1>4 DEF TypeOK, SpotlightInvariant, VisitShape
<1>6. /\ \A t : (Queued(t) <=> Holds(queue, t)) /\ (Draining(t) <=> Holds(drains, t))
      /\ \A t : (Queued(t)' <=> Holds(queue', t)) /\ (Draining(t)' <=> Holds(drains', t))
  BY DEF Queued, Draining, Holds
<1>7. \A t : (Visiting(t)' <=> Visiting(t)) /\ (Asking(t)' <=> Asking(t))
  BY <1>1 DEF Visiting, Asking
<1>8. \A t \in Spotlights : Owed(t)' => Owed(t)
  BY <1>3, <1>4, <1>6, <1>7 DEF Owed
<1>9. \A t \in Spotlights : Owed(t) => Owed(t)' \/ injection[t] # "unread"
  BY <1>3, <1>4, <1>6, <1>7 DEF Owed
\* What the drain drops was read, so it was told, or its thought is gone.
<1>10. \A t \in Spotlights : Owed(t) => Owed(t)' \/ told[t] > 0 \/ t \in dropped
  BY <1>9, ConsumedIsAccounted DEF Recorded
<1>11. \A q \in Requests : request[q] = "waiting" => q \in asked
  BY DEF SpotlightInvariant, AccountedShape
<1>12. CalmStep
  BY <1>1, <1>8, <1>10, <1>11, OwedCalm DEF Recorded
<1> QED
  BY <1>5, <1>12, CalmKeeps

LEMMA DrainKeeps ==
  ASSUME SpotlightInvariant, DrainStep PROVE SpotlightInvariant'
<1>1. /\ UNCHANGED <<request, row, injection, asked, tails, told, maintenance, paused, expired>>
      /\ drains # <<>> /\ drains' = Tail(drains) /\ TypeOK
  BY DEF DrainStep, DrainAdmitted, DrainQueued, DrainRequeued, DrainDropped, stateVars, SpotlightInvariant
<1>2. faults' \in Nat
  <2>1. faults' = faults \/ Fault
    BY DEF DrainStep, DrainAdmitted, DrainQueued, DrainRequeued, DrainDropped
  <2> QED
    BY <1>1, <2>1 DEF TypeOK, Fault
<1>3. PICK s \in Spotlights :
        /\ s = Head(drains) /\ Tail(drains) \in Seq(Spotlights)
        /\ \A t : Holds(drains, t) <=> t = s \/ Holds(Tail(drains), t)
  BY <1>1, ListParts DEF TypeOK
<1>4. /\ Appended(s) \in Seq(Spotlights) /\ Prepended(s) \in Seq(Spotlights)
      /\ \A t \in Spotlights : /\ Holds(Appended(s), t) <=> t = s \/ Queued(t)
                               /\ Holds(Prepended(s), t) <=> t = s \/ Queued(t)
  BY <1>1, <1>3, QueueOperations DEF TypeOK
<1>5. \/ visit' = Admitted(s, TRUE) /\ visit.stage = "none" /\ queue' = queue /\ dropped' = dropped
      \/ visit' = visit /\ queue' \in {Appended(s), Prepended(s)} /\ dropped' = dropped
      \/ visit' = visit /\ queue' = queue /\ dropped' = dropped \cup {s}
  BY <1>3 DEF DrainStep, DrainAdmitted, DrainQueued, DrainRequeued, DrainDropped, Requeued, Busy
<1>6. Admitted(s, TRUE) \in [stage : VisitStages, spotlight : Spotlights \cup {NoSpotlight}, drained : BOOLEAN]
  BY <1>3 DEF Admitted, VisitStages
<1>7. TypeOK'
  BY <1>1, <1>2, <1>3, <1>4, <1>5, <1>6 DEF TypeOK
<1>8. VisitShape'
  BY <1>3, <1>5 DEF SpotlightInvariant, VisitShape, Admitted
<1>9. \A t : (Queued(t)' <=> Holds(queue', t)) /\ (Draining(t)' <=> Holds(drains', t))
  BY DEF Queued, Draining, Holds
<1>10. \A t : Queued(t) <=> Holds(queue, t)
  BY DEF Queued, Holds
<1>11. \A t : Draining(t) <=> t = s \/ Draining(t)'
  BY <1>1, <1>3, <1>9, QueuedHolds
<1>12. \A t \in Spotlights : (Queued(t)' => Queued(t) \/ t = s) /\ (Queued(t) => Queued(t)')
  BY <1>4, <1>5, <1>9, <1>10
<1>13. \A t \in Spotlights : (Visiting(t)' => Visiting(t) \/ t = s) /\ (Visiting(t) => Visiting(t)')
  BY <1>5 DEF Visiting, Admitted
<1>14. \A t : Asking(t)' <=> Asking(t)
  BY <1>1 DEF Asking
<1>15. Visiting(s)' \/ Queued(s)' \/ s \in dropped'
  <2>1. queue' \in {Appended(s), Prepended(s)} => Queued(s)'
    BY <1>3, <1>4, <1>9
  <2>2. visit' = Admitted(s, TRUE) => Visiting(s)'
    BY DEF Visiting, Admitted
  <2> QED
    BY <1>3, <1>5, <2>1, <2>2
<1>16. \A t \in Spotlights : Owed(t)' => Owed(t)
  BY <1>11, <1>12, <1>13, <1>14 DEF Owed
<1>17. \A t \in Spotlights : Owed(t) => Owed(t)' \/ t \in dropped'
  <2>1. Owed(s)' \/ s \in dropped'
    BY <1>15 DEF Owed
  <2>2. ASSUME NEW t \in Spotlights, t # s, Owed(t) PROVE Owed(t)'
    BY <1>11, <1>12, <1>13, <1>14, <2>2 DEF Owed
  <2> QED
    BY <2>1, <2>2
<1>18. \A t \in Spotlights : t \in dropped => t \in dropped'
  BY <1>5
<1>19. \A q \in Requests : request[q] = "waiting" => q \in asked
  BY DEF SpotlightInvariant, AccountedShape
<1>20. CalmStep
  BY <1>1, <1>16, <1>17, <1>18, <1>19, OwedCalm DEF Recorded
<1> QED
  BY <1>7, <1>8, <1>20, CalmKeeps

(***************************************************************************)
(* The visit, and what happens around it.                                  *)
(***************************************************************************)
Visits == [stage : VisitStages, spotlight : Spotlights \cup {NoSpotlight}, drained : BOOLEAN]

LEMMA IdleVisits ==
  ASSUME NEW v \in {Admitted(NoSpotlight, FALSE), [NoVisit EXCEPT !.stage = "dead"], NoVisit}
  PROVE  v \in Visits /\ ~v.drained
<1>1. NoVisit \in Visits /\ ~NoVisit.drained
  BY DEF Visits, NoVisit, VisitStages
<1>2. Admitted(NoSpotlight, FALSE) \in Visits /\ ~Admitted(NoSpotlight, FALSE).drained
  BY DEF Visits, Admitted, VisitStages
<1>3. [NoVisit EXCEPT !.stage = "dead"] \in Visits /\ ~[NoVisit EXCEPT !.stage = "dead"].drained
  BY DEF Visits, NoVisit, VisitStages
<1> QED
  BY <1>1, <1>2, <1>3

\* A step of the visit keeps the invariant if it lets go only of a spotlight it
\* accounts for.
LEMMA VisitHandsOver ==
  ASSUME SpotlightInvariant, TypeOK', VisitShape',
         UNCHANGED <<request, row, injection, asked, drains, told, expired>>,
         \A s \in Spotlights :
           /\ s \in dropped => s \in dropped'
           /\ Queued(s) => Queued(s)'
           /\ Queued(s)' => Queued(s) \/ Visiting(s)
           /\ Visiting(s)' => Visiting(s)
           /\ Visiting(s) => Visiting(s)' \/ Queued(s)' \/ told[s] > 0 \/ s \in dropped'
  PROVE  SpotlightInvariant'
<1>1. \A s : (Draining(s)' <=> Draining(s)) /\ (Asking(s)' <=> Asking(s))
  BY DEF Draining, Asking
<1>2. \A s \in Spotlights : Owed(s)' => Owed(s)
  BY <1>1 DEF Owed
<1>3. \A s \in Spotlights : Owed(s) => Owed(s)' \/ told[s] > 0 \/ s \in dropped'
  BY <1>1 DEF Owed
<1>4. \A q \in Requests : request[q] = "waiting" => q \in asked
  BY DEF SpotlightInvariant, AccountedShape
<1>5. CalmStep
  BY <1>2, <1>3, <1>4, OwedCalm DEF Recorded
<1> QED
  BY <1>5, CalmKeeps

\* The steps of a visit but the one that publishes.
LEMMA VisitKeeps ==
  ASSUME Parameters, SpotlightInvariant,
         \/ BeginNormal \/ VisitThrowsEarly \/ DeadReaped \/ VisitReads
         \/ VisitRefused \/ VisitCompletes \/ VisitEnds
  PROVE  SpotlightInvariant'
<1>1. /\ UNCHANGED <<request, row, injection, asked, drains, told, maintenance, paused, expired>>
      /\ TypeOK
  BY DEF BeginNormal, VisitThrowsEarly, DeadReaped, VisitReads, VisitRefused, VisitCompletes,
         VisitEnds, queueVars, stateVars, SpotlightInvariant
<1>2. faults' \in Nat
  <2>1. faults' = faults \/ Fault
    BY DEF BeginNormal, VisitThrowsEarly, DeadReaped, VisitReads, VisitRefused, VisitCompletes, VisitEnds
  <2> QED
    BY <1>1, <2>1 DEF TypeOK, Fault
<1>3. tails' \in Nat
  <2>1. tails' \in {tails, tails + 1}
    BY DEF BeginNormal, VisitThrowsEarly, DeadReaped, VisitReads, VisitRefused, VisitCompletes,
           VisitEnds, queueVars, TailsAfter
  <2> QED
    BY <1>1, <2>1 DEF TypeOK
<1>4. visit \in [stage : VisitStages, spotlight : Spotlights \cup {NoSpotlight}, drained : BOOLEAN]
  BY <1>1 DEF TypeOK
<1>5. CASE VisitThrowsEarly /\ visit.drained
  <2>1. PICK s \in Spotlights : s = visit.spotlight
    BY <1>5 DEF SpotlightInvariant, VisitShape
  <2>2. /\ queue' = Prepended(s) /\ dropped' = dropped /\ tails' = tails
        /\ visit' = [NoVisit EXCEPT !.stage = "dead"]
    BY <1>5, <2>1 DEF VisitThrowsEarly
  <2>3. /\ Prepended(s) \in Seq(Spotlights)
        /\ \A t \in Spotlights : Holds(Prepended(s), t) <=> t = s \/ Queued(t)
    BY <1>1, QueueOperations DEF TypeOK
  <2>4. TypeOK' /\ VisitShape'
    BY <1>1, <1>2, <2>2, <2>3 DEF TypeOK, VisitShape, NoVisit, VisitStages
  <2>5. \A t \in Spotlights : Queued(t)' <=> t = s \/ Queued(t)
    BY <2>2, <2>3 DEF Queued, Holds
  <2>6. \A t \in Spotlights : ~Visiting(t)' /\ (Visiting(t) <=> t = s)
    BY <1>5, <2>1, <2>2 DEF Visiting, NoVisit, VisitThrowsEarly
  <2> QED
    BY <1>1, <2>2, <2>4, <2>5, <2>6, VisitHandsOver
<1>6. CASE ~(VisitThrowsEarly /\ visit.drained)
  <2>1. queue' = queue
    BY <1>6 DEF BeginNormal, VisitThrowsEarly, DeadReaped, VisitReads, VisitRefused, VisitCompletes,
                VisitEnds, queueVars
  <2>2. \A t \in Spotlights : t \in dropped => t \in dropped'
    BY <1>6 DEF BeginNormal, VisitThrowsEarly, DeadReaped, VisitReads, VisitRefused, VisitCompletes, VisitEnds
  <2>3. dropped' \subseteq Spotlights
    BY <1>1, <1>4, <1>6 DEF TypeOK, BeginNormal, VisitThrowsEarly, DeadReaped, VisitReads, VisitRefused,
                      VisitCompletes, VisitEnds
  <2>4. \/ visit' \in {Admitted(NoSpotlight, FALSE), [NoVisit EXCEPT !.stage = "dead"], NoVisit}
        \/ visit.stage = "setup" /\ visit' = [visit EXCEPT !.stage = "input"]
    BY <1>6 DEF BeginNormal, VisitThrowsEarly, DeadReaped, VisitReads, VisitRefused, VisitCompletes, VisitEnds
  <2>5. /\ visit' \in [stage : VisitStages, spotlight : Spotlights \cup {NoSpotlight}, drained : BOOLEAN]
        /\ VisitShape'
    <3>1. CASE visit.stage = "setup" /\ visit' = [visit EXCEPT !.stage = "input"]
      <4>1. visit'.drained = visit.drained /\ visit'.spotlight = visit.spotlight
        BY <1>4, <3>1
      <4> QED
        BY <1>4, <3>1, <4>1 DEF VisitStages, VisitShape, SpotlightInvariant
    <3>2. CASE visit' \in {Admitted(NoSpotlight, FALSE), [NoVisit EXCEPT !.stage = "dead"], NoVisit}
      BY <3>2, IdleVisits DEF Visits, VisitShape
    <3> QED
      BY <2>4, <3>1, <3>2
  <2>6. TypeOK'
    BY <1>1, <1>2, <1>3, <2>1, <2>3, <2>5 DEF TypeOK
  <2>7. ASSUME NEW t \in Spotlights PROVE Visiting(t)' => Visiting(t)
    BY <1>4, <2>4 DEF Visiting, Admitted, NoVisit, Parameters
  <2>8. ASSUME NEW t \in Spotlights, Visiting(t)
        PROVE  Visiting(t)' \/ told[t] > 0 \/ t \in dropped'
    <3>1. CASE BeginNormal \/ DeadReaped \/ VisitCompletes
      BY <2>8, <3>1 DEF BeginNormal, DeadReaped, VisitCompletes, Visiting, Busy
    <3>2. CASE VisitThrowsEarly \/ VisitRefused \/ VisitEnds
      BY <1>6, <2>8, <3>2 DEF VisitThrowsEarly, VisitRefused, VisitEnds, Visiting, Parameters
    <3>3. CASE VisitReads /\ injection[t] = "unread"
      BY <1>4, <2>8, <3>3 DEF VisitReads, Visiting
    <3>4. CASE VisitReads /\ injection[t] # "unread"
      BY <2>2, <2>8, <3>4, ConsumedIsAccounted DEF Recorded, Owed
    <3> QED
      BY <3>1, <3>2, <3>3, <3>4
  <2>9. \A t : Queued(t)' <=> Queued(t)
    BY <2>1 DEF Queued
  <2> QED
    BY <1>1, <2>2, <2>5, <2>6, <2>7, <2>8, <2>9, VisitHandsOver
<1> QED
  BY <1>5, <1>6

\* A pause and maintenance leave the spotlights alone.
LEMMA CalmSurroundings ==
  ASSUME SpotlightInvariant, Pause \/ Resume \/ BeginMaintenance \/ EndMaintenance
  PROVE  SpotlightInvariant'
<1>1. /\ UNCHANGED <<request, row, injection, queue, asked, drains, tails, visit, told, dropped, expired>>
      /\ maintenance' \in BOOLEAN /\ paused' \in BOOLEAN /\ TypeOK /\ (faults' = faults \/ Fault)
  BY DEF Pause, Resume, BeginMaintenance, EndMaintenance, queueVars, SpotlightInvariant, TypeOK
<1>2. faults' \in Nat
  BY <1>1 DEF TypeOK, Fault
<1>3. TypeOK' /\ VisitShape'
  BY <1>1, <1>2 DEF TypeOK, VisitShape, SpotlightInvariant
<1>4. \A s : (Queued(s)' <=> Queued(s)) /\ (Visiting(s)' <=> Visiting(s))
  BY <1>1 DEF Queued, Visiting
<1> QED
  BY <1>1, <1>3, <1>4, VisitHandsOver

\* A restart lets go of what only memory held.
LEMMA RestartKeeps ==
  ASSUME SpotlightInvariant, Restart PROVE SpotlightInvariant'
<1>1. /\ UNCHANGED <<row, injection, queue, told, paused, expired>> /\ Fault /\ TypeOK
      /\ asked' = {} /\ drains' = <<>> /\ tails' = 0 /\ maintenance' = FALSE
      /\ visit' \in {NoVisit, [NoVisit EXCEPT !.stage = "dead"]}
      /\ request' = [r \in Requests |-> IF request[r] = "waiting" THEN "failed" ELSE request[r]]
      /\ dropped' = dropped \cup {s \in Spotlights : Draining(s) \/ Visiting(s) \/ Asking(s)}
  BY DEF Restart, SpotlightInvariant
<1>2. faults' \in Nat
  BY <1>1 DEF TypeOK, Fault
<1>3. request' \in [Requests -> RequestStages]
  BY <1>1 DEF TypeOK, RequestStages
<1>4. /\ visit' \in [stage : VisitStages, spotlight : Spotlights \cup {NoSpotlight}, drained : BOOLEAN]
      /\ VisitShape'
  BY <1>1, IdleVisits DEF Visits, VisitShape
<1>5. TypeOK'
  <2>1. dropped' \subseteq Spotlights /\ <<>> \in Seq(Spotlights) /\ {} \subseteq Requests /\ 0 \in Nat
    BY <1>1 DEF TypeOK
  <2> QED
    BY <1>1, <1>2, <1>3, <1>4, <2>1 DEF TypeOK
<1>6. \A s : (Queued(s)' <=> Queued(s)) /\ ~Draining(s)' /\ ~Asking(s)' /\ ~Visiting(s)'
  BY <1>1 DEF Queued, Draining, Asking, Visiting, NoVisit
<1>7. \A s \in Spotlights :
        /\ s \in dropped => s \in dropped'
        /\ Owed(s)' => Owed(s)
        /\ Owed(s) => Owed(s)' \/ s \in dropped'
  BY <1>1, <1>6 DEF Owed
<1>8. \A q \in Requests : request'[q] = IF request[q] = "waiting" THEN "failed" ELSE request[q]
  BY <1>1
<1>9. CalmStep
  BY <1>1, <1>7, <1>8, OwedCalm DEF Recorded, PastInjection
<1> QED
  BY <1>4, <1>5, <1>9, CalmKeeps

(***************************************************************************)
(* The steps that record, tell or lose a thought.                          *)
(***************************************************************************)
\* Injecting a thought, whether or not the sender hears of it.
LEMMA InjectKeeps ==
  ASSUME SpotlightInvariant, NEW r \in Requests, Inject(r) \/ InjectUnanswered(r)
  PROVE  SpotlightInvariant'
<1> DEFINE s == Spotlight(r)
           recorded == [injection EXCEPT ![s] = Injected(s)]
<1>1. TypeOK /\ s \in Spotlights /\ request[r] = "planned" /\ s \notin expired
  BY RequestSpotlights DEF SpotlightInvariant, ExpiredShape, Inject, InjectUnanswered
<1>2. /\ UNCHANGED <<asked, visit, told, dropped, queue, drains, tails, maintenance, paused, expired>>
      /\ injection' \in {injection, recorded} /\ (faults' = faults \/ Fault)
      /\ row' \in {row, [row EXCEPT ![s] = "not_injected"]}
  BY DEF Inject, InjectUnanswered, queueVars, stateVars
<1>3. PICK stage \in {"injected", "done"} : Advance(r, stage) /\ (stage = "injected" => injection' = recorded)
  BY DEF Inject, InjectUnanswered
<1>4. \A q \in Requests : request'[q] = IF q = r THEN stage ELSE request[q]
  BY <1>1, <1>3 DEF TypeOK, Advance
<1>5. \A t \in Spotlights : /\ recorded[t] = IF t = s /\ injection[t] = "none" THEN "unread" ELSE injection[t]
                            /\ recorded[t] \in {"none", "unread", "read"}
  BY <1>1 DEF TypeOK, Injected
<1>6. recorded \in [Spotlights -> {"none", "unread", "read"}]
  BY <1>1 DEF TypeOK, Injected
<1> HIDE DEF recorded
<1>7. \A t \in Spotlights : row'[t] = row[t] \/ (t = s /\ row'[t] = "not_injected")
  BY <1>1, <1>2 DEF TypeOK
<1>8. TypeOK' /\ VisitShape'
  <2>1. faults' \in Nat
    BY <1>1, <1>2 DEF TypeOK, Fault
  <2>2. row' \in [Spotlights -> RowStates]
    BY <1>1, <1>2 DEF TypeOK, RowStates
  <2>3. request' \in [Requests -> RequestStages]
    BY <1>1, <1>3 DEF TypeOK, Advance, RequestStages
  <2> QED
    BY <1>1, <1>2, <1>6, <2>1, <2>2, <2>3 DEF TypeOK, VisitShape, SpotlightInvariant
<1>9. \A t : Owed(t)' <=> Owed(t)
  BY <1>2, HoldersOwe DEF HoldersKept
<1>10. ToldShape'
  BY <1>1, <1>2, <1>5 DEF ToldShape, SpotlightInvariant
<1>11. ExpiredShape'
  BY <1>1, <1>2, <1>4, <1>5 DEF ExpiredShape, SpotlightInvariant, TypeOK
<1>12. LostShape'
  <2> SUFFICES ASSUME NEW t \in Spotlights, injection'[t] = "none", Recorded(t)' PROVE t \in dropped'
    BY DEF LostShape
  <2>1. injection[t] = "none" /\ (t = s => stage = "done")
    BY <1>2, <1>3, <1>5
  <2>2. ASSUME NEW q \in Requests, Spotlight(q) = t, request'[q] \in PastInjection
        PROVE  request[q] \in PastInjection
    BY <1>4, <2>1, <2>2 DEF PastInjection
  <2>3. row'[t] \in CompletedStatuses => row[t] \in CompletedStatuses
    BY <1>7 DEF CompletedStatuses
  <2>4. Recorded(t)
    BY <1>9, <2>2, <2>3 DEF Recorded
  <2> QED
    BY <1>2, <2>1, <2>4 DEF LostShape, SpotlightInvariant
<1>13. AccountedShape'
  <2>1. \A q \in Requests : request'[q] = "waiting" => q \in asked'
    BY <1>2, <1>4 DEF AccountedShape, SpotlightInvariant
  <2>2. ASSUME NEW t \in Spotlights, Started(t)' PROVE Started(t)
    <3>1. row'[t] \in CompletedStatuses => row[t] \in CompletedStatuses
      BY <1>7 DEF CompletedStatuses
    <3>2. \A q \in Requests : request'[q] \in {"started", "pending"} => request[q] = request'[q]
      BY <1>4
    <3> QED
      BY <2>2, <3>1, <3>2 DEF Started
  <2> QED
    BY <1>2, <1>9, <2>1, <2>2 DEF AccountedShape, SpotlightInvariant
<1> QED
  BY <1>8, <1>10, <1>11, <1>12, <1>13 DEF SpotlightInvariant

\* Publishing tells the visit's thought, which was unread and never told.
LEMMA PublishKeeps ==
  ASSUME Parameters, SpotlightInvariant, VisitPublishes PROVE SpotlightInvariant'
<1> DEFINE s == visit.spotlight
<1>1. /\ UNCHANGED <<request, row, asked, dropped, faults, queue, drains, tails, maintenance, paused, expired>>
      /\ visit.stage = "input" /\ visit' = [visit EXCEPT !.stage = "published"] /\ TypeOK
  BY DEF VisitPublishes, queueVars, stateVars, SpotlightInvariant
<1>2. visit \in Visits
  BY <1>1 DEF TypeOK, Visits
<1>3. visit' \in Visits /\ VisitShape'
  <2>1. visit'.drained = visit.drained /\ visit'.spotlight = visit.spotlight
    BY <1>1, <1>2 DEF Visits
  <2>2. visit' \in Visits
    BY <1>1, <1>2 DEF Visits, VisitStages
  <2> QED
    BY <2>1, <2>2 DEF SpotlightInvariant, VisitShape
<1>4. /\ \A t : (Queued(t)' <=> Queued(t)) /\ (Draining(t)' <=> Draining(t)) /\ (Asking(t)' <=> Asking(t))
      /\ \A t : ~Visiting(t)' /\ (Visiting(t) => t = s)
  BY <1>1, <1>2 DEF Queued, Draining, Asking, Visiting, Visits
<1>5. \A t \in Spotlights : (Owed(t)' => Owed(t)) /\ (Owed(t) => Owed(t)' \/ t = s)
  BY <1>4 DEF Owed
<1>6. /\ injection' \in [Spotlights -> {"none", "unread", "read"}] /\ told' \in [Spotlights -> Nat]
      /\ s \in Spotlights => injection[s] = "unread"
      /\ \A t \in Spotlights : IF t = s THEN injection'[t] = "read" /\ told'[t] = told[t] + 1
                                        ELSE injection'[t] = injection[t] /\ told'[t] = told[t]
  <2>1. injection \in [Spotlights -> {"none", "unread", "read"}] /\ told \in [Spotlights -> Nat]
    BY <1>1 DEF TypeOK
  <2>2. CASE s = NoSpotlight
    <3>1. injection' = injection /\ told' = told /\ s \notin Spotlights
      BY <2>2 DEF VisitPublishes, Parameters
    <3> QED
      BY <2>1, <3>1
  <2>3. CASE s # NoSpotlight
    <3>1. /\ injection[s] = "unread" /\ injection' = [injection EXCEPT ![s] = "read"]
          /\ told' = [told EXCEPT ![s] = told[s] + 1]
      BY <2>3 DEF VisitPublishes
    <3>2. s \in Spotlights
      BY <1>2, <2>3 DEF Visits
    <3> HIDE DEF s
    <3> QED
      BY <2>1, <3>1, <3>2
  <2> QED
    BY <2>2, <2>3
<1>7. TypeOK'
  BY <1>1, <1>3, <1>6 DEF TypeOK, Visits
<1>8. ToldShape'
  <2> SUFFICES ASSUME NEW t \in Spotlights
               PROVE  /\ injection'[t] = "unread" => told'[t] = 0
                      /\ injection'[t] = "read" => told'[t] = 1
                      /\ told'[t] \in {0, 1}
                      /\ told'[t] = 1 => injection'[t] = "read" \/ t \in expired
    BY <1>1 DEF ToldShape
  <2>1. CASE t = s
    BY <1>6, <2>1 DEF SpotlightInvariant, ToldShape
  <2>2. CASE t # s
    BY <1>6, <2>2 DEF SpotlightInvariant, ToldShape
  <2> QED
    BY <2>1, <2>2
<1>9. ExpiredShape'
  BY <1>1, <1>6 DEF SpotlightInvariant, ExpiredShape, TypeOK
<1>10. \A t \in Spotlights : (Recorded(t)' => Recorded(t)) /\ (Started(t)' <=> Started(t))
  BY <1>1, <1>5 DEF Recorded, Started
<1>11. LostShape'
  BY <1>1, <1>6, <1>10 DEF SpotlightInvariant, LostShape
<1>12. AccountedShape'
  <2>1. \A q \in Requests : request'[q] = "waiting" => q \in asked'
    BY <1>1 DEF SpotlightInvariant, AccountedShape
  <2>2. ASSUME NEW t \in Spotlights, Started(t)' PROVE told'[t] > 0 \/ Owed(t)' \/ t \in dropped'
    <3>1. told[t] > 0 \/ Owed(t) \/ t \in dropped
      BY <1>10, <2>2 DEF SpotlightInvariant, AccountedShape
    <3>2. told[t] \in Nat
      BY <1>1 DEF TypeOK
    <3>3. t = s => told'[t] > 0
      BY <1>6, <3>2
    <3>4. t # s => told'[t] = told[t]
      BY <1>6
    <3> QED
      BY <1>1, <1>5, <3>1, <3>3, <3>4
  <2> QED
    BY <2>1, <2>2 DEF AccountedShape
<1> QED
  BY <1>3, <1>7, <1>8, <1>9, <1>11, <1>12 DEF SpotlightInvariant

\* Erasing the history lets go of every thought that was recorded.
LEMMA EraseKeeps ==
  ASSUME SpotlightInvariant, EraseHistory PROVE SpotlightInvariant'
<1>1. /\ UNCHANGED <<request, row, asked, drains, visit, tails, paused, expired, faults>> /\ TypeOK
      /\ injection' = [s \in Spotlights |-> "none"] /\ told' = [s \in Spotlights |-> 0] /\ queue' = <<>>
      /\ dropped' = dropped \cup {s \in Spotlights : injection[s] # "none"} /\ maintenance' = FALSE
  BY DEF EraseHistory, SpotlightInvariant
<1>2. TypeOK'
  <2>1. dropped' \subseteq Spotlights /\ <<>> \in Seq(Spotlights)
    BY <1>1 DEF TypeOK
  <2>2. injection' \in [Spotlights -> {"none", "unread", "read"}] /\ told' \in [Spotlights -> Nat]
    BY <1>1
  <2> QED
    BY <1>1, <2>1, <2>2 DEF TypeOK
<1>3. VisitShape' /\ ToldShape'
  BY <1>1 DEF SpotlightInvariant, VisitShape, ToldShape
<1>4. ExpiredShape'
  BY <1>1 DEF SpotlightInvariant, ExpiredShape, TypeOK
<1>5. \A s : ~Queued(s)' /\ (Draining(s)' <=> Draining(s)) /\ (Asking(s)' <=> Asking(s))
             /\ (Visiting(s)' <=> Visiting(s))
  BY <1>1 DEF Queued, Draining, Asking, Visiting
<1>6. \A s \in Spotlights : (Recorded(s)' => Recorded(s)) /\ (Started(s)' => Recorded(s))
  BY <1>1, <1>5 DEF Recorded, Started, Owed, PastInjection
<1>7. \A s \in Spotlights : Recorded(s) => s \in dropped'
  BY <1>1 DEF SpotlightInvariant, LostShape
<1>8. LostShape'
  BY <1>6, <1>7 DEF LostShape
<1>9. AccountedShape'
  BY <1>1, <1>6, <1>7 DEF AccountedShape, SpotlightInvariant
<1> QED
  BY <1>2, <1>3, <1>4, <1>8, <1>9 DEF SpotlightInvariant

\* Retention takes a thought and its entry, and nothing of another spotlight.
LEMMA ExpireKeeps ==
  ASSUME SpotlightInvariant, NEW s \in Spotlights, Expire(s) PROVE SpotlightInvariant'
<1>1. /\ UNCHANGED <<request, row, asked, drains, visit, tails, maintenance, paused, told>>
      /\ TypeOK /\ Fault /\ dropped' = dropped \cup {s} /\ expired' = expired \cup {s}
      /\ \A r \in Requests : Spotlight(r) = s => request[r] \in {"idle", "done"}
      /\ queue' = Kept(queue, Spotlights \ {s}) /\ injection' = [injection EXCEPT ![s] = "none"]
  BY DEF Expire, SpotlightInvariant
<1>2. /\ Kept(queue, Spotlights \ {s}) \in Seq(Spotlights)
      /\ \A t \in Spotlights : Holds(Kept(queue, Spotlights \ {s}), t) <=> t # s /\ Queued(t)
  BY <1>1, QueueOperations DEF TypeOK
<1>3. \A t \in Spotlights : injection'[t] = IF t = s THEN "none" ELSE injection[t]
  BY <1>1 DEF TypeOK
<1>4. TypeOK'
  <2>1. faults' \in Nat /\ dropped' \subseteq Spotlights /\ expired' \subseteq Spotlights
    BY <1>1 DEF TypeOK, Fault
  <2>2. injection' \in [Spotlights -> {"none", "unread", "read"}]
    BY <1>1 DEF TypeOK
  <2> QED
    BY <1>1, <1>2, <2>1, <2>2 DEF TypeOK
<1>5. VisitShape'
  BY <1>1 DEF SpotlightInvariant, VisitShape
<1>6. ToldShape'
  BY <1>1, <1>3 DEF SpotlightInvariant, ToldShape
<1>7. ExpiredShape'
  <2> SUFFICES ASSUME NEW t \in expired'
               PROVE  /\ injection'[t] = "none" /\ t \in dropped'
                      /\ \A r \in Requests : Spotlight(r) = t => request[r] \in {"idle", "done"}
    BY <1>1 DEF ExpiredShape
  <2>1. t \in Spotlights /\ (t # s => t \in expired)
    BY <1>1 DEF TypeOK
  <2> QED
    BY <1>1, <1>3, <2>1 DEF SpotlightInvariant, ExpiredShape
<1>8. \A t \in Spotlights : Queued(t)' <=> t # s /\ Queued(t)
  BY <1>1, <1>2 DEF Queued, Holds
<1>9. \A t : (Draining(t)' <=> Draining(t)) /\ (Asking(t)' <=> Asking(t)) /\ (Visiting(t)' <=> Visiting(t))
  BY <1>1 DEF Draining, Asking, Visiting
<1>10. \A t \in Spotlights : (Owed(t)' => Owed(t)) /\ (Owed(t) => Owed(t)' \/ t = s)
  BY <1>8, <1>9 DEF Owed
<1>11. \A t \in Spotlights : (Recorded(t)' => Recorded(t)) /\ (Started(t)' <=> Started(t))
  BY <1>1, <1>10 DEF Recorded, Started
<1>12. LostShape'
  BY <1>1, <1>3, <1>11 DEF SpotlightInvariant, LostShape
<1>13. AccountedShape'
  BY <1>1, <1>10, <1>11 DEF SpotlightInvariant, AccountedShape
<1> QED
  BY <1>4, <1>5, <1>6, <1>7, <1>12, <1>13 DEF SpotlightInvariant

(***************************************************************************)
(* The invariant.                                                          *)
(***************************************************************************)
LEMMA InvariantAtStart ==
  ASSUME Parameters, Init PROVE SpotlightInvariant
<1>1. /\ \A s \in Spotlights : row[s] = "none" /\ injection[s] = "none" /\ told[s] = 0
      /\ \A r \in Requests : request[r] \in {"idle", "done"}
      /\ expired = {} /\ visit = NoVisit
  BY DEF Init
<1>2. \A s : ~Owed(s)
  BY DEF Init, Owed, Queued, Draining, Visiting, Asking, NoVisit
<1>3. TypeOK
  <2>1. faults \in Nat
    BY DEF Init, Parameters
  <2>2. request \in [Requests -> RequestStages]
    BY DEF Init, RequestStages
  <2>3. visit \in Visits
    BY <1>1, IdleVisits
  <2>4. <<>> \in Seq(Spotlights)
    OBVIOUS
  <2> QED
    BY <2>1, <2>2, <2>3, <2>4 DEF Init, TypeOK, RowStates, Visits
<1>4. VisitShape
  BY <1>1, IdleVisits DEF VisitShape
<1>5. ToldShape /\ ExpiredShape
  BY <1>1 DEF ToldShape, ExpiredShape
<1>6. \A s \in Spotlights : ~Recorded(s) /\ ~Started(s)
  BY <1>1, <1>2 DEF Recorded, Started, CompletedStatuses, PastInjection
<1> QED
  BY <1>1, <1>3, <1>4, <1>5, <1>6 DEF SpotlightInvariant, LostShape, AccountedShape

LEMMA StepsKeepInvariant ==
  ASSUME Parameters, SpotlightInvariant, Next PROVE SpotlightInvariant'
<1>1. ASSUME NEW r \in Requests, SenderStep(r) \/ AdmissionStep(r) PROVE SpotlightInvariant'
  BY <1>1, SenderKeeps, InjectKeeps, StartKeeps, AskKeeps DEF SenderStep, AdmissionStep
<1>2. CASE StartDrain \/ DrainStep
  BY <1>2, StartDrainKeeps, DrainKeeps
<1>3. CASE BeginNormal \/ VisitStep
  BY <1>3, VisitKeeps, PublishKeeps DEF VisitStep
<1>4. CASE Surroundings
  BY <1>4, CalmSurroundings, RestartKeeps, EraseKeeps, ExpireKeeps DEF Surroundings
<1> QED
  BY <1>1, <1>2, <1>3, <1>4 DEF Next

LEMMA StutterKeepsInvariant ==
  ASSUME SpotlightInvariant, UNCHANGED vars PROVE SpotlightInvariant'
BY DEF vars, SpotlightInvariant, TypeOK, VisitShape, ToldShape, ExpiredShape, LostShape, AccountedShape,
       Recorded, Started, Owed, Queued, Draining, Visiting, Asking

\* SpotlightInvariant holds in every state.
THEOREM SpotlightInvariantHolds == ASSUME Parameters PROVE Spec => []SpotlightInvariant
<1>1. Init => SpotlightInvariant
  BY InvariantAtStart
<1>2. SpotlightInvariant /\ [Next]_vars => SpotlightInvariant'
  BY StepsKeepInvariant, StutterKeepsInvariant
<1> QED
  BY <1>1, <1>2, PTL DEF Spec

\* Every variable keeps its type.
THEOREM TypeCorrect == ASSUME Parameters PROVE Spec => []TypeOK
<1>1. SpotlightInvariant => TypeOK
  BY DEF SpotlightInvariant
<1> QED
  BY <1>1, SpotlightInvariantHolds, PTL

\* However often a client retries, requests overlap, drains meet visits or the
\* object restarts, a thought enters the history at most once.
THEOREM ThoughtsAreToldOnce == ASSUME Parameters PROVE Spec => []ToldOnce
<1>1. SpotlightInvariant => ToldOnce
  BY DEF SpotlightInvariant, ToldShape, ToldOnce
<1> QED
  BY <1>1, SpotlightInvariantHolds, PTL

\* A spotlight that answers already_delivered was told, is owed a visit, or was
\* let go at one of the places the code knows.
THEOREM DeliveriesAreAccounted == ASSUME Parameters PROVE Spec => []DeliveredIsAccounted
<1>1. SpotlightInvariant => DeliveredIsAccounted
  BY DEF SpotlightInvariant, AccountedShape, Started, DeliveredIsAccounted
<1> QED
  BY <1>1, SpotlightInvariantHolds, PTL
=============================================================================
