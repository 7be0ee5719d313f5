------------------------- MODULE FollowerInvariant -------------------------
(***************************************************************************)
(* The inductive invariant behind NeverSkipped and NoSecondSummary: what   *)
(* the journal, an acknowledgement under way and the selection of a visit  *)
(* know of the cursors and of the events up to them.                       *)
(***************************************************************************)
EXTENDS FollowerActivity

\* What the proofs need of the bounds.
Parameters ==
    /\ NumActors \in Nat /\ MaxSequence \in Nat /\ RowsPerActor \in Nat
    /\ MaxFaults \in Nat /\ MaxFollows \in Nat

\* Sequence numbers are given once; nobody is ahead of what is published.
StreamShape ==
    /\ \A e \in events : e.sequence <= high
    /\ \A e, f \in events : e.sequence = f.sequence => e = f
    /\ \A n \in noticed : n <= high
    /\ \A a \in Actors : cursor[a] <= high

\* A list of receipts names an actor once, and ends at a published event.
IsList(receipts) ==
    /\ \A r, q \in receipts : r.actor = q.actor => r = q
    /\ \A r \in receipts : r.through <= high

SelectionList == visit.selection.notices \cup visit.selection.silent

Lists ==
    /\ IsList(journal) /\ \A k \in Slots : IsList(ack[k].saved)
    /\ IsList(SelectionList) /\ \A r \in SelectionList : r.from <= high
    /\ \A p, q \in visit.selection.probes : p.actor = q.actor => p = q
    /\ \A p \in visit.selection.probes : p.cursor <= high

\* No row of the actor's follow is behind the end of the receipt any more.
Moved(r) == Followed(r.actor) => r.through <= cursor[r.actor]

\* What the visit at its stage knows of the journal, and a finished
\* acknowledgement of the cursors.
JournalShape ==
    /\ visit.stage \in {"ready", "probed", "selected"} => journal = {}
    /\ visit.stage \in {"acking", "erasing"} /\ journal # {} =>
           ack["visit"].answer # "none" /\ ack["visit"].saved = journal
    /\ ack["visit"].live
    /\ \A k \in Slots : ack[k].answer = "done" => (\A r \in ack[k].saved : Moved(r))

\* The noticed events of actor a end at n.
NoticedUpTo(a, n) == \A e \in events : e.actor = a /\ e.sequence \in noticed => e.sequence <= n

\* What was in a notice is behind the cursor or in the journal; a selection
\* starts after it.
NoticesShape ==
    /\ \A e \in events : Followed(e.actor) /\ e.sequence \in noticed =>
           \/ e.sequence <= cursor[e.actor]
           \/ \E r \in journal : r.actor = e.actor /\ e.sequence <= r.through
    /\ \A p \in visit.selection.probes : NoticedUpTo(p.actor, p.cursor)
    /\ \A r \in SelectionList : NoticedUpTo(r.actor, r.from)

\* Since its follow row was inserted, each event of actor a up to n was in a
\* notice or needed none.
Accounted(a, n) ==
    \A e \in events : e.actor = a /\ base[a] < e.sequence /\ e.sequence <= n =>
        e.sequence \in noticed \cup settled

\* All events of a silent receipt need no notice, or had one.
NeedsNone(r) ==
    \A e \in events :
        e.actor = r.actor /\ base[r.actor] < e.sequence /\ r.from < e.sequence
          /\ e.sequence <= r.through =>
            e.direct \/ e.sequence \in noticed \cup settled

AccountedShape ==
    /\ \A a \in Actors : Followed(a) => Accounted(a, cursor[a])
    /\ \A r \in journal : Accounted(r.actor, r.through)
    /\ \A k \in Slots : \A r \in ack[k].saved : Accounted(r.actor, r.through)
    /\ \A p \in visit.selection.probes : Accounted(p.actor, p.cursor)
    /\ \A r \in SelectionList : Accounted(r.actor, r.from)
    /\ \A r \in visit.selection.silent : NeedsNone(r)

FollowerInvariant ==
    /\ TypeOK /\ StreamShape /\ Lists /\ JournalShape /\ NoticesShape /\ AccountedShape
    /\ repeated = {}

=============================================================================
