---------------------------- MODULE MCLifecycle ----------------------------
(***************************************************************************)
(* Small instances of EntityLifecycle: two accounts, one world of the      *)
(* first, and a participant of each in it under one handle.                *)
(***************************************************************************)
EXTENDS LifecycleInvariant, TLC

CONSTANTS host, guest, world, own, foreign

MCAccounts == {host, guest}
MCWorlds == {world}
MCBots == {own, foreign}
MCOwner == (world :> host) @@ (own :> host) @@ (foreign :> guest)
MCHome == [b \in MCBots |-> world]
MCIdentity == [e \in MCAccounts \cup MCWorlds |-> e] @@ [b \in MCBots |-> own]

Requested(creations, deletions) ==
    wanted = {"create"} \X creations \cup {"delete"} \X deletions
Present(present) == \A e \in Entities : index[e] = "active" <=> e \in present

\* An account is deleted, and so is, at its owner's request, its participant.
HiddenChild == Present({host, guest, world, foreign}) /\ Requested({}, {guest, foreign})

\* Two participants race for a handle and with the deletion of the world; an
\* account with a world and a participant is deleted; a creation meets the
\* deletion of its owner's account; an account and a world come to exist.
Scenario ==
    \/ HiddenChild
    \/ Present({host, guest, world}) /\ Requested({own, foreign}, {world})
    \/ Present({host, guest, world, own}) /\ Requested({foreign}, {host, own})
    \/ Present({host, guest, world}) /\ Requested({own}, {host})
    \/ Present({host, guest, world}) /\ Requested({foreign}, {guest})
    \/ Present({host}) /\ Requested({guest, world, foreign}, {})

MCInit == Init /\ Scenario
MCSpec == MCInit /\ [][Next]_vars /\ Fairness

HiddenSpec == Init /\ HiddenChild /\ [][Next]_vars

=============================================================================
