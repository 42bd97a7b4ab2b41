------------------------- MODULE ProposalLifecycle -------------------------
(***************************************************************************)
(* What the proposal API promises its users, without requests, stale reads *)
(* or races: a proposal row and its audit trail change together, in one    *)
(* step, and every permission and every guard is judged against the row as *)
(* it stands at that very moment.                                          *)
(*                                                                         *)
(* ProposalReview is the program that is to keep this promise.             *)
(***************************************************************************)
EXTENDS ProposalRecords

CONSTANTS BaseVersion, DraftVersion   \* the versions a new draft can carry

VARIABLES proposals, trail

lifecycleVars == <<proposals, trail>>

Init ==
    /\ proposals = [id \in ProposalId |-> NoRow]
    /\ trail     = [id \in ProposalId |-> <<>>]

Create(id, row) ==
    /\ proposals[id] = NoRow
    /\ proposals' = [proposals EXCEPT ![id] = row]
    /\ trail' = [trail EXCEPT ![id] = <<Created(row)>>]

Transition(id, to, actor) ==
    /\ proposals[id] # NoRow
    /\ CanProposalTransition(proposals[id].state, to)
    /\ MayTransitionProposal(proposals[id].createdBy, to, actor, RoleOf[actor])
    /\ proposals' = [proposals EXCEPT ![id] = Moved(@, to, actor)]
    /\ trail' = [trail EXCEPT ![id] = Append(@, StateChanged(proposals[id], to, actor))]

Next ==
    \E id \in ProposalId, actor \in Actor :
        \/ \E parcel \in ParcelId, base \in BaseVersion, version \in DraftVersion :
               Create(id, Draft(parcel, base, version, actor))
        \/ \E to \in ProposalStates : Transition(id, to, actor)

Spec == Init /\ [][Next]_lifecycleVars
=============================================================================
