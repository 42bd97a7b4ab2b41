--------------------------- MODULE ProposalReview ---------------------------
(***************************************************************************)
(* Boundary proposals under concurrent HTTP handlers.                      *)
(*                                                                         *)
(* CreateProposal and TransitionProposal read first, judge what they read, *)
(* and only then open the transaction that writes: a slot holds one such   *)
(* handler between its read and its commit.  The transaction (the row and  *)
(* its audit row) is one step, as the database makes it; it may also fail  *)
(* at any point, which leaves nothing behind.                              *)
(***************************************************************************)
EXTENDS ProposalRecords

CONSTANTS Slot,              \* handlers that may be in flight at once
          MaxVersion,        \* bound: a proposal row's version
          MaxParcelVersion,  \* bound: a parcel's boundary_version
          MaxLag             \* bound: versions a client's view may be behind

ASSUME BoundsAssumption ==
    /\ MaxVersion \in Nat \ {0}
    /\ MaxParcelVersion \in Nat \ {0}
    /\ MaxLag \in Nat

VARIABLES
    parcelVersion,  \* boundary_version of every parcel
    proposals,      \* the boundary_proposals table
    trail,          \* the audit_events rows of every proposal, in commit order
    request         \* the handler in every slot

vars == <<parcelVersion, proposals, trail, request>>

Idle == [op |-> "idle"]

\* CreateProposal after its checks: the row it is about to insert.
Creating == [op : {"create"}, row : Row]

\* TransitionProposal after its checks: the row as it was read, the target,
\* and the version the client sent along.
Transitioning == [ op : {"transition"}, id : ProposalId, item : Row,
                   to : ProposalStates, actor : Actor, seen : Nat ]

-----------------------------------------------------------------------------
Init ==
    /\ parcelVersion = [p \in ParcelId |-> 1]
    /\ proposals     = [id \in ProposalId |-> NoRow]
    /\ trail         = [id \in ProposalId |-> <<>>]
    /\ request       = [s \in Slot |-> Idle]

\* CreateProposal up to its transaction: the base version asked for is the
\* one just read from the parcel.
BeginCreate(s) ==
    /\ request[s] = Idle
    /\ \E actor \in Actor, parcel \in ParcelId :
          /\ RoleOf[actor] \in EditorRoles
          /\ request' = [request EXCEPT ![s] =
                [op |-> "create", row |-> Draft(parcel, parcelVersion[parcel], 1, actor)]]
    /\ UNCHANGED <<parcelVersion, proposals, trail>>

CommitCreate(s) ==
    /\ request[s].op = "create"
    /\ \E id \in ProposalId :
          /\ proposals[id] = NoRow
          /\ proposals' = [proposals EXCEPT ![id] = request[s].row]
          /\ trail' = [trail EXCEPT ![id] = <<Created(request[s].row)>>]
    /\ request' = [request EXCEPT ![s] = Idle]
    /\ UNCHANGED parcelVersion

\* The versions under which a client may have last seen a proposal.
SeenVersions(id) ==
    {trail[id][i].version : i \in {j \in DOMAIN trail[id] : j + MaxLag >= Len(trail[id])}}

\* TransitionProposal up to its transaction.  The client's version is decoded
\* and validated, and nothing compares it with the row.
BeginTransition(s) ==
    /\ request[s] = Idle
    /\ \E id \in ProposalId, to \in ProposalStates, actor \in Actor :
          /\ proposals[id] # NoRow
          /\ proposals[id].version < MaxVersion
          /\ RoleOf[actor] \in TransitionRoles
          /\ CanProposalTransition(proposals[id].state, to)
          /\ MayTransitionProposal(proposals[id].createdBy, to, actor, RoleOf[actor])
          /\ \E seen \in SeenVersions(id) :
                request' = [request EXCEPT ![s] =
                    [op |-> "transition", id |-> id, item |-> proposals[id],
                     to |-> to, actor |-> actor, seen |-> seen]]
    /\ UNCHANGED <<parcelVersion, proposals, trail>>

\* Mutant of Matches: the update compares the state only.
MatchesState(row, item) == row.state = item.state

\* Mutant of Matches: the update is by primary key only.
MatchesAlways(row, item) == TRUE

\* The WHERE clause of BoundaryProposalRepository.Transition.
Matches(row, item) == row.version = item.version /\ row.state = item.state

\* The transaction of TransitionProposal: the conditional update works on the
\* row as it is now, the audit row is composed from the row as it was read.
CommitTransition(s) ==
    /\ request[s].op = "transition"
    /\ LET r == request[s] IN
          /\ Matches(proposals[r.id], r.item)
          /\ proposals' = [proposals EXCEPT ![r.id] = Moved(@, r.to, r.actor)]
          /\ trail' = [trail EXCEPT ![r.id] = Append(@, StateChanged(r.item, r.to, r.actor))]
    /\ request' = [request EXCEPT ![s] = Idle]
    /\ UNCHANGED parcelVersion

\* A transaction that rolls back: no row matched, or a statement failed.
AbandonTx(s) ==
    /\ request[s] # Idle
    /\ request' = [request EXCEPT ![s] = Idle]
    /\ UNCHANGED <<parcelVersion, proposals, trail>>

\* Another handler's committed UpdateParcel, as far as proposals notice.
UpdateParcel(p) ==
    /\ parcelVersion[p] < MaxParcelVersion
    /\ parcelVersion' = [parcelVersion EXCEPT ![p] = @ + 1]
    /\ UNCHANGED <<proposals, trail, request>>

Next ==
    \/ \E s \in Slot : \/ BeginCreate(s)     \/ CommitCreate(s)
                       \/ BeginTransition(s) \/ CommitTransition(s)
                       \/ AbandonTx(s)
    \/ \E p \in ParcelId : UpdateParcel(p)

Spec == Init /\ [][Next]_vars

-----------------------------------------------------------------------------
(* Correctness *)

\* Rows, audit entries and in-flight handlers have the columns of the model.
TypeOK ==
    /\ parcelVersion \in [ParcelId -> 1 .. MaxParcelVersion]
    /\ proposals \in [ProposalId -> Row \cup {NoRow}]
    /\ trail \in [ProposalId -> Seq(Entry)]
    /\ request \in [Slot -> {Idle} \cup Creating \cup Transitioning]

\* What a handler in flight holds is still true or no longer matters: the row
\* it read is the row, or the row has a higher version by now; and what it is
\* about to do was allowed on the row it read.  A new draft's base is a
\* version its parcel has or had.
HandlerSound ==
    \A s \in Slot :
        /\ request[s].op = "create" =>
              /\ request[s].row.state = "draft" /\ request[s].row.version = 1
              /\ request[s].row.reviewedBy = Nobody
              /\ request[s].row.base \in 1 .. parcelVersion[request[s].row.parcel]
        /\ request[s].op = "transition" =>
              LET r == request[s] IN
              /\ proposals[r.id] # NoRow
              /\ r.item.version <= proposals[r.id].version
              /\ r.item.version = proposals[r.id].version => r.item = proposals[r.id]
              /\ CanProposalTransition(r.item.state, r.to)
              /\ MayTransitionProposal(r.item.createdBy, r.to, r.actor, RoleOf[r.actor])

\* A history leads from the creation of a row by its author, along legal
\* edges and counting the versions, to the row.
Replays(row, log) ==
    /\ log # <<>>
    /\ log[1] = Created(Draft(row.parcel, row.base, log[1].version, row.createdBy))
    /\ \A i \in 1 .. Len(log) - 1 :
          /\ log[i + 1].from = log[i].to
          /\ CanProposalTransition(log[i].to, log[i + 1].to)
          /\ log[i + 1].version = log[i].version + 1
    /\ log[Len(log)].to = row.state
    /\ log[Len(log)].version = row.version

\* The audit trail of a proposal replays to the row, with no entry missing,
\* doubled or out of order.  Entries are composed from a stale read, so this
\* is what the conditional update is for.
AuditTrailReplays ==
    \A id \in ProposalId :
        IF proposals[id] = NoRow THEN trail[id] = <<>> ELSE Replays(proposals[id], trail[id])

\* No history holds a review step by the author, nor one by somebody who is
\* neither reviewer nor administrator.
Independent(log) ==
    \A i \in DOMAIN log : log[i].to \in ReviewTargets =>
        log[i].actor # log[1].actor /\ RoleOf[log[i].actor] \in {"reviewer", "admin"}

\* No proposal is ever reviewed by its author, in any round of any history.
IndependentReview == \A id \in ProposalId : Independent(trail[id])

\* reviewed_by names the actor of the latest review step of the history, over
\* any number of revision rounds, and nobody before the first.
ReviewerNamed(row, log) ==
    \/ /\ \A i \in DOMAIN log : log[i].to \notin ReviewTargets
       /\ row.reviewedBy = Nobody
    \/ \E i \in DOMAIN log :
          /\ log[i].to \in ReviewTargets
          /\ \A j \in DOMAIN log : log[j].to \in ReviewTargets => j <= i
          /\ row.reviewedBy = log[i].actor

\* The row on display names the reviewer its audit trail names.
ReviewerOfRecord ==
    \A id \in ProposalId : proposals[id] # NoRow => ReviewerNamed(proposals[id], trail[id])

\* A decision is final and history is append-only: parcel, base and author
\* never change, an accepted or rejected row never does, and whatever changes
\* a row counts its version up by one and adds exactly one audit row.
DecisionFinalStep ==
    \A id \in ProposalId : proposals[id] # NoRow =>
        /\ proposals'[id] # NoRow
        /\ proposals'[id].parcel = proposals[id].parcel
        /\ proposals'[id].base = proposals[id].base
        /\ proposals'[id].createdBy = proposals[id].createdBy
        /\ proposals'[id] # proposals[id] =>
              /\ proposals[id].state \notin {"accepted", "rejected"}
              /\ proposals'[id].version = proposals[id].version + 1
              /\ Len(trail'[id]) = Len(trail[id]) + 1
              /\ \A i \in DOMAIN trail[id] : trail'[id][i] = trail[id][i]
        /\ proposals'[id] = proposals[id] => trail'[id] = trail[id]

DecisionFinal == [][DecisionFinalStep]_vars

\* The handlers keep the promise of the abstract lifecycle: judged on a stale
\* read, every committed step is one the row allowed when it was taken.
Lifecycle == INSTANCE ProposalLifecycle
             WITH BaseVersion <- 1 .. MaxParcelVersion, DraftVersion <- {1}

ImplementsLifecycle == Lifecycle!Spec

\* What the README says of 409: a version the client sent that is not the
\* version of the row read is a conflict, also when the row is back in the
\* state the client saw under that version, so that the state gives no hint.
StaleVersionRefused ==
    \A s \in Slot : request[s].op = "transition" =>
        LET r == request[s] IN
        \A i \in DOMAIN trail[r.id] :
            trail[r.id][i].version = r.seen /\ trail[r.id][i].to = r.item.state =>
                r.seen = r.item.version
=============================================================================
