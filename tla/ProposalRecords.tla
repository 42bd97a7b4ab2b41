-------------------------- MODULE ProposalRecords --------------------------
(***************************************************************************)
(* The boundary_proposals row and its audit rows, as every module about    *)
(* proposals sees them: only the columns the review flow reads or writes.  *)
(* Geometry, observation ids, tolerance, area and rationale are payload.   *)
(***************************************************************************)
EXTENDS Naturals, Sequences, Vocabulary

CONSTANTS ProposalId, ParcelId, Actor,
          RoleOf,      \* the role of every account
          NoRow,       \* no proposal has this id yet
          Nobody       \* reviewed_by of a proposal no one has reviewed

\* model.BoundaryProposal
Row == [ parcel     : ParcelId,
         base       : Nat,
         state      : ProposalStates,
         version    : Nat,
         createdBy  : Actor,
         reviewedBy : Actor \cup {Nobody} ]

\* Every account has one of the five roles, which no operation of the API
\* changes, and the two placeholders are nothing else: they are NULLs.
ASSUME RecordsAssumption ==
    /\ RoleOf \in [Actor -> Roles]
    /\ NoRow \notin Row
    /\ Nobody \notin Actor

\* One audit row about a proposal: who moved it from where to where, and the
\* version it has from then on.  "none" stands before the creation.
Entry == [ actor   : Actor,
           from    : ProposalStates \cup {"none"},
           to      : ProposalStates,
           version : Nat ]

Draft(parcel, base, version, actor) ==
    [parcel |-> parcel, base |-> base, state |-> "draft", version |-> version,
     createdBy |-> actor, reviewedBy |-> Nobody]

\* The audit row of proposal.created and of proposal.created_from_conflict.
Created(row) ==
    [actor |-> row.createdBy, from |-> "none", to |-> row.state, version |-> row.version]

\* Mutant of Moved: every transition writes reviewed_by.
MovedByAnyone(row, to, actor) ==
    [row EXCEPT !.state = to, !.version = @ + 1, !.reviewedBy = actor]

\* Mutant of Moved: the update forgets the version.
MovedUncounted(row, to, actor) ==
    [row EXCEPT !.state = to, !.reviewedBy = IF to \in ReviewTargets THEN actor ELSE @]

\* Mutant of Moved: the reviewer's role is stored where the account belongs.
MovedByRole(row, to, actor) ==
    [row EXCEPT !.state = to, !.version = @ + 1,
                !.reviewedBy = IF to \in ReviewTargets THEN RoleOf[actor] ELSE @]

\* The row after a transition: the version counts it, and a review target
\* records the reviewer.
Moved(row, to, actor) ==
    [parcel     |-> row.parcel,
     base       |-> row.base,
     state      |-> to,
     version    |-> row.version + 1,
     createdBy  |-> row.createdBy,
     reviewedBy |-> IF to \in ReviewTargets THEN actor ELSE row.reviewedBy]

\* The audit row of proposal.state_changed, composed from the row as read.
StateChanged(item, to, actor) ==
    [actor |-> actor, from |-> item.state, to |-> to, version |-> item.version + 1]
=============================================================================
