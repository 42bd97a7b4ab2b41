------------------------- MODULE ConflictResolution -------------------------
(***************************************************************************)
(* Topology conflicts beside the proposals they are about.                 *)
(*                                                                         *)
(* Conflicts come out of a committed detection run (module Detection) and  *)
(* are then moved by TransitionConflict and ApplyConflictSuggestion; the   *)
(* latter turns the conflict's snapped boundary into a new draft proposal  *)
(* and resolves the conflict, in one transaction, after four separate      *)
(* reads.  A conflict row has no version column: the conditional update    *)
(* compares its state only.                                                *)
(***************************************************************************)
EXTENDS ProposalReview, FiniteSets

CONSTANTS ConflictId,
          NoConflict,   \* no conflict has this id yet
          Desk          \* conflict handlers that may be in flight at once

ConflictRow == [ proposal   : ProposalId,
                 state      : ConflictStates,
                 resolvedBy : Actor \cup {Nobody} ]

\* An audit row about a conflict; "proposal" is the draft derived by a
\* conflict.suggestion_applied, NoRow in all other events.
ConflictEntry == [ actor    : Actor,
                   from     : ConflictStates \cup {"none"},
                   to       : ConflictStates,
                   proposal : ProposalId \cup {NoRow} ]

ASSUME ConflictAssumption == NoConflict \notin ConflictRow /\ NoRow \notin ProposalId

VARIABLES
    conflicts,  \* the topology_conflicts table, the columns that move
    ctrail,     \* the audit_events rows of every conflict
    desk        \* the conflict handler on every desk

conflictVars == <<conflicts, ctrail, desk>>
systemVars == <<vars, conflictVars>>

\* TransitionConflict after its checks.
Moving == [ op : {"move"}, id : ConflictId, item : ConflictRow,
            to : ConflictStates, actor : Actor ]

\* ApplyConflictSuggestion between its reads: the conflict read, then the
\* source proposal, then the parcel.  The draft to insert grows on the way.
Applying == [ op : {"source"}, id : ConflictId, item : ConflictRow, actor : Actor ]
Deriving == [ op : {"parcel", "apply"}, id : ConflictId, item : ConflictRow,
              actor : Actor, draft : Row ]

-----------------------------------------------------------------------------
ConflictInit ==
    /\ Init
    /\ conflicts = [k \in ConflictId |-> NoConflict]
    /\ ctrail    = [k \in ConflictId |-> <<>>]
    /\ desk      = [d \in Desk |-> Idle]

\* A detection run commits a finding about a proposal.
DetectConflict(k) ==
    /\ conflicts[k] = NoConflict
    /\ \E id \in ProposalId, actor \in Actor :
          /\ proposals[id] # NoRow
          /\ RoleOf[actor] \in DetectionRoles
          /\ conflicts' = [conflicts EXCEPT ![k] =
                [proposal |-> id, state |-> "detected", resolvedBy |-> Nobody]]
          /\ ctrail' = [ctrail EXCEPT ![k] =
                <<[actor |-> actor, from |-> "none", to |-> "detected", proposal |-> NoRow]>>]
    /\ UNCHANGED <<vars, desk>>

\* TransitionConflict up to its transaction.
BeginMove(d) ==
    /\ desk[d] = Idle
    /\ \E k \in ConflictId, to \in ConflictStates, actor \in Actor :
          /\ conflicts[k] # NoConflict
          /\ RoleOf[actor] \in ResolutionRoles
          /\ CanConflictTransition(conflicts[k].state, to)
          /\ desk' = [desk EXCEPT ![d] = [op |-> "move", id |-> k, item |-> conflicts[k],
                                          to |-> to, actor |-> actor]]
    /\ UNCHANGED <<vars, conflicts, ctrail>>

\* Mutant of ConflictMatches: the update is by primary key only.
ConflictMatchesAlways(row, item) == TRUE

\* The WHERE clause of TopologyConflictRepository.Transition.
ConflictMatches(row, item) == row.state = item.state

\* Mutant of ConflictMoved: whoever moves a conflict is its resolver.
ConflictMovedByAnyone(row, to, actor) == [row EXCEPT !.state = to, !.resolvedBy = actor]

\* Mutant of ConflictMoved: the resolver's role is stored for the account.
ConflictMovedByRole(row, to, actor) ==
    [row EXCEPT !.state = to,
                !.resolvedBy = IF to \in ResolvingTargets THEN RoleOf[actor] ELSE @]

\* The row after a transition: closing writes resolved_by as well.
ConflictMoved(row, to, actor) ==
    [row EXCEPT !.state = to,
                !.resolvedBy = IF to \in ResolvingTargets THEN actor ELSE @]

CommitMove(d) ==
    /\ desk[d].op = "move"
    /\ LET m == desk[d] IN
          /\ ConflictMatches(conflicts[m.id], m.item)
          /\ conflicts' = [conflicts EXCEPT ![m.id] = ConflictMoved(@, m.to, m.actor)]
          /\ ctrail' = [ctrail EXCEPT ![m.id] = Append(@,
                [actor |-> m.actor, from |-> m.item.state, to |-> m.to, proposal |-> NoRow])]
    /\ desk' = [desk EXCEPT ![d] = Idle]
    /\ UNCHANGED vars

\* ApplyConflictSuggestion reads the conflict ...
BeginApply(d) ==
    /\ desk[d] = Idle
    /\ \E k \in ConflictId, actor \in Actor :
          /\ conflicts[k] # NoConflict
          /\ RoleOf[actor] \in ResolutionRoles
          /\ conflicts[k].state = "resolution_proposed"
          /\ desk' = [desk EXCEPT ![d] = [op |-> "source", id |-> k, item |-> conflicts[k],
                                          actor |-> actor]]
    /\ UNCHANGED <<vars, conflicts, ctrail>>

\* Mutant of Derived: the source row is copied, state and reviewer included.
DerivedCopy(source, actor) == [source EXCEPT !.version = @ + 1, !.createdBy = actor]

\* The draft a suggestion becomes; its base is filled in by the next read.
Derived(source, actor) == Draft(source.parcel, 0, source.version + 1, actor)

\* ... then the proposal it is about, whose version the draft goes on from ...
LoadSource(d) ==
    /\ desk[d].op = "source"
    /\ LET a      == desk[d]
           source == proposals[a.item.proposal]
       IN  /\ source.version < MaxVersion
           /\ desk' = [desk EXCEPT ![d] = [op |-> "parcel", id |-> a.id, item |-> a.item,
                  actor |-> a.actor, draft |-> Derived(source, a.actor)]]
    /\ UNCHANGED <<vars, conflicts, ctrail>>

\* ... then the parcel, whose current boundary version becomes the base.
LoadBase(d) ==
    /\ desk[d].op = "parcel"
    /\ LET a == desk[d] IN
          desk' = [desk EXCEPT ![d] = [op |-> "apply", id |-> a.id, item |-> a.item,
              actor |-> a.actor, draft |-> [a.draft EXCEPT !.base = parcelVersion[a.draft.parcel]]]]
    /\ UNCHANGED <<vars, conflicts, ctrail>>

\* The transaction: a new proposal, the conflict resolved, an event for each.
CommitApply(d) ==
    /\ desk[d].op = "apply"
    /\ LET a == desk[d] IN
          /\ ConflictMatches(conflicts[a.id], a.item)
          /\ conflicts' = [conflicts EXCEPT ![a.id] = ConflictMoved(@, "resolved", a.actor)]
          /\ \E id \in ProposalId :
                /\ proposals[id] = NoRow
                /\ proposals' = [proposals EXCEPT ![id] = a.draft]
                /\ trail' = [trail EXCEPT ![id] = <<Created(a.draft)>>]
                /\ ctrail' = [ctrail EXCEPT ![a.id] = Append(@,
                      [actor |-> a.actor, from |-> a.item.state, to |-> "resolved", proposal |-> id])]
    /\ desk' = [desk EXCEPT ![d] = Idle]
    /\ UNCHANGED <<parcelVersion, request>>

\* The handler fails at a read or its transaction rolls back.
AbandonDesk(d) ==
    /\ desk[d] # Idle
    /\ desk' = [desk EXCEPT ![d] = Idle]
    /\ UNCHANGED <<vars, conflicts, ctrail>>

ConflictNext ==
    \/ \E k \in ConflictId : DetectConflict(k)
    \/ \E d \in Desk : \/ BeginMove(d)  \/ CommitMove(d)
                       \/ BeginApply(d) \/ LoadSource(d) \/ LoadBase(d) \/ CommitApply(d)
                       \/ AbandonDesk(d)

SystemNext == ConflictNext \/ (Next /\ UNCHANGED conflictVars)

SystemSpec == ConflictInit /\ [][SystemNext]_systemVars

-----------------------------------------------------------------------------
(* Correctness *)

\* Conflict rows, their events and their handlers have the columns of the
\* model, beside the well-formed proposals.
ConflictTypeOK ==
    /\ TypeOK
    /\ conflicts \in [ConflictId -> ConflictRow \cup {NoConflict}]
    /\ ctrail \in [ConflictId -> Seq(ConflictEntry)]
    /\ desk \in [Desk -> {Idle} \cup Moving \cup Applying \cup Deriving]

\* The events of a conflict replay to its row along legal edges, although the
\* row has no version: no state is ever entered twice, so an update that
\* finds the state it read finds the very row it read.
ConflictTrailReplays ==
    \A k \in ConflictId :
        IF conflicts[k] = NoConflict THEN ctrail[k] = <<>>
        ELSE /\ ctrail[k] # <<>>
             /\ ctrail[k][1].from = "none" /\ ctrail[k][1].to = "detected"
             /\ \A i \in 1 .. Len(ctrail[k]) - 1 :
                   /\ ctrail[k][i + 1].from = ctrail[k][i].to
                   /\ CanConflictTransition(ctrail[k][i].to, ctrail[k][i + 1].to)
             /\ ctrail[k][Len(ctrail[k])].to = conflicts[k].state

Applied(k) == {i \in DOMAIN ctrail[k] : ctrail[k][i].proposal # NoRow}

\* A suggestion becomes a proposal at most once, and a proposal that starts
\* beyond version 1 comes from exactly one conflict: from the event that
\* resolved it, by the actor who is the draft's author, on the parcel of the
\* proposal the conflict is about.
SuggestionAppliedOnce ==
    /\ \A k \in ConflictId : Cardinality(Applied(k)) <= 1
    /\ \A k \in ConflictId : \A i \in Applied(k) :
          LET entry == ctrail[k][i]
              draft == proposals[entry.proposal]
          IN  /\ draft # NoRow
              /\ entry.from = "resolution_proposed" /\ entry.to = "resolved"
              /\ draft.createdBy = entry.actor
              /\ draft.parcel = proposals[conflicts[k].proposal].parcel
    /\ \A id \in ProposalId : proposals[id] # NoRow =>
          (trail[id][1].version > 1) <=>
              Cardinality({k \in ConflictId :
                              \E i \in Applied(k) : ctrail[k][i].proposal = id}) = 1

\* resolved_by is the actor of the latest step into resolved or closed, and
\* is empty before; a false positive is thus "resolved by" whoever closed it.
ResolverOfRecord ==
    \A k \in ConflictId : conflicts[k] # NoConflict =>
        LET steps == {i \in DOMAIN ctrail[k] : ctrail[k][i].to \in ResolvingTargets}
        IN  IF steps = {} THEN conflicts[k].resolvedBy = Nobody
            ELSE \E i \in steps : /\ \A j \in steps : j <= i
                                  /\ conflicts[k].resolvedBy = ctrail[k][i].actor

\* A resolution never rewrites the proposal it was found on: applying a
\* suggestion changes no proposal row that is there, and no conflict is
\* undone: closed stays closed and the proposal of a conflict is fixed.
SourceUntouchedStep ==
    /\ ctrail' # ctrail => \A id \in ProposalId :
          proposals[id] # NoRow => proposals'[id] = proposals[id] /\ trail'[id] = trail[id]
    /\ \A k \in ConflictId : conflicts[k] # NoConflict =>
          /\ conflicts'[k] # NoConflict
          /\ conflicts'[k].proposal = conflicts[k].proposal
          /\ conflicts[k].state = "closed" => conflicts'[k] = conflicts[k]

SourceUntouched == [][SourceUntouchedStep]_systemVars

\* Derived drafts are proposals like any other: the composed system still
\* keeps the promise of the abstract lifecycle.
DerivedLifecycle == INSTANCE ProposalLifecycle
                    WITH BaseVersion <- 1 .. MaxParcelVersion, DraftVersion <- 1 .. MaxVersion

SystemImplementsLifecycle == DerivedLifecycle!Spec
=============================================================================
