---------------------- MODULE ConflictResolutionProofs ----------------------
(***************************************************************************)
(* ConflictResolution beside ProposalReview, for any number of conflicts,  *)
(* proposals and handlers of both.                                         *)
(*                                                                         *)
(* But for the commit of an applied suggestion, every step of the system   *)
(* is a step of ProposalReview or leaves it alone; so what is proved of    *)
(* ProposalReview's steps is used as it stands, and CommitApply is added.  *)
(***************************************************************************)
EXTENDS ConflictResolution, ProposalReviewProofs, FiniteSetTheorems

-----------------------------------------------------------------------------
(* What a desk knows *)

\* The conflict it has read is there, about the same proposal.
KnowsConflict(m) ==
    /\ conflicts[m.id] # NoConflict
    /\ conflicts[m.id].proposal = m.item.proposal

\* What it is about to do was legal for the state it has read.
LegalMove(m) ==
    /\ m.op = "move" => CanConflictTransition(m.item.state, m.to)
    /\ m.op # "move" => m.item.state = "resolution_proposed"

\* The draft continues the proposal in question, by another version at least.
GoodDraft(m) ==
    /\ m.op \in {"parcel", "apply"} =>
          /\ m.draft = Draft(proposals[m.item.proposal].parcel, m.draft.base, m.draft.version, m.actor)
          /\ m.draft.version \in 2 .. MaxVersion
    /\ m.op = "apply" => m.draft.base \in 1 .. MaxParcelVersion

DeskSound ==
    \A d \in Desk : desk[d] # Idle =>
        KnowsConflict(desk[d]) /\ LegalMove(desk[d]) /\ GoodDraft(desk[d])

\* Conflicts are about proposals that exist; and these have a history, which
\* counts from one.
RowsKnown ==
    /\ \A k \in ConflictId : conflicts[k] # NoConflict => proposals[conflicts[k].proposal] # NoRow
    /\ \A id \in ProposalId : proposals[id] # NoRow =>
          proposals[id].version \in Nat \ {0} /\ trail[id] # <<>>

Ready == ConflictTypeOK /\ HandlerSound /\ DeskSound /\ RowsKnown

-----------------------------------------------------------------------------
(* What a step does to the tables *)

ConflictEvent(actor, from, to, proposal) ==
    [actor |-> actor, from |-> from, to |-> to, proposal |-> proposal]

\* k appears.
Detected(k, id, actor) ==
    /\ conflicts[k] = NoConflict
    /\ proposals[id] # NoRow
    /\ conflicts' = [conflicts EXCEPT ![k] =
          [proposal |-> id, state |-> "detected", resolvedBy |-> Nobody]]
    /\ ctrail' = [ctrail EXCEPT ![k] = <<ConflictEvent(actor, "none", "detected", NoRow)>>]

\* k moves, legally for the state it is in.
Moves(k, to, actor, proposal) ==
    LET row == conflicts[k] IN
    /\ row \in ConflictRow
    /\ CanConflictTransition(row.state, to)
    /\ conflicts' = [conflicts EXCEPT ![k] = ConflictMoved(row, to, actor)]
    /\ ctrail' = [ctrail EXCEPT ![k] = Append(@, ConflictEvent(actor, row.state, to, proposal))]

\* A draft that continues another proposal appears as id.
Derives(id, parcel, base, version, actor) ==
    /\ proposals[id] = NoRow
    /\ proposals' = [proposals EXCEPT ![id] = Draft(parcel, base, version, actor)]
    /\ trail' = [trail EXCEPT ![id] = <<Created(Draft(parcel, base, version, actor))>>]
    /\ UNCHANGED <<parcelVersion, request>>

\* k is resolved, and the resolution appears as proposal id.
Applies(k, id, base, version, actor) ==
    /\ conflicts[k].state = "resolution_proposed"
    /\ Moves(k, "resolved", actor, id)
    /\ Derives(id, proposals[conflicts[k].proposal].parcel, base, version, actor)

\* The conflicts rest, while proposals go on; or a conflict appears or moves,
\* while proposals rest; or a suggestion is applied.
TableStep ==
    \/ UNCHANGED <<conflicts, ctrail>> /\ [Next]_vars
    \/ /\ UNCHANGED vars
       /\ \/ \E k \in ConflictId, id \in ProposalId, actor \in Actor : Detected(k, id, actor)
          \/ \E k \in ConflictId, to \in ConflictStates, actor \in Actor : Moves(k, to, actor, NoRow)
    \/ \E k \in ConflictId, id \in ProposalId, base \in 1 .. MaxParcelVersion,
          version \in 2 .. MaxVersion, actor \in Actor : Applies(k, id, base, version, actor)

\* A commit whose WHERE clause matches the state finds the conflict in the
\* state its handler has read, if not the row.
LEMMA StepIsTableStep == Ready /\ [SystemNext]_systemVars => TableStep
<1>. SUFFICES ASSUME Ready, [SystemNext]_systemVars
              PROVE  TableStep
  OBVIOUS
<1>. USE DEF Ready
<1>1. ASSUME NEW k \in ConflictId, DetectConflict(k)
      PROVE  TableStep
  <2>1. PICK id \in ProposalId, actor \in Actor :
          /\ proposals[id] # NoRow
          /\ conflicts' = [conflicts EXCEPT ![k] =
                [proposal |-> id, state |-> "detected", resolvedBy |-> Nobody]]
          /\ ctrail' = [ctrail EXCEPT ![k] = <<ConflictEvent(actor, "none", "detected", NoRow)>>]
    BY <1>1 DEF DetectConflict, ConflictEvent
  <2>2. Detected(k, id, actor)
    BY <1>1, <2>1 DEF DetectConflict, Detected
  <2>. QED  BY <1>1, <2>2 DEF DetectConflict, TableStep
<1>2. ASSUME NEW d \in Desk, CommitMove(d)
      PROVE  TableStep
  <2>. DEFINE m == desk[d]
  <2>1. m \in Moving
    <3>1. m.op = "move" /\ m \in {Idle} \cup Moving \cup Applying \cup Deriving
      BY <1>2 DEF CommitMove, ConflictTypeOK
    <3>. QED  BY <3>1 DEF Idle, Applying, Deriving
  <2>2. m.id \in ConflictId /\ m.to \in ConflictStates /\ m.actor \in Actor /\ m.op = "move"
    BY <2>1 DEF Moving
  <2>3. conflicts[m.id] \in ConflictRow /\ CanConflictTransition(m.item.state, m.to)
    BY <2>2 DEF ConflictTypeOK, DeskSound, KnowsConflict, LegalMove, Idle
  <2>4. Moves(m.id, m.to, m.actor, NoRow)
    BY <1>2, <2>2, <2>3 DEF CommitMove, ConflictMatches, Moves, ConflictEvent, ConflictTypeOK
  <2>. QED  BY <1>2, <2>2, <2>4 DEF CommitMove, TableStep
<1>3. ASSUME NEW d \in Desk, CommitApply(d)
      PROVE  TableStep
  <2>. DEFINE a == desk[d]
  <2>1. a \in Deriving
    BY <1>3 DEF CommitApply, ConflictTypeOK, Moving, Applying, Idle
  <2>2. a.id \in ConflictId /\ a.actor \in Actor /\ a.op = "apply" /\ a.draft \in Row
    BY <1>3, <2>1 DEF Deriving, CommitApply
  <2>3. /\ conflicts[a.id] \in ConflictRow /\ conflicts[a.id].proposal = a.item.proposal
        /\ a.item.state = "resolution_proposed"
        /\ a.draft = Draft(proposals[a.item.proposal].parcel, a.draft.base, a.draft.version, a.actor)
        /\ a.draft.version \in 2 .. MaxVersion /\ a.draft.base \in 1 .. MaxParcelVersion
    BY <2>2 DEF ConflictTypeOK, DeskSound, KnowsConflict, LegalMove, GoodDraft, Idle
  <2>4. PICK id \in ProposalId :
          /\ proposals[id] = NoRow
          /\ proposals' = [proposals EXCEPT ![id] = a.draft]
          /\ trail' = [trail EXCEPT ![id] = <<Created(a.draft)>>]
          /\ ctrail' = [ctrail EXCEPT ![a.id] = Append(@,
                ConflictEvent(a.actor, a.item.state, "resolved", id))]
    BY <1>3 DEF CommitApply, ConflictEvent
  <2>5. conflicts[a.id].state = "resolution_proposed"
    BY <1>3, <2>3 DEF CommitApply, ConflictMatches
  <2>6. Moves(a.id, "resolved", a.actor, id)
    BY <1>3, <2>2, <2>3, <2>4, <2>5
       DEF CommitApply, Moves, CanConflictTransition, ConflictTransitions, ConflictTypeOK
  <2>7. Derives(id, proposals[conflicts[a.id].proposal].parcel, a.draft.base, a.draft.version, a.actor)
    BY <1>3, <2>3, <2>4 DEF CommitApply, Derives
  <2>8. Applies(a.id, id, a.draft.base, a.draft.version, a.actor)
    BY <2>5, <2>6, <2>7 DEF Applies
  <2>. QED  BY <2>2, <2>3, <2>8 DEF TableStep
<1>4. CASE UNCHANGED <<conflicts, ctrail>> /\ [Next]_vars
  BY <1>4 DEF TableStep
<1>. QED  BY <1>1, <1>2, <1>3, <1>4
          DEF SystemNext, ConflictNext, systemVars, conflictVars, BeginMove, BeginApply,
              LoadSource, LoadBase, AbandonDesk

-----------------------------------------------------------------------------
(* Proposals *)

\* What a step of the system makes of one proposal: nothing, a new draft of
\* the first version, a draft that continues another one, or a transition.
LEMMA StepOfOneProposal ==
    ASSUME Ready, TableStep, NEW id \in ProposalId
    PROVE  \/ proposals'[id] = proposals[id] /\ trail'[id] = trail[id]
           \/ /\ proposals[id] = NoRow
              /\ \E parcel \in ParcelId, base \in Nat, version \in Nat \ {0}, actor \in Actor :
                    LET row == Draft(parcel, base, version, actor) IN
                    proposals'[id] = row /\ trail'[id] = <<Created(row)>>
           \/ /\ proposals[id] \in Row
              /\ \E to \in ProposalStates, actor \in Actor :
                    /\ proposals'[id] = Moved(proposals[id], to, actor)
                    /\ trail'[id] = Append(trail[id], StateChanged(proposals[id], to, actor))
<1>. USE DEF Ready, ConflictTypeOK
<1>1. CASE UNCHANGED vars
  BY <1>1 DEF vars
<1>2. CASE [Next]_vars
  <2>1. [Lifecycle!Next]_<<proposals, trail>>
    BY <1>2, StepLifecycle
  <2>. QED  BY <2>1, LifecycleStepOfOne
<1>3. ASSUME NEW k \in ConflictId, NEW other \in ProposalId, NEW base \in 1 .. MaxParcelVersion,
             NEW version \in 2 .. MaxVersion, NEW actor \in Actor,
             Applies(k, other, base, version, actor)
      PROVE  \/ proposals'[id] = proposals[id] /\ trail'[id] = trail[id]
             \/ /\ proposals[id] = NoRow
                /\ \E parcel \in ParcelId, b \in Nat, v \in Nat \ {0}, a \in Actor :
                      LET row == Draft(parcel, b, v, a) IN
                      proposals'[id] = row /\ trail'[id] = <<Created(row)>>
  <2>1. proposals[conflicts[k].proposal] \in Row
    BY <1>3, ConflictAssumption DEF Applies, Moves, ConflictRow, RowsKnown, TypeOK
  <2>. DEFINE parcel == proposals[conflicts[k].proposal].parcel
  <2>2. parcel \in ParcelId /\ base \in Nat /\ version \in Nat \ {0}
    BY <2>1, BoundsAssumption DEF Row
  <2>3. /\ proposals[other] = NoRow
        /\ proposals' = [proposals EXCEPT ![other] = Draft(parcel, base, version, actor)]
        /\ trail' = [trail EXCEPT ![other] = <<Created(Draft(parcel, base, version, actor))>>]
    BY <1>3 DEF Applies, Derives
  <2>. HIDE DEF parcel
  <2>4. CASE id = other
    BY <2>2, <2>3, <2>4 DEF TypeOK
  <2>5. CASE id # other
    BY <2>3, <2>5 DEF TypeOK
  <2>. QED  BY <2>4, <2>5
<1>. QED  BY <1>1, <1>2, <1>3 DEF TableStep

\* A proposal keeps its parcel and its author, and the beginning of its history.
RowsEvolve ==
    \A id \in ProposalId : proposals[id] # NoRow =>
        /\ proposals'[id] # NoRow
        /\ proposals'[id].parcel = proposals[id].parcel
        /\ proposals'[id].createdBy = proposals[id].createdBy
        /\ proposals'[id].version \in Nat \ {0}
        /\ trail'[id] # <<>> /\ trail'[id][1] = trail[id][1]

\* A step of the system keeps all that.
LEMMA StepRowsEvolve == Ready /\ TableStep => RowsEvolve
<1>. SUFFICES ASSUME Ready, TableStep, NEW id \in ProposalId, proposals[id] # NoRow
              PROVE  /\ proposals'[id] # NoRow
                     /\ proposals'[id].parcel = proposals[id].parcel
                     /\ proposals'[id].createdBy = proposals[id].createdBy
                     /\ proposals'[id].version \in Nat \ {0}
                     /\ trail'[id] # <<>> /\ trail'[id][1] = trail[id][1]
  BY DEF RowsEvolve
<1>1. /\ proposals[id].version \in Nat \ {0} /\ trail[id] # <<>> /\ trail[id] \in Seq(Entry)
      /\ proposals[id] \in Row
  BY DEF Ready, RowsKnown, ConflictTypeOK, TypeOK
<1>2. CASE proposals'[id] = proposals[id] /\ trail'[id] = trail[id]
  BY <1>1, <1>2
<1>3. ASSUME NEW to \in ProposalStates, NEW actor \in Actor,
             proposals'[id] = Moved(proposals[id], to, actor),
             trail'[id] = Append(trail[id], StateChanged(proposals[id], to, actor))
      PROVE  /\ proposals'[id] # NoRow
             /\ proposals'[id].parcel = proposals[id].parcel
             /\ proposals'[id].createdBy = proposals[id].createdBy
             /\ proposals'[id].version \in Nat \ {0}
             /\ trail'[id] # <<>> /\ trail'[id][1] = trail[id][1]
  <2>1. /\ proposals'[id] \in Row /\ proposals'[id].version = proposals[id].version + 1
        /\ proposals'[id].parcel = proposals[id].parcel
        /\ proposals'[id].createdBy = proposals[id].createdBy
    BY <1>1, <1>3, MovedIsRow
  <2>2. StateChanged(proposals[id], to, actor) \in Entry
    BY <1>1, StateChangedIsEntry
  <2>3. trail'[id] # <<>> /\ trail'[id][1] = trail[id][1]
    BY <1>1, <1>3, <2>2
  <2>. QED  BY <1>1, <2>1, <2>3, RecordsAssumption
<1>. QED  BY <1>2, <1>3, StepOfOneProposal

\* Every step is one of the abstract lifecycle.
LEMMA StepDerivedLifecycle ==
    Ready /\ TableStep => [DerivedLifecycle!Next]_<<proposals, trail>>
<1>. SUFFICES ASSUME Ready, TableStep
              PROVE  DerivedLifecycle!Next \/ UNCHANGED <<proposals, trail>>
  OBVIOUS
<1>. USE DEF Ready, ConflictTypeOK
<1>0. /\ \A parcel, base, version, actor :
            /\ Lifecycle!Draft(parcel, base, version, actor) = Draft(parcel, base, version, actor)
            /\ DerivedLifecycle!Draft(parcel, base, version, actor)
                  = Draft(parcel, base, version, actor)
      /\ \A id \in ProposalId : \A row : Lifecycle!Create(id, row) => DerivedLifecycle!Create(id, row)
      /\ \A id \in ProposalId : \A to, actor :
            Lifecycle!Transition(id, to, actor) => DerivedLifecycle!Transition(id, to, actor)
      /\ Lifecycle!ProposalStates = DerivedLifecycle!ProposalStates
  BY DEF Draft, Lifecycle!Draft, DerivedLifecycle!Draft,
         Lifecycle!Create, DerivedLifecycle!Create, Lifecycle!Created, DerivedLifecycle!Created,
         Lifecycle!Transition, DerivedLifecycle!Transition,
         Lifecycle!CanProposalTransition, DerivedLifecycle!CanProposalTransition,
         Lifecycle!ProposalTransitions, DerivedLifecycle!ProposalTransitions,
         Lifecycle!MayTransitionProposal, DerivedLifecycle!MayTransitionProposal,
         Lifecycle!AuthoringTargets, DerivedLifecycle!AuthoringTargets,
         Lifecycle!ReviewTargets, DerivedLifecycle!ReviewTargets,
         Lifecycle!Moved, DerivedLifecycle!Moved,
         Lifecycle!StateChanged, DerivedLifecycle!StateChanged,
         Lifecycle!ProposalStates, DerivedLifecycle!ProposalStates
<1>1. CASE UNCHANGED vars
  BY <1>1 DEF vars
<1>2. CASE [Next]_vars
  <2>1. [Lifecycle!Next]_<<proposals, trail>>
    BY <1>2, StepLifecycle
  <2>2. 1 \in 1 .. MaxVersion
    BY BoundsAssumption
  <2>3. Lifecycle!Next => DerivedLifecycle!Next
    BY <1>0, <2>2 DEF Lifecycle!Next, DerivedLifecycle!Next
  <2>. QED  BY <2>1, <2>3
<1>3. ASSUME NEW k \in ConflictId, NEW id \in ProposalId, NEW base \in 1 .. MaxParcelVersion,
             NEW version \in 2 .. MaxVersion, NEW actor \in Actor,
             Applies(k, id, base, version, actor)
      PROVE  DerivedLifecycle!Next
  <2>. DEFINE parcel == proposals[conflicts[k].proposal].parcel
  <2>1. parcel \in ParcelId
    <3>1. proposals[conflicts[k].proposal] \in Row
      BY <1>3, ConflictAssumption DEF Applies, Moves, ConflictRow, RowsKnown, TypeOK
    <3>. QED  BY <3>1 DEF Row
  <2>2. DerivedLifecycle!Create(id, Draft(parcel, base, version, actor))
    BY <1>3 DEF Applies, Derives, DerivedLifecycle!Create, DerivedLifecycle!Created, Created
  <2>3. version \in 1 .. MaxVersion
    BY BoundsAssumption
  <2>. HIDE DEF parcel
  <2>. QED  BY <1>0, <2>1, <2>2, <2>3 DEF DerivedLifecycle!Next
<1>. QED  BY <1>1, <1>2, <1>3 DEF TableStep

-----------------------------------------------------------------------------
(* Everything remains ready for the next step *)

\* A derived draft is a well-formed proposal, and disturbs no handler of
\* ProposalReview.
LEMMA DeriveKeepsProposals ==
    ASSUME TypeOK, HandlerSound,
           NEW id \in ProposalId, NEW parcel \in ParcelId, NEW base \in Nat, NEW version \in Nat,
           NEW actor \in Actor, Derives(id, parcel, base, version, actor)
    PROVE  TypeOK' /\ HandlerSound'
<1>. DEFINE row == Draft(parcel, base, version, actor)
<1>1. row \in Row /\ Created(row) \in Entry
  BY DraftIsRow, CreatedIsEntry
<1>2. /\ proposals[id] = NoRow
      /\ proposals' = [proposals EXCEPT ![id] = row]
      /\ trail' = [trail EXCEPT ![id] = <<Created(row)>>]
      /\ UNCHANGED <<parcelVersion, request>>
  BY DEF Derives
<1>. HIDE DEF row
<1>3. TypeOK'
  BY <1>1, <1>2 DEF TypeOK
<1>4. \A other \in ProposalId : proposals[other] # NoRow => proposals'[other] = proposals[other]
  BY <1>2 DEF TypeOK
<1>5. HandlerSound'
  <2>1. ASSUME NEW s \in Slot, request[s].op = "transition"
        PROVE  LET r == request[s] IN
               /\ proposals'[r.id] # NoRow
               /\ r.item.version <= proposals'[r.id].version
               /\ r.item.version = proposals'[r.id].version => r.item = proposals'[r.id]
    <3>1. request[s].id \in ProposalId
      BY <2>1 DEF TypeOK, Idle, Creating, Transitioning
    <3>. QED  BY <1>4, <2>1, <3>1 DEF HandlerSound
  <2>. QED  BY <1>2, <2>1 DEF HandlerSound
<1>. QED  BY <1>3, <1>5

\* The tables of proposals.
LEMMA StepProposals == Ready /\ TableStep => TypeOK' /\ HandlerSound'
<1>. SUFFICES ASSUME Ready, TableStep
              PROVE  TypeOK' /\ HandlerSound'
  OBVIOUS
<1>. USE DEF Ready, ConflictTypeOK
<1>1. CASE [Next]_vars
  BY <1>1, StepTypeOK, StepHandlerSound
<1>2. ASSUME NEW k \in ConflictId, NEW id \in ProposalId, NEW base \in 1 .. MaxParcelVersion,
             NEW version \in 2 .. MaxVersion, NEW actor \in Actor,
             Applies(k, id, base, version, actor)
      PROVE  TypeOK' /\ HandlerSound'
  <2>1. proposals[conflicts[k].proposal] \in Row
    BY <1>2, ConflictAssumption DEF Applies, Moves, ConflictRow, RowsKnown, TypeOK
  <2>2. proposals[conflicts[k].proposal].parcel \in ParcelId /\ base \in Nat /\ version \in Nat
    BY <2>1, BoundsAssumption DEF Row
  <2>. QED  BY <1>2, <2>2, DeriveKeepsProposals DEF Applies
<1>. QED  BY <1>1, <1>2 DEF TableStep

\* A conflict that moves keeps what it is about.
LEMMA MovedConflict ==
    ASSUME NEW row \in ConflictRow, NEW to \in ConflictStates, NEW actor \in Actor,
           NEW next, next = ConflictMoved(row, to, actor)
    PROVE  /\ next \in ConflictRow /\ next # NoConflict
           /\ next.proposal = row.proposal
           /\ next.state = to
           /\ next.resolvedBy = IF to \in ResolvingTargets THEN actor ELSE row.resolvedBy
<1>1. next = [proposal |-> row.proposal, state |-> to,
              resolvedBy |-> IF to \in ResolvingTargets THEN actor ELSE row.resolvedBy]
  BY DEF ConflictMoved, ConflictRow
<1>. QED  BY <1>1, ConflictAssumption DEF ConflictRow

\* What a step of the system makes of one conflict: nothing, a new one, or a
\* legal move, which is a resolution by a proposal or else names none.
LEMMA StepOfOneConflict ==
    ASSUME Ready, TableStep, NEW k \in ConflictId
    PROVE  \/ conflicts'[k] = conflicts[k] /\ ctrail'[k] = ctrail[k]
           \/ \E id \in ProposalId, actor \in Actor :
                 /\ conflicts[k] = NoConflict /\ proposals[id] # NoRow
                 /\ conflicts'[k] = [proposal |-> id, state |-> "detected", resolvedBy |-> Nobody]
                 /\ ctrail'[k] = <<ConflictEvent(actor, "none", "detected", NoRow)>>
           \/ \E to \in ConflictStates, actor \in Actor, id \in ProposalId \cup {NoRow} :
                 /\ conflicts[k] \in ConflictRow
                 /\ CanConflictTransition(conflicts[k].state, to)
                 /\ conflicts'[k] = ConflictMoved(conflicts[k], to, actor)
                 /\ ctrail'[k] = Append(ctrail[k], ConflictEvent(actor, conflicts[k].state, to, id))
<1>. USE DEF Ready, ConflictTypeOK
<1>1. CASE UNCHANGED <<conflicts, ctrail>>
  BY <1>1
<1>2. ASSUME NEW other \in ConflictId, NEW id \in ProposalId, NEW actor \in Actor,
             Detected(other, id, actor)
      PROVE  \/ conflicts'[k] = conflicts[k] /\ ctrail'[k] = ctrail[k]
             \/ /\ conflicts[k] = NoConflict /\ proposals[id] # NoRow
                /\ conflicts'[k] = [proposal |-> id, state |-> "detected", resolvedBy |-> Nobody]
                /\ ctrail'[k] = <<ConflictEvent(actor, "none", "detected", NoRow)>>
  BY <1>2 DEF Detected
<1>3. ASSUME NEW other \in ConflictId, NEW to \in ConflictStates, NEW actor \in Actor,
             NEW id \in ProposalId \cup {NoRow}, Moves(other, to, actor, id)
      PROVE  \/ conflicts'[k] = conflicts[k] /\ ctrail'[k] = ctrail[k]
             \/ /\ conflicts[k] \in ConflictRow
                /\ CanConflictTransition(conflicts[k].state, to)
                /\ conflicts'[k] = ConflictMoved(conflicts[k], to, actor)
                /\ ctrail'[k] = Append(ctrail[k], ConflictEvent(actor, conflicts[k].state, to, id))
  BY <1>3 DEF Moves
<1>4. "resolved" \in ConflictStates
  BY DEF ConflictStates
<1>5. CASE UNCHANGED vars /\ \E other \in ConflictId, id \in ProposalId, actor \in Actor :
                                 Detected(other, id, actor)
  BY <1>2, <1>5
<1>6. CASE UNCHANGED vars /\ \E other \in ConflictId, to \in ConflictStates, actor \in Actor :
                                 Moves(other, to, actor, NoRow)
  BY <1>3, <1>6
<1>7. CASE \E other \in ConflictId, id \in ProposalId, base \in 1 .. MaxParcelVersion,
              version \in 2 .. MaxVersion, actor \in Actor : Applies(other, id, base, version, actor)
  <2>1. PICK other \in ConflictId, id \in ProposalId, actor \in Actor :
          Moves(other, "resolved", actor, id)
    BY <1>7 DEF Applies
  <2>. QED  BY <1>3, <1>4, <2>1
<1>. QED  BY <1>1, <1>5, <1>6, <1>7 DEF TableStep

\* The tables of conflicts.
LEMMA StepConflictTables ==
    ASSUME Ready, TableStep
    PROVE  /\ conflicts' \in [ConflictId -> ConflictRow \cup {NoConflict}]
           /\ ctrail' \in [ConflictId -> Seq(ConflictEntry)]
<1>. USE DEF Ready, ConflictTypeOK
<1>1. /\ DOMAIN conflicts' = ConflictId /\ conflicts' = [k \in ConflictId |-> conflicts'[k]]
      /\ DOMAIN ctrail' = ConflictId /\ ctrail' = [k \in ConflictId |-> ctrail'[k]]
  BY DEF TableStep, Detected, Moves, Applies
<1>2. ASSUME NEW k \in ConflictId
      PROVE  conflicts'[k] \in ConflictRow \cup {NoConflict} /\ ctrail'[k] \in Seq(ConflictEntry)
  <2>1. ASSUME NEW id \in ProposalId, NEW actor \in Actor,
               conflicts'[k] = [proposal |-> id, state |-> "detected", resolvedBy |-> Nobody],
               ctrail'[k] = <<ConflictEvent(actor, "none", "detected", NoRow)>>
        PROVE  conflicts'[k] \in ConflictRow /\ ctrail'[k] \in Seq(ConflictEntry)
    <3>1. ConflictEvent(actor, "none", "detected", NoRow) \in ConflictEntry
      BY DEF ConflictEvent, ConflictEntry, ConflictStates
    <3>. QED  BY <2>1, <3>1 DEF ConflictRow, ConflictStates
  <2>2. ASSUME NEW to \in ConflictStates, NEW actor \in Actor, NEW id \in ProposalId \cup {NoRow},
               conflicts[k] \in ConflictRow,
               conflicts'[k] = ConflictMoved(conflicts[k], to, actor),
               ctrail'[k] = Append(ctrail[k], ConflictEvent(actor, conflicts[k].state, to, id))
        PROVE  conflicts'[k] \in ConflictRow /\ ctrail'[k] \in Seq(ConflictEntry)
    <3>1. ConflictEvent(actor, conflicts[k].state, to, id) \in ConflictEntry
      BY <2>2 DEF ConflictEvent, ConflictEntry, ConflictRow
    <3>. QED  BY <2>2, <3>1, MovedConflict
  <2>. QED  BY <2>1, <2>2, StepOfOneConflict
<1>. QED  BY <1>1, <1>2

\* A conflict stays a conflict about the same proposal.
ConflictsEvolve ==
    \A k \in ConflictId : conflicts[k] # NoConflict =>
        /\ conflicts'[k] # NoConflict
        /\ conflicts'[k].proposal = conflicts[k].proposal
        /\ conflicts[k].state = "closed" => conflicts'[k] = conflicts[k]

\* A step of the system keeps all that.
LEMMA StepConflictsEvolve == Ready /\ TableStep => ConflictsEvolve
<1>. SUFFICES ASSUME Ready, TableStep, NEW k \in ConflictId, conflicts[k] # NoConflict
              PROVE  /\ conflicts'[k] # NoConflict
                     /\ conflicts'[k].proposal = conflicts[k].proposal
                     /\ conflicts[k].state = "closed" => conflicts'[k] = conflicts[k]
  BY DEF ConflictsEvolve
<1>1. ASSUME NEW to \in ConflictStates, NEW actor \in Actor, conflicts[k] \in ConflictRow,
             CanConflictTransition(conflicts[k].state, to),
             conflicts'[k] = ConflictMoved(conflicts[k], to, actor)
      PROVE  /\ conflicts'[k] # NoConflict
             /\ conflicts'[k].proposal = conflicts[k].proposal
             /\ conflicts[k].state # "closed"
  BY <1>1, MovedConflict DEF CanConflictTransition, ConflictTransitions
<1>. QED  BY <1>1, StepOfOneConflict

\* Conflicts stay on proposals, and these keep their histories.
LEMMA StepRowsKnown == Ready /\ TableStep => RowsKnown'
<1>. SUFFICES ASSUME Ready, TableStep
              PROVE  RowsKnown'
  OBVIOUS
<1>. USE DEF Ready, RowsKnown
<1>1. RowsEvolve
  BY StepRowsEvolve
<1>2. ASSUME NEW id \in ProposalId, proposals'[id] # NoRow
      PROVE  proposals'[id].version \in Nat \ {0} /\ trail'[id] # <<>>
  <2>1. CASE proposals[id] # NoRow
    BY <1>1, <2>1 DEF RowsEvolve
  <2>2. CASE proposals[id] = NoRow
    <3>1. PICK parcel \in ParcelId, base \in Nat, version \in Nat \ {0}, actor \in Actor :
            LET row == Draft(parcel, base, version, actor) IN
            proposals'[id] = row /\ trail'[id] = <<Created(row)>>
      BY <1>2, <2>2, StepOfOneProposal, RecordsAssumption
    <3>. QED  BY <3>1 DEF Draft
  <2>. QED  BY <2>1, <2>2
<1>3. ASSUME NEW k \in ConflictId, conflicts'[k] # NoConflict
      PROVE  proposals'[conflicts'[k].proposal] # NoRow
  <2>1. CASE conflicts[k] # NoConflict
    <3>1. conflicts[k].proposal \in ProposalId
      BY <2>1 DEF ConflictTypeOK, ConflictRow
    <3>. QED  BY <1>1, <2>1, <3>1, StepConflictsEvolve DEF ConflictsEvolve, RowsEvolve
  <2>2. CASE conflicts[k] = NoConflict
    <3>1. conflicts[k] \notin ConflictRow /\ conflicts'[k] # conflicts[k]
      BY <1>3, <2>2, ConflictAssumption
    <3>2. \E id \in ProposalId :
             /\ proposals[id] # NoRow
             /\ conflicts'[k] = [proposal |-> id, state |-> "detected", resolvedBy |-> Nobody]
      BY <3>1, StepOfOneConflict
    <3>. QED  BY <1>1, <3>2 DEF RowsEvolve
  <2>. QED  BY <2>1, <2>2
<1>. QED  BY <1>2, <1>3

-----------------------------------------------------------------------------
(* Desks *)

\* What a step does to one desk: nothing; it is cleared; or it begins, or goes
\* on from one read to the next.
DeskStep(d) ==
    \/ desk'[d] = desk[d] \/ desk'[d] = Idle
    \/ BeginMove(d) \/ BeginApply(d) \/ LoadSource(d) \/ LoadBase(d)

\* That is all a step does to a desk.
LEMMA StepOfOneDesk ==
    ASSUME Ready, [SystemNext]_systemVars, NEW d \in Desk
    PROVE  DeskStep(d)
<1>. USE DEF Ready, ConflictTypeOK
<1>1. ASSUME NEW e \in Desk,
             \/ BeginMove(e)  \/ CommitMove(e)
             \/ BeginApply(e) \/ LoadSource(e) \/ LoadBase(e) \/ CommitApply(e)
             \/ AbandonDesk(e)
      PROVE  DeskStep(d)
  <2>1. CASE e # d
    BY <1>1, <2>1 DEF DeskStep, BeginMove, CommitMove, BeginApply, LoadSource, LoadBase,
                      CommitApply, AbandonDesk
  <2>2. CASE e = d
    BY <1>1, <2>2 DEF DeskStep, CommitMove, CommitApply, AbandonDesk
  <2>. QED  BY <2>1, <2>2
<1>2. ASSUME desk' = desk
      PROVE  DeskStep(d)
  BY <1>2 DEF DeskStep
<1>3. ASSUME NEW k \in ConflictId, DetectConflict(k)
      PROVE  DeskStep(d)
  BY <1>2, <1>3 DEF DetectConflict
<1>. QED  BY <1>1, <1>2, <1>3 DEF SystemNext, ConflictNext, systemVars, conflictVars

\* A desk that begins to move a conflict.
LEMMA MoveBegins ==
    ASSUME Ready, NEW d \in Desk, BeginMove(d)
    PROVE  \E m \in Moving : /\ desk'[d] = m
                             /\ conflicts'[m.id] # NoConflict
                             /\ conflicts'[m.id].proposal = m.item.proposal
                             /\ CanConflictTransition(m.item.state, m.to)
<1>. USE DEF Ready, ConflictTypeOK
<1>1. PICK k \in ConflictId, to \in ConflictStates, actor \in Actor :
        /\ conflicts[k] # NoConflict
        /\ CanConflictTransition(conflicts[k].state, to)
        /\ desk' = [desk EXCEPT ![d] = [op |-> "move", id |-> k, item |-> conflicts[k],
                                        to |-> to, actor |-> actor]]
  BY DEF BeginMove
<1>2. [op |-> "move", id |-> k, item |-> conflicts[k], to |-> to, actor |-> actor] \in Moving
  BY <1>1 DEF Moving
<1>3. PICK m \in Moving : m = [op |-> "move", id |-> k, item |-> conflicts[k],
                               to |-> to, actor |-> actor]
  BY <1>2
<1>4. desk'[d] = m
  BY <1>1, <1>3
<1>5. conflicts' = conflicts
  BY DEF BeginMove
<1>. QED  BY <1>1, <1>3, <1>4, <1>5

\* A desk that begins to apply a suggestion.
LEMMA ApplyBegins ==
    ASSUME Ready, NEW d \in Desk, BeginApply(d)
    PROVE  \E m \in Applying : /\ desk'[d] = m
                               /\ conflicts'[m.id] # NoConflict
                               /\ conflicts'[m.id].proposal = m.item.proposal
                               /\ m.item.state = "resolution_proposed"
<1>. USE DEF Ready, ConflictTypeOK
<1>1. PICK k \in ConflictId, actor \in Actor :
        /\ conflicts[k] # NoConflict
        /\ conflicts[k].state = "resolution_proposed"
        /\ desk' = [desk EXCEPT ![d] = [op |-> "source", id |-> k, item |-> conflicts[k],
                                        actor |-> actor]]
  BY DEF BeginApply
<1>2. [op |-> "source", id |-> k, item |-> conflicts[k], actor |-> actor] \in Applying
  BY <1>1 DEF Applying
<1>3. PICK m \in Applying : m = [op |-> "source", id |-> k, item |-> conflicts[k],
                                 actor |-> actor]
  BY <1>2
<1>4. desk'[d] = m
  BY <1>1, <1>3
<1>5. conflicts' = conflicts
  BY DEF BeginApply
<1>. QED  BY <1>1, <1>3, <1>4, <1>5

\* A desk that has read the source.
LEMMA SourceLoaded ==
    ASSUME Ready, NEW d \in Desk, LoadSource(d)
    PROVE  \E m \in Deriving :
              /\ desk'[d] = m
              /\ m.op = "parcel" /\ m.id = desk[d].id /\ m.item = desk[d].item
              /\ m.draft = Draft(proposals[m.item.proposal].parcel, m.draft.base,
                                 m.draft.version, m.actor)
              /\ m.draft.version \in 2 .. MaxVersion
<1>. USE DEF Ready, ConflictTypeOK
<1>. DEFINE a == desk[d]
            source == proposals[a.item.proposal]
            m == [op |-> "parcel", id |-> a.id, item |-> a.item, actor |-> a.actor,
                  draft |-> Derived(source, a.actor)]
<1>1. a \in Applying
  <2>1. a.op = "source" /\ a \in {Idle} \cup Moving \cup Applying \cup Deriving
    BY DEF LoadSource
  <2>. QED  BY <2>1 DEF Idle, Moving, Deriving
<1>2. a.id \in ConflictId /\ a.item \in ConflictRow /\ a.actor \in Actor
  BY <1>1 DEF Applying
<1>3. a.item.proposal \in ProposalId /\ source # NoRow
  BY <1>1, <1>2 DEF DeskSound, KnowsConflict, RowsKnown, Applying, ConflictRow, Idle
<1>4. source \in Row /\ source.version \in Nat \ {0}
  BY <1>3 DEF RowsKnown, TypeOK
<1>5. source.version < MaxVersion /\ desk' = [desk EXCEPT ![d] = m]
  BY DEF LoadSource
<1>6. /\ source.parcel \in ParcelId /\ source.version + 1 \in 2 .. MaxVersion
      /\ source.version + 1 \in Nat
  BY <1>4, <1>5, BoundsAssumption DEF Row
<1>7. Derived(source, a.actor) = Draft(source.parcel, 0, source.version + 1, a.actor)
  BY DEF Derived
<1>8. Derived(source, a.actor) \in Row
  BY <1>2, <1>6, <1>7, DraftIsRow
<1>9. m \in Deriving
  BY <1>2, <1>8 DEF Deriving
<1>10. desk'[d] = m
  BY <1>5
<1>11. /\ m.draft.version = source.version + 1 /\ m.draft.base = 0
       /\ m.draft = Draft(source.parcel, m.draft.base, m.draft.version, m.actor)
  BY <1>7 DEF Draft
<1>12. m.op = "parcel" /\ m.id = a.id /\ m.item = a.item
  OBVIOUS
<1>. HIDE DEF m
<1>. QED  BY <1>6, <1>9, <1>10, <1>11, <1>12

\* A desk that has read the parcel.
LEMMA BaseLoaded ==
    ASSUME Ready, NEW d \in Desk, LoadBase(d)
    PROVE  \E m \in Deriving :
              /\ desk'[d] = m
              /\ m.op = "apply" /\ m.id = desk[d].id /\ m.item = desk[d].item
              /\ m.draft = Draft(proposals[m.item.proposal].parcel, m.draft.base,
                                 m.draft.version, m.actor)
              /\ m.draft.version \in 2 .. MaxVersion
              /\ m.draft.base \in 1 .. MaxParcelVersion
<1>. USE DEF Ready, ConflictTypeOK
<1>. DEFINE a == desk[d]
            base == parcelVersion[a.draft.parcel]
            m == [op |-> "apply", id |-> a.id, item |-> a.item, actor |-> a.actor,
                  draft |-> [a.draft EXCEPT !.base = base]]
<1>1. a \in Deriving /\ a.op = "parcel"
  <2>1. a.op = "parcel" /\ a \in {Idle} \cup Moving \cup Applying \cup Deriving
    BY DEF LoadBase
  <2>. QED  BY <2>1 DEF Idle, Moving, Applying
<1>2. a.id \in ConflictId /\ a.item \in ConflictRow /\ a.actor \in Actor /\ a.draft \in Row
  BY <1>1 DEF Deriving
<1>3. base \in 1 .. MaxParcelVersion /\ base \in Nat
  BY <1>2, BoundsAssumption DEF TypeOK, Row
<1>4. /\ a.draft = Draft(proposals[a.item.proposal].parcel, a.draft.base, a.draft.version, a.actor)
      /\ a.draft.version \in 2 .. MaxVersion
  BY <1>1 DEF DeskSound, GoodDraft, Idle
<1>6. /\ [a.draft EXCEPT !.base = base] \in Row
      /\ [a.draft EXCEPT !.base = base].base = base
      /\ [a.draft EXCEPT !.base = base].version = a.draft.version
  BY <1>2, <1>3 DEF Row
<1>7. [a.draft EXCEPT !.base = base]
         = Draft(proposals[a.item.proposal].parcel, base, a.draft.version, a.actor)
  <2>1. \A parcel, old, version, actor :
           [Draft(parcel, old, version, actor) EXCEPT !.base = base]
              = Draft(parcel, base, version, actor)
    BY DEF Draft
  <2>. QED  BY <1>4, <2>1
<1>8. m \in Deriving
  BY <1>2, <1>6 DEF Deriving
<1>9. desk'[d] = m
  BY DEF LoadBase
<1>10. /\ m.op = "apply" /\ m.id = a.id /\ m.item = a.item /\ m.actor = a.actor
       /\ m.draft = [a.draft EXCEPT !.base = base]
  OBVIOUS
<1>. HIDE DEF m, base
<1>. QED  BY <1>3, <1>4, <1>6, <1>7, <1>8, <1>9, <1>10

\* Waiting, a desk does not lose what it knows.
LEMMA DeskKeepsKnowing ==
    ASSUME Ready, TableStep, NEW m \in Moving \cup Applying \cup Deriving,
           KnowsConflict(m), LegalMove(m), GoodDraft(m)
    PROVE  KnowsConflict(m)' /\ LegalMove(m)' /\ GoodDraft(m)'
<1>1. m.id \in ConflictId /\ m.item \in ConflictRow
  BY DEF Moving, Applying, Deriving
<1>2. KnowsConflict(m)'
  BY <1>1, StepConflictsEvolve DEF ConflictsEvolve, KnowsConflict
<1>3. m.item.proposal \in ProposalId /\ proposals[m.item.proposal] # NoRow
  BY <1>1 DEF KnowsConflict, Ready, RowsKnown, ConflictRow
<1>4. proposals'[m.item.proposal].parcel = proposals[m.item.proposal].parcel
  BY <1>3, StepRowsEvolve DEF RowsEvolve
<1>5. GoodDraft(m)'
  BY <1>4 DEF GoodDraft
<1>. QED  BY <1>2, <1>5 DEF LegalMove

\* Reading makes the knowledge of a desk, waiting keeps it; and what it holds
\* is well-formed.
LEMMA StepDeskOfOne ==
    ASSUME Ready, [SystemNext]_systemVars, NEW d \in Desk, desk'[d] # Idle
    PROVE  \E m \in Moving \cup Applying \cup Deriving :
              desk'[d] = m /\ KnowsConflict(m)' /\ LegalMove(m)' /\ GoodDraft(m)'
<1>0. TableStep
  BY StepIsTableStep
<1>1. CASE desk'[d] = desk[d]
  <2>1. PICK m \in Moving \cup Applying \cup Deriving : m = desk[d]
    BY <1>1 DEF Ready, ConflictTypeOK
  <2>2. KnowsConflict(m) /\ LegalMove(m) /\ GoodDraft(m)
    BY <1>1, <2>1 DEF Ready, DeskSound
  <2>. QED  BY <1>0, <1>1, <2>1, <2>2, DeskKeepsKnowing
<1>2. CASE BeginMove(d)
  <2>1. PICK m \in Moving : /\ desk'[d] = m
                            /\ conflicts'[m.id] # NoConflict
                            /\ conflicts'[m.id].proposal = m.item.proposal
                            /\ CanConflictTransition(m.item.state, m.to)
    BY <1>2, MoveBegins
  <2>2. m.op = "move"
    BY DEF Moving
  <2>3. KnowsConflict(m)' /\ LegalMove(m)' /\ GoodDraft(m)'
    BY <2>1, <2>2 DEF KnowsConflict, LegalMove, GoodDraft
  <2>. QED  BY <2>1, <2>3
<1>3. CASE BeginApply(d)
  <2>1. PICK m \in Applying : /\ desk'[d] = m
                              /\ conflicts'[m.id] # NoConflict
                              /\ conflicts'[m.id].proposal = m.item.proposal
                              /\ m.item.state = "resolution_proposed"
    BY <1>3, ApplyBegins
  <2>2. m.op = "source"
    BY DEF Applying
  <2>3. KnowsConflict(m)' /\ LegalMove(m)' /\ GoodDraft(m)'
    BY <2>1, <2>2 DEF KnowsConflict, LegalMove, GoodDraft
  <2>. QED  BY <2>1, <2>3
<1>4. ASSUME NEW m \in Deriving, desk'[d] = m, desk[d] # Idle, desk[d].op # "move",
             UNCHANGED <<conflicts, proposals>>,
             m.id = desk[d].id, m.item = desk[d].item, m.op \in {"parcel", "apply"},
             m.draft = Draft(proposals[m.item.proposal].parcel, m.draft.base,
                             m.draft.version, m.actor),
             m.draft.version \in 2 .. MaxVersion,
             m.op = "apply" => m.draft.base \in 1 .. MaxParcelVersion
      PROVE  KnowsConflict(m)' /\ LegalMove(m)' /\ GoodDraft(m)'
  <2>1. KnowsConflict(m)' /\ m.item.state = "resolution_proposed"
    BY <1>4 DEF Ready, DeskSound, KnowsConflict, LegalMove
  <2>2. GoodDraft(m)'
    BY <1>4 DEF GoodDraft
  <2>. QED  BY <1>4, <2>1, <2>2 DEF LegalMove
<1>5. CASE LoadSource(d)
  <2>1. /\ desk[d].op = "source" /\ desk[d] # Idle
        /\ UNCHANGED <<conflicts, proposals>>
    BY <1>5 DEF LoadSource, Idle, vars
  <2>. QED  BY <1>4, <1>5, <2>1, SourceLoaded
<1>6. CASE LoadBase(d)
  <2>1. /\ desk[d].op = "parcel" /\ desk[d] # Idle
        /\ UNCHANGED <<conflicts, proposals>>
    BY <1>6 DEF LoadBase, Idle, vars
  <2>. QED  BY <1>4, <1>6, <2>1, BaseLoaded
<1>. QED  BY <1>1, <1>2, <1>3, <1>5, <1>6, StepOfOneDesk DEF DeskStep

\* The system is always ready for its next step.
LEMMA StepReady == Ready /\ [SystemNext]_systemVars => Ready'
<1>. SUFFICES ASSUME Ready, [SystemNext]_systemVars
              PROVE  Ready'
  OBVIOUS
<1>1. TableStep
  BY StepIsTableStep
<1>2. DOMAIN desk' = Desk /\ desk' = [d \in Desk |-> desk'[d]]
  BY DEF Ready, ConflictTypeOK, SystemNext, ConflictNext, systemVars, conflictVars, DetectConflict,
         BeginMove, CommitMove, BeginApply, LoadSource, LoadBase, CommitApply, AbandonDesk
<1>3. desk' \in [Desk -> {Idle} \cup Moving \cup Applying \cup Deriving]
  <2>1. \A d \in Desk : desk'[d] \in {Idle} \cup Moving \cup Applying \cup Deriving
    BY StepDeskOfOne
  <2>. QED  BY <1>2, <2>1
<1>4. DeskSound'
  <2>. SUFFICES ASSUME NEW d \in Desk, desk'[d] # Idle
                PROVE  KnowsConflict(desk[d])' /\ LegalMove(desk[d])' /\ GoodDraft(desk[d])'
    BY DEF DeskSound, Idle
  <2>1. PICK m \in Moving \cup Applying \cup Deriving :
          desk'[d] = m /\ KnowsConflict(m)' /\ LegalMove(m)' /\ GoodDraft(m)'
    BY StepDeskOfOne
  <2>. QED  BY <2>1 DEF KnowsConflict, LegalMove, GoodDraft
<1>. QED  BY <1>1, <1>3, <1>4, StepProposals, StepConflictTables, StepRowsKnown
          DEF Ready, ConflictTypeOK

\* So it is at the beginning.
LEMMA InitReady == ConflictInit => Ready
<1>. SUFFICES ASSUME ConflictInit
              PROVE  Ready
  OBVIOUS
<1>1. TypeOK /\ HandlerSound
  BY InitTypeOK, InitHandlerSound DEF ConflictInit
<1>2. ConflictTypeOK
  BY <1>1 DEF ConflictInit, ConflictTypeOK
<1>. QED  BY <1>1, <1>2 DEF ConflictInit, Init, Ready, DeskSound, RowsKnown

-----------------------------------------------------------------------------
(* Histories of conflicts *)

\* What ConflictTrailReplays and ResolverOfRecord say of one conflict.
ConflictReplays(row, log) ==
    /\ log # <<>>
    /\ log[1].from = "none" /\ log[1].to = "detected"
    /\ \A i \in 1 .. Len(log) - 1 :
          /\ log[i + 1].from = log[i].to
          /\ CanConflictTransition(log[i].to, log[i + 1].to)
    /\ log[Len(log)].to = row.state

ResolverNamed(row, log) ==
    \/ /\ \A i \in DOMAIN log : log[i].to \notin ResolvingTargets
       /\ row.resolvedBy = Nobody
    \/ \E i \in DOMAIN log :
          /\ log[i].to \in ResolvingTargets
          /\ \A j \in DOMAIN log : log[j].to \in ResolvingTargets => j <= i
          /\ row.resolvedBy = log[i].actor

ConflictHistories ==
    \A k \in ConflictId :
        IF conflicts[k] = NoConflict THEN ctrail[k] = <<>>
        ELSE ConflictReplays(conflicts[k], ctrail[k]) /\ ResolverNamed(conflicts[k], ctrail[k])

\* The histories are the two properties.
LEMMA HistoriesAreProperties == ConflictHistories => ConflictTrailReplays /\ ResolverOfRecord
<1>. SUFFICES ASSUME ConflictHistories
              PROVE  ConflictTrailReplays /\ ResolverOfRecord
  OBVIOUS
<1>1. ConflictTrailReplays
  BY DEF ConflictHistories, ConflictTrailReplays, ConflictReplays
<1>2. ASSUME NEW k \in ConflictId, conflicts[k] # NoConflict
      PROVE  LET steps == {i \in DOMAIN ctrail[k] : ctrail[k][i].to \in ResolvingTargets}
             IN  IF steps = {} THEN conflicts[k].resolvedBy = Nobody
                 ELSE \E i \in steps : /\ \A j \in steps : j <= i
                                       /\ conflicts[k].resolvedBy = ctrail[k][i].actor
  BY <1>2 DEF ConflictHistories, ResolverNamed
<1>. QED  BY <1>1, <1>2 DEF ResolverOfRecord

\* A log with one event more.
LEMMA LogGrows ==
    ASSUME NEW log \in Seq(ConflictEntry), NEW event \in ConflictEntry,
           NEW long, long = Append(log, event)
    PROVE  /\ long \in Seq(ConflictEntry) /\ long # <<>>
           /\ Len(log) \in Nat /\ Len(long) = Len(log) + 1
           /\ DOMAIN log = 1 .. Len(log) /\ DOMAIN long = 1 .. Len(log) + 1
           /\ \A i \in 1 .. Len(log) : long[i] = log[i]
           /\ long[Len(log) + 1] = event
OBVIOUS

\* The event of a move is an event.
LEMMA MoveIsEntry ==
    ASSUME NEW row \in ConflictRow, NEW to \in ConflictStates, NEW actor \in Actor,
           NEW id \in ProposalId \cup {NoRow}
    PROVE  /\ ConflictEvent(actor, row.state, to, id) \in ConflictEntry
           /\ ConflictEvent(actor, row.state, to, id).from = row.state
           /\ ConflictEvent(actor, row.state, to, id).to = to
           /\ ConflictEvent(actor, row.state, to, id).actor = actor
           /\ ConflictEvent(actor, row.state, to, id).proposal = id
BY DEF ConflictEvent, ConflictEntry, ConflictRow

\* A legal move goes on from the history of the row it moves.
LEMMA MoveReplays ==
    ASSUME NEW row \in ConflictRow, NEW log \in Seq(ConflictEntry),
           ConflictReplays(row, log), ResolverNamed(row, log),
           NEW to \in ConflictStates, NEW actor \in Actor, NEW id \in ProposalId \cup {NoRow},
           CanConflictTransition(row.state, to),
           NEW next, next = ConflictMoved(row, to, actor),
           NEW long, long = Append(log, ConflictEvent(actor, row.state, to, id))
    PROVE  ConflictReplays(next, long) /\ ResolverNamed(next, long)
<1>. DEFINE event == ConflictEvent(actor, row.state, to, id)
<1>1. /\ event \in ConflictEntry /\ event.from = row.state /\ event.to = to
      /\ event.actor = actor
  BY MoveIsEntry
<1>2. /\ next.state = to
      /\ next.resolvedBy = IF to \in ResolvingTargets THEN actor ELSE row.resolvedBy
  BY MovedConflict
<1>. HIDE DEF event
<1>3. /\ long # <<>> /\ Len(log) \in Nat \ {0} /\ Len(long) = Len(log) + 1
      /\ DOMAIN log = 1 .. Len(log) /\ DOMAIN long = 1 .. Len(log) + 1
      /\ \A i \in 1 .. Len(log) : long[i] = log[i]
      /\ long[Len(log) + 1] = event
  BY <1>1, LogGrows DEF ConflictReplays, event
<1>4. ConflictReplays(next, long)
  <2>1. ASSUME NEW i \in 1 .. Len(long) - 1
        PROVE  long[i + 1].from = long[i].to /\ CanConflictTransition(long[i].to, long[i + 1].to)
    <3>1. CASE i = Len(log)
      BY <1>1, <1>3, <3>1 DEF ConflictReplays
    <3>2. CASE i # Len(log)
      <4>1. Len(log) \in Nat \ {0} /\ Len(long) = Len(log) + 1
        BY <1>3
      <4>2. i \in 1 .. Len(log) /\ i # Len(log)
        BY <2>1, <3>2, <4>1
      <4>3. i \in 1 .. Len(log) - 1 /\ i + 1 \in 1 .. Len(log)
        BY <4>1, <4>2
      <4>4. long[i] = log[i] /\ long[i + 1] = log[i + 1]
        BY <1>3, <4>2, <4>3
      <4>. QED  BY <4>3, <4>4 DEF ConflictReplays
    <3>. QED  BY <3>1, <3>2
  <2>. QED  BY <1>1, <1>2, <1>3, <2>1 DEF ConflictReplays
<1>5. ResolverNamed(next, long)
  <2>1. CASE to \in ResolvingTargets
    BY <1>1, <1>2, <1>3, <2>1 DEF ResolverNamed
  <2>2. CASE to \notin ResolvingTargets
    BY <1>1, <1>2, <1>3, <2>2 DEF ResolverNamed
  <2>. QED  BY <2>1, <2>2
<1>. QED  BY <1>4, <1>5

\* Every step goes on from the histories it finds.
LEMMA StepConflictHistories == Ready /\ TableStep /\ ConflictHistories => ConflictHistories'
<1>. SUFFICES ASSUME Ready, TableStep, ConflictHistories, NEW k \in ConflictId
              PROVE  IF conflicts'[k] = NoConflict THEN ctrail'[k] = <<>>
                     ELSE /\ ConflictReplays(conflicts'[k], ctrail'[k])
                          /\ ResolverNamed(conflicts'[k], ctrail'[k])
  BY DEF ConflictHistories
<1>1. CASE conflicts'[k] = conflicts[k] /\ ctrail'[k] = ctrail[k]
  BY <1>1 DEF ConflictHistories
<1>2. ASSUME NEW id \in ProposalId, NEW actor \in Actor,
             conflicts'[k] = [proposal |-> id, state |-> "detected", resolvedBy |-> Nobody],
             ctrail'[k] = <<ConflictEvent(actor, "none", "detected", NoRow)>>
      PROVE  /\ conflicts'[k] # NoConflict
             /\ ConflictReplays(conflicts'[k], ctrail'[k])
             /\ ResolverNamed(conflicts'[k], ctrail'[k])
  <2>1. conflicts'[k] # NoConflict
    BY <1>2, ConflictAssumption DEF ConflictRow, ConflictStates
  <2>2. /\ Len(ctrail'[k]) = 1 /\ DOMAIN ctrail'[k] = {1}
        /\ ctrail'[k][1].from = "none" /\ ctrail'[k][1].to = "detected"
    BY <1>2 DEF ConflictEvent
  <2>. QED  BY <1>2, <2>1, <2>2 DEF ConflictReplays, ResolverNamed, ResolvingTargets
<1>3. ASSUME NEW to \in ConflictStates, NEW actor \in Actor, NEW id \in ProposalId \cup {NoRow},
             conflicts[k] \in ConflictRow,
             CanConflictTransition(conflicts[k].state, to),
             conflicts'[k] = ConflictMoved(conflicts[k], to, actor),
             ctrail'[k] = Append(ctrail[k], ConflictEvent(actor, conflicts[k].state, to, id))
      PROVE  /\ conflicts'[k] # NoConflict
             /\ ConflictReplays(conflicts'[k], ctrail'[k])
             /\ ResolverNamed(conflicts'[k], ctrail'[k])
  <2>1. ctrail[k] \in Seq(ConflictEntry)
    BY DEF Ready, ConflictTypeOK
  <2>2. ConflictReplays(conflicts[k], ctrail[k]) /\ ResolverNamed(conflicts[k], ctrail[k])
    BY <1>3, ConflictAssumption DEF ConflictHistories
  <2>3. conflicts'[k] # NoConflict
    BY <1>3, MovedConflict
  <2>4. \A next, long :
           next = ConflictMoved(conflicts[k], to, actor)
           /\ long = Append(ctrail[k], ConflictEvent(actor, conflicts[k].state, to, id))
           => ConflictReplays(next, long) /\ ResolverNamed(next, long)
    BY <1>3, <2>1, <2>2, MoveReplays
  <2>. QED  BY <1>3, <2>3, <2>4
<1>. QED  BY <1>1, <1>2, <1>3, StepOfOneConflict

-----------------------------------------------------------------------------
(* Suggestions *)

\* The proposal goes on from another one.
Continues(id) == trail[id][1].version > 1

\* An event of k names the proposal.
Names(k, id) == \E i \in Applied(k) : ctrail[k][i].proposal = id

\* A conflict is applied once, and then it is resolved.
AppliedOnce ==
    \A k \in ConflictId :
        /\ Applied(k) # {} => conflicts[k] # NoConflict
                              /\ conflicts[k].state \in {"resolved", "closed"}
        /\ \A i, j \in Applied(k) : i = j

\* The draft of the event that resolved it is there, and its own.
AppliedWell ==
    \A k \in ConflictId : \A i \in Applied(k) :
        LET entry == ctrail[k][i]
            draft == proposals[entry.proposal]
        IN  /\ entry.proposal \in ProposalId /\ draft # NoRow
            /\ entry.from = "resolution_proposed" /\ entry.to = "resolved"
            /\ draft.createdBy = entry.actor
            /\ draft.parcel = proposals[conflicts[k].proposal].parcel

\* No two conflicts name the same draft.
NamedByOne == \A k, l \in ConflictId, id \in ProposalId : Names(k, id) /\ Names(l, id) => k = l

\* A proposal that goes on from another one is named, and no other is.
DerivedAreNamed ==
    \A id \in ProposalId : proposals[id] # NoRow =>
        (Continues(id) <=> \E k \in ConflictId : Names(k, id))

SuggestionsSound == AppliedOnce /\ AppliedWell /\ NamedByOne /\ DerivedAreNamed

\* Counting what SuggestionsSound relates.
LEMMA SoundSuggestionsApplyOnce == SuggestionsSound => SuggestionAppliedOnce
<1>. SUFFICES ASSUME SuggestionsSound
              PROVE  SuggestionAppliedOnce
  OBVIOUS
<1>1. ASSUME NEW k \in ConflictId
      PROVE  Cardinality(Applied(k)) <= 1
  <2>1. CASE Applied(k) = {}
    <3>1. Cardinality(Applied(k)) = 0
      BY <2>1, FS_EmptySet
    <3>. QED  BY <3>1
  <2>2. CASE Applied(k) # {}
    <3>1. PICK i \in Applied(k) : TRUE
      BY <2>2
    <3>2. Applied(k) = {i}
      BY <3>1 DEF SuggestionsSound, AppliedOnce
    <3>3. Cardinality(Applied(k)) = 1
      BY <3>2, FS_Singleton
    <3>. QED  BY <3>3
  <2>. QED  BY <2>1, <2>2
<1>2. ASSUME NEW id \in ProposalId, proposals[id] # NoRow
      PROVE  Continues(id) <=>
                 Cardinality({k \in ConflictId :
                                 \E i \in Applied(k) : ctrail[k][i].proposal = id}) = 1
  <2>. DEFINE from == {k \in ConflictId : \E i \in Applied(k) : ctrail[k][i].proposal = id}
  <2>1. Continues(id) <=> from # {}
    BY <1>2 DEF SuggestionsSound, DerivedAreNamed, Names
  <2>2. \A k, l \in from : k = l
    BY DEF SuggestionsSound, NamedByOne, Names
  <2>. HIDE DEF from
  <2>3. from = {} <=> Cardinality(from) # 1
    <3>1. CASE from = {}
      <4>1. Cardinality(from) = 0
        BY <3>1, FS_EmptySet
      <4>. QED  BY <3>1, <4>1
    <3>2. CASE from # {}
      <4>1. PICK k \in from : TRUE
        BY <3>2
      <4>2. from = {k}
        BY <2>2, <4>1
      <4>. QED  BY <3>2, <4>2, FS_Singleton
    <3>. QED  BY <3>1, <3>2
  <2>4. Continues(id) <=> Cardinality(from) = 1
    BY <2>1, <2>3
  <2>. QED  BY <2>4 DEF from
<1>. QED  BY <1>1, <1>2
          DEF SuggestionAppliedOnce, SuggestionsSound, AppliedWell, Continues

\* No step but an application changes what is applied, provided that the new
\* proposals it makes go on from none.
LEMMA NothingApplied ==
    ASSUME Ready, RowsEvolve, ConflictsEvolve, SuggestionsSound,
           \A k \in ConflictId :
              /\ Applied(k)' = Applied(k)
              /\ \A i \in Applied(k) : ctrail'[k][i] = ctrail[k][i]
              /\ Applied(k) # {} => conflicts'[k].state \in {"resolved", "closed"},
           \A id \in ProposalId :
              proposals[id] = NoRow /\ proposals'[id] # NoRow => ~Continues(id)'
    PROVE  SuggestionsSound'
<1>1. AppliedOnce'
  BY DEF SuggestionsSound, AppliedOnce, ConflictsEvolve
<1>2. ASSUME NEW k \in ConflictId, NEW id \in ProposalId
      PROVE  Names(k, id)' <=> Names(k, id)
  BY DEF Names
<1>3. AppliedWell'
  <2>. SUFFICES ASSUME NEW k \in ConflictId, NEW i \in Applied(k)'
                PROVE  LET entry == ctrail'[k][i]
                           draft == proposals'[entry.proposal]
                       IN  /\ entry.proposal \in ProposalId /\ draft # NoRow
                           /\ entry.from = "resolution_proposed" /\ entry.to = "resolved"
                           /\ draft.createdBy = entry.actor
                           /\ draft.parcel = proposals'[conflicts'[k].proposal].parcel
    BY DEF AppliedWell
  <2>1. i \in Applied(k) /\ ctrail'[k][i] = ctrail[k][i]
    OBVIOUS
  <2>2. /\ conflicts[k] \in ConflictRow /\ conflicts[k] # NoConflict
        /\ conflicts'[k].proposal = conflicts[k].proposal
    BY <2>1 DEF SuggestionsSound, AppliedOnce, ConflictsEvolve, Ready, ConflictTypeOK
  <2>3. proposals'[conflicts[k].proposal].parcel = proposals[conflicts[k].proposal].parcel
    BY <2>2 DEF Ready, RowsKnown, RowsEvolve, ConflictRow
  <2>. QED  BY <2>1, <2>2, <2>3 DEF SuggestionsSound, AppliedWell, RowsEvolve
<1>4. NamedByOne'
  BY <1>2 DEF SuggestionsSound, NamedByOne
<1>5. DerivedAreNamed'
  <2>. SUFFICES ASSUME NEW id \in ProposalId, proposals'[id] # NoRow
                PROVE  Continues(id)' <=> \E k \in ConflictId : Names(k, id)
    BY <1>2 DEF DerivedAreNamed
  <2>1. CASE proposals[id] # NoRow
    <3>1. Continues(id)' <=> Continues(id)
      BY <2>1 DEF RowsEvolve, Continues
    <3>. QED  BY <2>1, <3>1 DEF SuggestionsSound, DerivedAreNamed
  <2>2. CASE proposals[id] = NoRow
    <3>1. \A k \in ConflictId : ~Names(k, id)
      BY <2>2 DEF SuggestionsSound, AppliedWell, Names
    <3>. QED  BY <2>2, <3>1
  <2>. QED  BY <2>1, <2>2
<1>. QED  BY <1>1, <1>3, <1>4, <1>5 DEF SuggestionsSound

\* A move that names no proposal applies nothing.
LEMMA MoveAppliesNothing ==
    ASSUME Ready, SuggestionsSound,
           NEW k \in ConflictId, NEW to \in ConflictStates, NEW actor \in Actor,
           Moves(k, to, actor, NoRow), NEW l \in ConflictId
    PROVE  /\ Applied(l)' = Applied(l)
           /\ \A i \in Applied(l) : ctrail'[l][i] = ctrail[l][i]
           /\ Applied(l) # {} => conflicts'[l].state \in {"resolved", "closed"}
<1>. USE DEF Ready, ConflictTypeOK
<1>1. CASE l # k
  <2>1. ctrail'[l] = ctrail[l] /\ conflicts'[l] = conflicts[l]
    BY <1>1 DEF Moves
  <2>. QED  BY <2>1 DEF Applied, SuggestionsSound, AppliedOnce
<1>2. CASE l = k
  <2>. DEFINE event == ConflictEvent(actor, conflicts[k].state, to, NoRow)
  <2>1. /\ conflicts[k] \in ConflictRow /\ CanConflictTransition(conflicts[k].state, to)
        /\ conflicts'[k] = ConflictMoved(conflicts[k], to, actor)
        /\ ctrail'[k] = Append(ctrail[k], event)
    BY DEF Moves
  <2>2. event \in ConflictEntry /\ event.proposal = NoRow
    BY <2>1 DEF ConflictEvent, ConflictEntry, ConflictRow
  <2>3. /\ DOMAIN ctrail[k] = 1 .. Len(ctrail[k]) /\ Len(ctrail[k]) \in Nat
        /\ DOMAIN ctrail'[k] = 1 .. Len(ctrail[k]) + 1
        /\ \A i \in 1 .. Len(ctrail[k]) : ctrail'[k][i] = ctrail[k][i]
        /\ ctrail'[k][Len(ctrail[k]) + 1] = event
    <3>. HIDE DEF event
    <3>. QED  BY <2>1, <2>2, LogGrows
  <2>. HIDE DEF event
  <2>4. Applied(k)' = Applied(k) /\ \A i \in Applied(k) : ctrail'[k][i] = ctrail[k][i]
    BY <2>2, <2>3 DEF Applied
  <2>5. Applied(k) # {} => conflicts'[k].state \in {"resolved", "closed"}
    <3>1. conflicts'[k].state = to
      BY <2>1, MovedConflict
    <3>. QED  BY <2>1, <3>1 DEF SuggestionsSound, AppliedOnce, CanConflictTransition,
                               ConflictTransitions
  <2>. QED  BY <1>2, <2>4, <2>5
<1>. QED  BY <1>1, <1>2

\* An application is the first of its conflict, and no other conflict's.
LEMMA ApplicationIsFirst ==
    ASSUME Ready, SuggestionsSound,
           NEW k \in ConflictId, NEW id \in ProposalId, NEW actor \in Actor,
           conflicts[k].state = "resolution_proposed", Moves(k, "resolved", actor, id)
    PROVE  /\ conflicts'[k] # NoConflict /\ conflicts'[k].state = "resolved"
           /\ conflicts'[k].proposal = conflicts[k].proposal
           /\ \A i : i \in Applied(k)' <=> i = Len(ctrail[k]) + 1
           /\ ctrail'[k][Len(ctrail[k]) + 1]
                 = ConflictEvent(actor, "resolution_proposed", "resolved", id)
           /\ \A l \in ConflictId : l # k =>
                 /\ conflicts'[l] = conflicts[l] /\ ctrail'[l] = ctrail[l]
                 /\ Applied(l)' = Applied(l)
<1>. USE DEF Ready, ConflictTypeOK
<1>. DEFINE event == ConflictEvent(actor, "resolution_proposed", "resolved", id)
<1>1. /\ conflicts[k] \in ConflictRow
      /\ conflicts'[k] = ConflictMoved(conflicts[k], "resolved", actor)
      /\ ctrail'[k] = Append(ctrail[k], event)
  BY DEF Moves
<1>2. event \in ConflictEntry /\ event.proposal = id /\ id # NoRow
  BY ConflictAssumption DEF ConflictEvent, ConflictEntry, ConflictStates
<1>3. /\ DOMAIN ctrail[k] = 1 .. Len(ctrail[k]) /\ Len(ctrail[k]) \in Nat
      /\ DOMAIN ctrail'[k] = 1 .. Len(ctrail[k]) + 1
      /\ \A i \in 1 .. Len(ctrail[k]) : ctrail'[k][i] = ctrail[k][i]
      /\ ctrail'[k][Len(ctrail[k]) + 1] = event
  <2>. HIDE DEF event
  <2>. QED  BY <1>1, <1>2, LogGrows
<1>4. Applied(k) = {}
  BY <1>1 DEF SuggestionsSound, AppliedOnce
<1>5. \A i : i \in Applied(k)' <=> i = Len(ctrail[k]) + 1
  <2>. HIDE DEF event
  <2>1. \A i \in 1 .. Len(ctrail[k]) : ctrail'[k][i].proposal = NoRow
    BY <1>3, <1>4 DEF Applied
  <2>2. Applied(k)' = {i \in 1 .. Len(ctrail[k]) + 1 : ctrail'[k][i].proposal # NoRow}
    BY <1>3 DEF Applied
  <2>3. Len(ctrail[k]) \in Nat
    BY <1>3
  <2>4. ASSUME NEW i \in 1 .. Len(ctrail[k]) + 1, i # Len(ctrail[k]) + 1
        PROVE  i \in 1 .. Len(ctrail[k])
    BY <2>3, <2>4
  <2>5. Len(ctrail[k]) + 1 \in 1 .. Len(ctrail[k]) + 1
    BY <2>3
  <2>6. ctrail'[k][Len(ctrail[k]) + 1].proposal # NoRow
    BY <1>2, <1>3
  <2>. QED  BY <2>1, <2>2, <2>4, <2>5, <2>6
<1>6. \A l \in ConflictId : l # k =>
         conflicts'[l] = conflicts[l] /\ ctrail'[l] = ctrail[l] /\ Applied(l)' = Applied(l)
  BY DEF Moves, Applied
<1>7. /\ conflicts'[k] # NoConflict /\ conflicts'[k].state = "resolved"
      /\ conflicts'[k].proposal = conflicts[k].proposal
  <2>1. "resolved" \in ConflictStates
    BY DEF ConflictStates
  <2>. QED  BY <1>1, <2>1, MovedConflict
<1>. QED  BY <1>3, <1>5, <1>6, <1>7

\* A suggestion that is applied is applied well.
LEMMA ApplicationIsSound ==
    ASSUME Ready, RowsEvolve, SuggestionsSound,
           NEW k \in ConflictId, NEW id \in ProposalId, NEW base \in 1 .. MaxParcelVersion,
           NEW version \in 2 .. MaxVersion, NEW actor \in Actor,
           Applies(k, id, base, version, actor)
    PROVE  SuggestionsSound'
<1>. DEFINE n == Len(ctrail[k]) + 1
            source == conflicts[k].proposal
<1>1. /\ conflicts'[k] # NoConflict /\ conflicts'[k].state = "resolved"
      /\ conflicts'[k].proposal = source
      /\ \A i : i \in Applied(k)' <=> i = n
      /\ ctrail'[k][n] = ConflictEvent(actor, "resolution_proposed", "resolved", id)
      /\ \A l \in ConflictId : l # k =>
            conflicts'[l] = conflicts[l] /\ ctrail'[l] = ctrail[l] /\ Applied(l)' = Applied(l)
  BY ApplicationIsFirst DEF Applies
<1>. HIDE DEF n
<1>2. source \in ProposalId /\ proposals[source] \in Row /\ proposals[source] # NoRow
  BY ConflictAssumption
     DEF Applies, Moves, Ready, ConflictTypeOK, RowsKnown, TypeOK, ConflictRow
<1>3. /\ proposals[id] = NoRow
      /\ proposals' = [proposals EXCEPT ![id] = Draft(proposals[source].parcel, base, version, actor)]
      /\ trail' = [trail EXCEPT ![id] = <<Created(Draft(proposals[source].parcel, base, version, actor))>>]
  BY DEF Applies, Derives
<1>4. /\ proposals'[id] = Draft(proposals[source].parcel, base, version, actor)
      /\ proposals'[id] # NoRow /\ proposals'[id].createdBy = actor
      /\ proposals'[id].parcel = proposals[source].parcel
      /\ proposals'[source] = proposals[source]
      /\ \A other \in ProposalId : other # id =>
            proposals'[other] = proposals[other] /\ trail'[other] = trail[other]
      /\ trail'[id] = <<Created(Draft(proposals[source].parcel, base, version, actor))>>
  <2>1. Draft(proposals[source].parcel, base, version, actor) \in Row
    <3>1. proposals[source].parcel \in ParcelId /\ base \in Nat /\ version \in Nat
      BY <1>2, BoundsAssumption DEF Row
    <3>. QED  BY <3>1, DraftIsRow
  <2>2. /\ DOMAIN proposals = ProposalId /\ DOMAIN trail = ProposalId
    BY DEF Ready, ConflictTypeOK, TypeOK
  <2>3. \A parcel : /\ Draft(parcel, base, version, actor).createdBy = actor
                    /\ Draft(parcel, base, version, actor).parcel = parcel
    BY DEF Draft
  <2>. QED  BY <1>2, <1>3, <2>1, <2>2, <2>3, RecordsAssumption
<1>5. Continues(id)'
  <2>1. trail'[id][1].version = version
    BY <1>4 DEF Created, Draft
  <2>. QED  BY <2>1, BoundsAssumption DEF Continues
<1>6. \A other \in ProposalId : Names(k, other)' <=> other = id
  BY <1>1 DEF Names, ConflictEvent
<1>7. \A l \in ConflictId, other \in ProposalId : l # k => (Names(l, other)' <=> Names(l, other))
  BY <1>1 DEF Names
<1>8. \A l \in ConflictId : ~Names(l, id)
  BY <1>3 DEF SuggestionsSound, AppliedWell, Names
<1>9. AppliedOnce'
  BY <1>1 DEF SuggestionsSound, AppliedOnce
<1>10. AppliedWell'
  <2>. SUFFICES ASSUME NEW l \in ConflictId, NEW i \in Applied(l)'
                PROVE  LET entry == ctrail'[l][i]
                           draft == proposals'[entry.proposal]
                       IN  /\ entry.proposal \in ProposalId /\ draft # NoRow
                           /\ entry.from = "resolution_proposed" /\ entry.to = "resolved"
                           /\ draft.createdBy = entry.actor
                           /\ draft.parcel = proposals'[conflicts'[l].proposal].parcel
    BY DEF AppliedWell
  <2>1. CASE l = k
    <3>1. i = n
      BY <1>1, <2>1
    <3>. QED  BY <1>1, <1>2, <1>4, <2>1, <3>1 DEF ConflictEvent
  <2>2. CASE l # k
    <3>1. i \in Applied(l) /\ ctrail'[l][i] = ctrail[l][i] /\ conflicts'[l] = conflicts[l]
      BY <1>1, <2>2
    <3>2. conflicts[l] \in ConflictRow /\ conflicts[l] # NoConflict
      BY <3>1 DEF SuggestionsSound, AppliedOnce, Ready, ConflictTypeOK
    <3>3. proposals'[conflicts[l].proposal].parcel = proposals[conflicts[l].proposal].parcel
      BY <3>2 DEF Ready, RowsKnown, RowsEvolve, ConflictRow
    <3>. QED  BY <3>1, <3>3 DEF SuggestionsSound, AppliedWell, RowsEvolve
  <2>. QED  BY <2>1, <2>2
<1>11. NamedByOne'
  <2>. SUFFICES ASSUME NEW l \in ConflictId, NEW m \in ConflictId, NEW other \in ProposalId,
                       Names(l, other)', Names(m, other)'
                PROVE  l = m
    BY DEF NamedByOne
  <2>. QED  BY <1>6, <1>7, <1>8 DEF SuggestionsSound, NamedByOne
<1>12. DerivedAreNamed'
  <2>. SUFFICES ASSUME NEW other \in ProposalId, proposals'[other] # NoRow
                PROVE  Continues(other)' <=> \E l \in ConflictId : Names(l, other)'
    BY DEF DerivedAreNamed
  <2>1. CASE other = id
    BY <1>5, <1>6, <2>1
  <2>2. CASE other # id
    <3>1. Continues(other)' <=> Continues(other)
      BY <1>4, <2>2 DEF Continues
    <3>2. proposals[other] # NoRow
      BY <1>4, <2>2
    <3>3. \A l \in ConflictId : Names(l, other)' <=> Names(l, other)
      <4>1. ~Names(k, other)' /\ ~Names(k, other)
        <5>1. Applied(k) = {}
          BY DEF Applies, SuggestionsSound, AppliedOnce
        <5>. QED  BY <1>6, <2>2, <5>1 DEF Names
      <4>. QED  BY <1>7, <4>1
    <3>. QED  BY <3>1, <3>2, <3>3 DEF SuggestionsSound, DerivedAreNamed
  <2>. QED  BY <2>1, <2>2
<1>. QED  BY <1>9, <1>10, <1>11, <1>12 DEF SuggestionsSound

\* No step of ProposalReview makes a proposal that goes on from another.
LEMMA NewDraftsStartAtOne ==
    ASSUME Ready, [Next]_vars, NEW id \in ProposalId,
           proposals[id] = NoRow, proposals'[id] # NoRow
    PROVE  ~Continues(id)'
<1>1. TypeOK /\ [Lifecycle!Next]_<<proposals, trail>>
  BY StepLifecycle DEF Ready, ConflictTypeOK
<1>2. Lifecycle!Next
  BY <1>1
<1>3. PICK parcel \in ParcelId, base \in Nat, actor \in Actor :
        trail'[id] = <<Created(Draft(parcel, base, 1, actor))>>
  BY <1>1, <1>2, LifecycleStepOfOne, RecordsAssumption
<1>4. trail'[id][1].version = 1
  BY <1>3 DEF Created, Draft
<1>. QED  BY <1>4 DEF Continues

\* Every step keeps the suggestions sound.
LEMMA StepSuggestionsSound == Ready /\ TableStep /\ SuggestionsSound => SuggestionsSound'
<1>. SUFFICES ASSUME Ready, TableStep, SuggestionsSound
              PROVE  SuggestionsSound'
  OBVIOUS
<1>0. RowsEvolve /\ ConflictsEvolve
  BY StepRowsEvolve, StepConflictsEvolve
<1>1. CASE UNCHANGED <<conflicts, ctrail>> /\ [Next]_vars
  <2>1. \A k \in ConflictId :
           /\ Applied(k)' = Applied(k)
           /\ \A i \in Applied(k) : ctrail'[k][i] = ctrail[k][i]
           /\ Applied(k) # {} => conflicts'[k].state \in {"resolved", "closed"}
    BY <1>1 DEF Applied, SuggestionsSound, AppliedOnce
  <2>2. \A id \in ProposalId :
           proposals[id] = NoRow /\ proposals'[id] # NoRow => ~Continues(id)'
    BY <1>1, NewDraftsStartAtOne
  <2>. QED  BY <1>0, <2>1, <2>2, NothingApplied
<1>2. ASSUME UNCHANGED vars,
             \A k \in ConflictId :
                /\ Applied(k)' = Applied(k)
                /\ \A i \in Applied(k) : ctrail'[k][i] = ctrail[k][i]
                /\ Applied(k) # {} => conflicts'[k].state \in {"resolved", "closed"}
      PROVE  SuggestionsSound'
  <2>1. \A id \in ProposalId :
           proposals[id] = NoRow /\ proposals'[id] # NoRow => ~Continues(id)'
    BY <1>2 DEF vars
  <2>. QED  BY <1>0, <1>2, <2>1, NothingApplied
<1>3. ASSUME NEW k \in ConflictId, NEW id \in ProposalId, NEW actor \in Actor,
             Detected(k, id, actor), NEW l \in ConflictId
      PROVE  /\ Applied(l)' = Applied(l)
             /\ \A i \in Applied(l) : ctrail'[l][i] = ctrail[l][i]
             /\ Applied(l) # {} => conflicts'[l].state \in {"resolved", "closed"}
  <2>1. CASE l # k
    <3>1. ctrail'[l] = ctrail[l] /\ conflicts'[l] = conflicts[l]
      BY <1>3, <2>1 DEF Detected, Ready, ConflictTypeOK
    <3>. QED  BY <3>1 DEF Applied, SuggestionsSound, AppliedOnce
  <2>2. CASE l = k
    <3>1. Applied(k) = {}
      BY <1>3 DEF Detected, SuggestionsSound, AppliedOnce
    <3>2. ctrail'[k] = <<ConflictEvent(actor, "none", "detected", NoRow)>>
      BY <1>3 DEF Detected, Ready, ConflictTypeOK
    <3>3. Applied(k)' = {}
      BY <3>2 DEF Applied, ConflictEvent
    <3>. QED  BY <2>2, <3>1, <3>3
  <2>. QED  BY <2>1, <2>2
<1>4. CASE UNCHANGED vars /\ \E k \in ConflictId, id \in ProposalId, actor \in Actor :
                                 Detected(k, id, actor)
  BY <1>2, <1>3, <1>4
<1>5. CASE UNCHANGED vars /\ \E k \in ConflictId, to \in ConflictStates, actor \in Actor :
                                 Moves(k, to, actor, NoRow)
  BY <1>2, <1>5, MoveAppliesNothing
<1>6. CASE \E k \in ConflictId, id \in ProposalId, base \in 1 .. MaxParcelVersion,
              version \in 2 .. MaxVersion, actor \in Actor : Applies(k, id, base, version, actor)
  BY <1>0, <1>6, ApplicationIsSound
<1>. QED  BY <1>1, <1>4, <1>5, <1>6 DEF TableStep

-----------------------------------------------------------------------------
(* The theorems *)

\* The inductive invariant of the system.
Invariant == Ready /\ ConflictHistories /\ SuggestionsSound

\* It holds at all times.
LEMMA InvariantAlways == SystemSpec => []Invariant
<1>1. ConflictInit => Invariant
  <2>. SUFFICES ASSUME ConflictInit
                PROVE  ConflictHistories /\ SuggestionsSound
    BY InitReady DEF Invariant
  <2>1. \A k \in ConflictId : conflicts[k] = NoConflict /\ ctrail[k] = <<>> /\ Applied(k) = {}
    BY DEF ConflictInit, Applied
  <2>2. \A id \in ProposalId : proposals[id] = NoRow
    BY DEF ConflictInit, Init
  <2>. QED  BY <2>1, <2>2 DEF ConflictHistories, SuggestionsSound, AppliedOnce, AppliedWell,
                              NamedByOne, DerivedAreNamed, Names
<1>2. Invariant /\ [SystemNext]_systemVars => Invariant'
  BY StepIsTableStep, StepReady, StepConflictHistories, StepSuggestionsSound DEF Invariant
<1>. QED  BY <1>1, <1>2, PTL DEF SystemSpec

\* Conflicts, their events and their handlers are well-formed at all times,
\* beside well-formed proposals.
THEOREM ConflictTypesCorrect == SystemSpec => []ConflictTypeOK
<1>1. Invariant => ConflictTypeOK
  BY DEF Invariant, Ready
<1>. QED  BY <1>1, InvariantAlways, PTL

\* The events of every conflict replay to its row at all times, although no
\* version protects the row.
THEOREM ConflictTrailsReplay == SystemSpec => []ConflictTrailReplays
<1>1. Invariant => ConflictTrailReplays
  BY HistoriesAreProperties DEF Invariant
<1>. QED  BY <1>1, InvariantAlways, PTL

\* resolved_by names whoever took the latest step into resolved or closed.
THEOREM ResolversAreOfRecord == SystemSpec => []ResolverOfRecord
<1>1. Invariant => ResolverOfRecord
  BY HistoriesAreProperties DEF Invariant
<1>. QED  BY <1>1, InvariantAlways, PTL

\* However many handlers race to apply it, a suggestion becomes one proposal,
\* and every proposal beyond version 1 at its creation has one such source.
THEOREM SuggestionsApplyOnce == SystemSpec => []SuggestionAppliedOnce
<1>1. Invariant => SuggestionAppliedOnce
  BY SoundSuggestionsApplyOnce DEF Invariant
<1>. QED  BY <1>1, InvariantAlways, PTL

\* Resolving a conflict rewrites no proposal, and closing it is final.
THEOREM SourcesAreUntouched == SystemSpec => SourceUntouched
<1>1. Ready /\ [SystemNext]_systemVars => [SourceUntouchedStep]_systemVars
  <2>. SUFFICES ASSUME Ready, [SystemNext]_systemVars
                PROVE  SourceUntouchedStep
    OBVIOUS
  <2>1. TableStep
    BY StepIsTableStep
  <2>2. ASSUME ctrail' # ctrail, NEW id \in ProposalId, proposals[id] # NoRow
        PROVE  proposals'[id] = proposals[id] /\ trail'[id] = trail[id]
    BY <2>1, <2>2 DEF TableStep, Applies, Derives, vars, Ready, ConflictTypeOK, TypeOK
  <2>3. ConflictsEvolve
    BY <2>1, StepConflictsEvolve
  <2>. QED  BY <2>2, <2>3 DEF SourceUntouchedStep, ConflictsEvolve
<1>2. Invariant => Ready
  BY DEF Invariant
<1>. QED  BY <1>1, <1>2, InvariantAlways, PTL DEF SystemSpec, SourceUntouched

\* Derived drafts included, the composed system keeps what the abstract
\* lifecycle promises of a proposal.
THEOREM SystemKeepsLifecycle == SystemSpec => SystemImplementsLifecycle
<1>1. ConflictInit => DerivedLifecycle!Init
  BY DEF ConflictInit, Init, DerivedLifecycle!Init
<1>2. Ready /\ [SystemNext]_systemVars => [DerivedLifecycle!Next]_<<proposals, trail>>
  BY StepIsTableStep, StepDerivedLifecycle
<1>3. Invariant => Ready
  BY DEF Invariant
<1>. QED  BY <1>1, <1>2, <1>3, InvariantAlways, PTL
          DEF SystemSpec, SystemImplementsLifecycle, DerivedLifecycle!Spec,
              DerivedLifecycle!lifecycleVars

=============================================================================
