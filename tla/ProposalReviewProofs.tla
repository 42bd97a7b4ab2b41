------------------------ MODULE ProposalReviewProofs ------------------------
(***************************************************************************)
(* ProposalReview for any number of proposals, parcels, accounts and       *)
(* handlers, any roles, and any bounds.                                    *)
(***************************************************************************)
EXTENDS ProposalReview, TLAPS

USE DEF Idle, Creating, Transitioning

-----------------------------------------------------------------------------
(* The rows *)

\* A new draft is a row.
LEMMA DraftIsRow ==
    ASSUME NEW parcel \in ParcelId, NEW base \in Nat, NEW version \in Nat, NEW actor \in Actor
    PROVE  Draft(parcel, base, version, actor) \in Row
BY DEF Draft, Row, ProposalStates

\* The audit row of a creation is an audit row.
LEMMA CreatedIsEntry ==
    ASSUME NEW row \in Row
    PROVE  Created(row) \in Entry
BY DEF Created, Row, Entry

\* A transition makes a row of a row, keeps what a transition must keep and
\* counts the version.
LEMMA MovedIsRow ==
    ASSUME NEW row \in Row, NEW to \in ProposalStates, NEW actor \in Actor
    PROVE  /\ Moved(row, to, actor) \in Row
           /\ Moved(row, to, actor).state = to
           /\ Moved(row, to, actor).version = row.version + 1
           /\ Moved(row, to, actor).parcel = row.parcel
           /\ Moved(row, to, actor).base = row.base
           /\ Moved(row, to, actor).createdBy = row.createdBy
           /\ Moved(row, to, actor).reviewedBy =
                  IF to \in ReviewTargets THEN actor ELSE row.reviewedBy
BY DEF Moved, Row

\* The audit row of a transition is an audit row.
LEMMA StateChangedIsEntry ==
    ASSUME NEW item \in Row, NEW to \in ProposalStates, NEW actor \in Actor
    PROVE  StateChanged(item, to, actor) \in Entry
BY DEF StateChanged, Row, Entry

-----------------------------------------------------------------------------
(* Types *)

\* The empty tables and idle slots are well-formed.
LEMMA InitTypeOK == Init => TypeOK
BY BoundsAssumption DEF Init, TypeOK

\* The versions a client may send are numbers.
LEMMA SeenVersionsAreNumbers ==
    ASSUME TypeOK, NEW id \in ProposalId, NEW seen \in SeenVersions(id)
    PROVE  seen \in Nat
<1>1. PICK i \in DOMAIN trail[id] : seen = trail[id][i].version
  BY DEF SeenVersions
<1>2. trail[id] \in Seq(Entry)
  BY DEF TypeOK
<1>3. trail[id][i] \in Entry
  BY <1>1, <1>2
<1>. QED  BY <1>1, <1>3 DEF Entry

\* Every step keeps rows, audit entries and handlers well-formed.
LEMMA StepTypeOK == TypeOK /\ HandlerSound /\ [Next]_vars => TypeOK'
<1>. SUFFICES ASSUME TypeOK, HandlerSound, [Next]_vars
              PROVE  TypeOK'
  OBVIOUS
<1>. USE DEF TypeOK
<1>1. ASSUME NEW s \in Slot, BeginCreate(s)
      PROVE  TypeOK'
  <2>1. PICK actor \in Actor, parcel \in ParcelId :
            request' = [request EXCEPT ![s] =
                [op |-> "create", row |-> Draft(parcel, parcelVersion[parcel], 1, actor)]]
    BY <1>1 DEF BeginCreate
  <2>2. Draft(parcel, parcelVersion[parcel], 1, actor) \in Row
    BY DraftIsRow, BoundsAssumption
  <2>. QED  BY <1>1, <2>1, <2>2 DEF BeginCreate
<1>2. ASSUME NEW s \in Slot, CommitCreate(s)
      PROVE  TypeOK'
  <2>1. request[s].row \in Row
    BY <1>2 DEF CommitCreate
  <2>2. Created(request[s].row) \in Entry
    BY <2>1, CreatedIsEntry
  <2>. QED  BY <1>2, <2>1, <2>2 DEF CommitCreate
<1>3. ASSUME NEW s \in Slot, BeginTransition(s)
      PROVE  TypeOK'
  <2>1. PICK id \in ProposalId, to \in ProposalStates, actor \in Actor :
            /\ proposals[id] # NoRow
            /\ \E seen \in SeenVersions(id) :
                  request' = [request EXCEPT ![s] =
                    [op |-> "transition", id |-> id, item |-> proposals[id],
                     to |-> to, actor |-> actor, seen |-> seen]]
    BY <1>3 DEF BeginTransition
  <2>2. PICK seen \in SeenVersions(id) :
            request' = [request EXCEPT ![s] =
                    [op |-> "transition", id |-> id, item |-> proposals[id],
                     to |-> to, actor |-> actor, seen |-> seen]]
    BY <2>1
  <2>3. seen \in Nat
    BY SeenVersionsAreNumbers
  <2>4. proposals[id] \in Row
    BY <2>1
  <2>. QED  BY <1>3, <2>2, <2>3, <2>4 DEF BeginTransition
<1>4. ASSUME NEW s \in Slot, CommitTransition(s)
      PROVE  TypeOK'
  <2>. DEFINE r == request[s]
  <2>1. /\ r.id \in ProposalId /\ r.item \in Row
        /\ r.to \in ProposalStates /\ r.actor \in Actor
    BY <1>4 DEF CommitTransition
  <2>2. proposals[r.id] \in Row
    BY <1>4, <2>1 DEF CommitTransition, HandlerSound
  <2>3. Moved(proposals[r.id], r.to, r.actor) \in Row
    BY <2>1, <2>2, MovedIsRow
  <2>4. StateChanged(r.item, r.to, r.actor) \in Entry
    BY <2>1, StateChangedIsEntry
  <2>5. Append(trail[r.id], StateChanged(r.item, r.to, r.actor)) \in Seq(Entry)
    BY <2>1, <2>4
  <2>. QED  BY <1>4, <2>1, <2>3, <2>5 DEF CommitTransition
<1>5. ASSUME NEW s \in Slot, AbandonTx(s)
      PROVE  TypeOK'
  BY <1>5 DEF AbandonTx
<1>6. ASSUME NEW p \in ParcelId, UpdateParcel(p)
      PROVE  TypeOK'
  BY <1>6, BoundsAssumption DEF UpdateParcel
<1>7. CASE UNCHANGED vars
  BY <1>7 DEF vars
<1>. QED  BY <1>1, <1>2, <1>3, <1>4, <1>5, <1>6, <1>7 DEF Next

-----------------------------------------------------------------------------
(* Handlers in flight *)

\* With no handler in flight there is nothing to be wrong about.
LEMMA InitHandlerSound == Init => HandlerSound
BY DEF Init, HandlerSound

\* What a handler has read stays true or is outdated, whatever the others do.
LEMMA StepHandlerSound == TypeOK /\ HandlerSound /\ [Next]_vars => HandlerSound'
<1>. SUFFICES ASSUME TypeOK, HandlerSound, [Next]_vars
              PROVE  HandlerSound'
  OBVIOUS
<1>. USE DEF HandlerSound
<1>1. ASSUME NEW s \in Slot, BeginCreate(s)
      PROVE  HandlerSound'
  <2>1. PICK actor \in Actor, parcel \in ParcelId :
            request' = [request EXCEPT ![s] =
                [op |-> "create", row |-> Draft(parcel, parcelVersion[parcel], 1, actor)]]
    BY <1>1 DEF BeginCreate
  <2>2. parcelVersion[parcel] \in 1 .. parcelVersion[parcel]
    BY BoundsAssumption DEF TypeOK
  <2>. QED  BY <1>1, <2>1, <2>2 DEF BeginCreate, TypeOK, Draft
<1>2. ASSUME NEW s \in Slot, CommitCreate(s)
      PROVE  HandlerSound'
  BY <1>2 DEF CommitCreate, TypeOK
<1>3. ASSUME NEW s \in Slot, BeginTransition(s)
      PROVE  HandlerSound'
  <2>1. PICK id \in ProposalId, to \in ProposalStates, actor \in Actor :
            /\ proposals[id] # NoRow
            /\ CanProposalTransition(proposals[id].state, to)
            /\ MayTransitionProposal(proposals[id].createdBy, to, actor, RoleOf[actor])
            /\ \E seen \in SeenVersions(id) : request' = [request EXCEPT ![s] =
                    [op |-> "transition", id |-> id, item |-> proposals[id],
                     to |-> to, actor |-> actor, seen |-> seen]]
    BY <1>3 DEF BeginTransition
  <2>2. proposals[id].version \in Nat
    BY <2>1 DEF TypeOK, Row
  <2>. QED  BY <1>3, <2>1, <2>2 DEF BeginTransition, TypeOK
<1>4. ASSUME NEW s \in Slot, CommitTransition(s)
      PROVE  HandlerSound'
  <2>. DEFINE r == request[s]
  <2>1. /\ r.id \in ProposalId /\ r.to \in ProposalStates /\ r.actor \in Actor
        /\ proposals[r.id] \in Row
    BY <1>4 DEF CommitTransition, TypeOK
  <2>2. /\ proposals'[r.id] \in Row
        /\ proposals'[r.id].version = proposals[r.id].version + 1
        /\ proposals'[r.id] # NoRow
    BY <1>4, <2>1, MovedIsRow, RecordsAssumption DEF CommitTransition, TypeOK
  <2>3. ASSUME NEW t \in Slot, request'[t].op = "transition"
        PROVE  LET q == request'[t] IN
               /\ proposals'[q.id] # NoRow
               /\ q.item.version <= proposals'[q.id].version
               /\ q.item.version = proposals'[q.id].version => q.item = proposals'[q.id]
               /\ CanProposalTransition(q.item.state, q.to)
               /\ MayTransitionProposal(q.item.createdBy, q.to, q.actor, RoleOf[q.actor])
    <3>1. t # s /\ request'[t] = request[t] /\ request[t].op = "transition"
      BY <1>4, <2>3 DEF CommitTransition, TypeOK
    <3>2. request[t].id \in ProposalId /\ request[t].item.version \in Nat
      BY <3>1 DEF TypeOK, Row
    <3>3. CASE request[t].id = r.id
      <4>1. proposals[r.id].version \in Nat
        BY <2>1 DEF Row
      <4>. QED  BY <2>2, <3>1, <3>2, <3>3, <4>1
    <3>4. CASE request[t].id # r.id
      <4>1. proposals'[request[t].id] = proposals[request[t].id]
        BY <1>4, <3>2, <3>4 DEF CommitTransition, TypeOK
      <4>. QED  BY <3>1, <4>1
    <3>. QED  BY <3>3, <3>4
  <2>4. ASSUME NEW t \in Slot, request'[t].op = "create"
        PROVE  /\ request'[t].row.state = "draft" /\ request'[t].row.version = 1
               /\ request'[t].row.reviewedBy = Nobody
               /\ request'[t].row.base \in 1 .. parcelVersion'[request'[t].row.parcel]
    BY <1>4, <2>4 DEF CommitTransition, TypeOK
  <2>. QED  BY <2>3, <2>4
<1>5. ASSUME NEW s \in Slot, AbandonTx(s)
      PROVE  HandlerSound'
  BY <1>5 DEF AbandonTx, TypeOK
<1>6. ASSUME NEW p \in ParcelId, UpdateParcel(p)
      PROVE  HandlerSound'
  <2>1. ASSUME NEW t \in Slot, request'[t].op = "create"
        PROVE  request'[t].row.base \in 1 .. parcelVersion'[request'[t].row.parcel]
    <3>1. request[t].row.parcel \in ParcelId /\ request[t].row.base \in Nat
      BY <1>6, <2>1 DEF UpdateParcel, TypeOK, Row
    <3>. QED  BY <1>6, <2>1, <3>1, BoundsAssumption DEF UpdateParcel, TypeOK
  <2>. QED  BY <1>6, <2>1 DEF UpdateParcel
<1>7. CASE UNCHANGED vars
  BY <1>7 DEF vars
<1>. QED  BY <1>1, <1>2, <1>3, <1>4, <1>5, <1>6, <1>7 DEF Next

-----------------------------------------------------------------------------
(* Every step is a step of the abstract lifecycle *)

\* The operators of the abstract specification are the ones of the program.
LEMMA SameRecords ==
    /\ \A parcel, base, version, actor :
          Lifecycle!Draft(parcel, base, version, actor) = Draft(parcel, base, version, actor)
    /\ \A row : Lifecycle!Created(row) = Created(row)
    /\ \A row, to, actor : Lifecycle!Moved(row, to, actor) = Moved(row, to, actor)
    /\ \A row, to, actor : Lifecycle!StateChanged(row, to, actor) = StateChanged(row, to, actor)
    /\ \A from, to :
          Lifecycle!CanProposalTransition(from, to) <=> CanProposalTransition(from, to)
    /\ \A author, to, actor, role :
          Lifecycle!MayTransitionProposal(author, to, actor, role)
              <=> MayTransitionProposal(author, to, actor, role)
    /\ Lifecycle!ProposalStates = ProposalStates
BY DEF Lifecycle!Draft, Draft, Lifecycle!Created, Created, Lifecycle!Moved, Moved,
       Lifecycle!StateChanged, StateChanged, Lifecycle!ReviewTargets, ReviewTargets,
       Lifecycle!CanProposalTransition, CanProposalTransition,
       Lifecycle!ProposalTransitions, ProposalTransitions,
       Lifecycle!MayTransitionProposal, MayTransitionProposal,
       Lifecycle!AuthoringTargets, AuthoringTargets,
       Lifecycle!ProposalStates, ProposalStates

\* The empty tables are the initial state of the abstract lifecycle.
LEMMA InitLifecycle == Init => Lifecycle!Init
BY DEF Init, Lifecycle!Init

\* The commit of a creation creates, that of a transition takes a transition
\* the row allows at that moment, and nothing else touches rows or history.
LEMMA StepLifecycle ==
    TypeOK /\ HandlerSound /\ [Next]_vars => [Lifecycle!Next]_<<proposals, trail>>
<1>. SUFFICES ASSUME TypeOK, HandlerSound, [Next]_vars
              PROVE  Lifecycle!Next \/ UNCHANGED <<proposals, trail>>
  OBVIOUS
<1>1. ASSUME NEW s \in Slot, CommitCreate(s)
      PROVE  Lifecycle!Next
  <2>. DEFINE row == request[s].row
  <2>1. /\ row \in Row /\ row.state = "draft" /\ row.version = 1 /\ row.reviewedBy = Nobody
        /\ row.base \in 1 .. MaxParcelVersion
    <3>1. request[s].row \in Row
      BY <1>1 DEF CommitCreate, TypeOK
    <3>2. request[s].row.parcel \in ParcelId
      BY <3>1 DEF Row
    <3>. QED  BY <1>1, <3>1, <3>2, BoundsAssumption DEF CommitCreate, HandlerSound, TypeOK
  <2>2. row = Draft(row.parcel, row.base, 1, row.createdBy)
    BY <2>1 DEF Row, Draft
  <2>3. /\ row.parcel \in ParcelId /\ row.createdBy \in Actor
    BY <2>1 DEF Row
  <2>4. PICK id \in ProposalId :
          /\ proposals[id] = NoRow
          /\ proposals' = [proposals EXCEPT ![id] = row]
          /\ trail' = [trail EXCEPT ![id] = <<Created(row)>>]
    BY <1>1 DEF CommitCreate
  <2>. HIDE DEF row
  <2>5. Lifecycle!Create(id, Lifecycle!Draft(row.parcel, row.base, 1, row.createdBy))
    BY <2>2, <2>4, SameRecords DEF Lifecycle!Create
  <2>. QED  BY <2>1, <2>3, <2>5 DEF Lifecycle!Next
<1>2. ASSUME NEW s \in Slot, CommitTransition(s)
      PROVE  Lifecycle!Next
  <2>. DEFINE r == request[s]
  <2>1. /\ r.id \in ProposalId /\ r.to \in ProposalStates /\ r.actor \in Actor
        /\ proposals[r.id] # NoRow
        /\ r.item = proposals[r.id]
        /\ CanProposalTransition(r.item.state, r.to)
        /\ MayTransitionProposal(r.item.createdBy, r.to, r.actor, RoleOf[r.actor])
    BY <1>2 DEF CommitTransition, HandlerSound, TypeOK, Matches
  <2>2. Lifecycle!Transition(r.id, r.to, r.actor)
    BY <1>2, <2>1, SameRecords DEF Lifecycle!Transition, CommitTransition
  <2>. QED  BY <2>1, <2>2, SameRecords DEF Lifecycle!Next
<1>. QED  BY <1>1, <1>2
          DEF Next, vars, BeginCreate, BeginTransition, AbandonTx, UpdateParcel

-----------------------------------------------------------------------------
(* Histories *)

\* The history of a creation replays to the new row.
LEMMA CreatedReplays ==
    ASSUME NEW parcel \in ParcelId, NEW base \in Nat, NEW version \in Nat, NEW actor \in Actor
    PROVE  LET row == Draft(parcel, base, version, actor) IN
           /\ Replays(row, <<Created(row)>>)
           /\ Independent(<<Created(row)>>)
           /\ ReviewerNamed(row, <<Created(row)>>)
BY DEF Replays, Independent, ReviewerNamed, Created, Draft, ReviewTargets

\* A history that replays to a row, followed by a legal transition of that
\* row, replays to the row it makes.
LEMMA MovedReplays ==
    ASSUME NEW row \in Row, NEW log \in Seq(Entry), Replays(row, log),
           NEW to \in ProposalStates, NEW actor \in Actor,
           CanProposalTransition(row.state, to)
    PROVE  Replays(Moved(row, to, actor), Append(log, StateChanged(row, to, actor)))
<1>. DEFINE entry == StateChanged(row, to, actor)
            long  == Append(log, entry)
            moved == Moved(row, to, actor)
<1>1. /\ entry.from = row.state /\ entry.to = to /\ entry.version = row.version + 1
      /\ entry \in Entry
  BY StateChangedIsEntry DEF StateChanged
<1>2. /\ moved.state = to /\ moved.version = row.version + 1
      /\ moved.parcel = row.parcel /\ moved.base = row.base /\ moved.createdBy = row.createdBy
  BY MovedIsRow
<1>3. /\ Len(log) \in Nat \ {0}
      /\ Len(long) = Len(log) + 1
      /\ \A i \in 1 .. Len(log) : long[i] = log[i]
      /\ long[Len(log) + 1] = entry
      /\ long # <<>>
  BY <1>1 DEF Replays
<1>. HIDE DEF entry, long, moved
<1>4. long[1] = Created(Draft(moved.parcel, moved.base, long[1].version, moved.createdBy))
  BY <1>2, <1>3 DEF Replays
<1>5. ASSUME NEW i \in 1 .. Len(long) - 1
      PROVE  /\ long[i + 1].from = long[i].to
             /\ CanProposalTransition(long[i].to, long[i + 1].to)
             /\ long[i + 1].version = long[i].version + 1
  <2>1. CASE i = Len(log)
    BY <1>1, <1>3, <2>1 DEF Replays
  <2>2. CASE i # Len(log)
    <3>1. i \in 1 .. Len(log) - 1 /\ i + 1 \in 1 .. Len(log)
      BY <1>3, <2>2
    <3>. QED  BY <1>3, <3>1 DEF Replays
  <2>. QED  BY <2>1, <2>2
<1>6. long[Len(long)].to = moved.state /\ long[Len(long)].version = moved.version
  BY <1>1, <1>2, <1>3
<1>7. Replays(moved, long)
  BY <1>3, <1>4, <1>5, <1>6 DEF Replays
<1>. QED  BY <1>7 DEF moved, long, entry

\* A permitted transition keeps a history free of self-review: the author of
\* the row is the actor of the first entry.
LEMMA MovedIndependent ==
    ASSUME NEW row \in Row, NEW log \in Seq(Entry), Replays(row, log), Independent(log),
           NEW to \in ProposalStates, NEW actor \in Actor,
           MayTransitionProposal(row.createdBy, to, actor, RoleOf[actor])
    PROVE  Independent(Append(log, StateChanged(row, to, actor)))
<1>. DEFINE entry == StateChanged(row, to, actor)
            long  == Append(log, entry)
<1>1. entry.to = to /\ entry.actor = actor /\ entry \in Entry
  BY StateChangedIsEntry DEF StateChanged
<1>2. /\ Len(log) \in Nat \ {0}
      /\ DOMAIN long = 1 .. Len(log) + 1
      /\ \A i \in 1 .. Len(log) : long[i] = log[i]
      /\ long[Len(log) + 1] = entry
      /\ DOMAIN log = 1 .. Len(log)
  BY <1>1 DEF Replays
<1>3. log[1].actor = row.createdBy
  BY DEF Replays, Created, Draft
<1>4. to \in ReviewTargets => actor # row.createdBy /\ RoleOf[actor] \in {"reviewer", "admin"}
  BY DEF MayTransitionProposal, ReviewTargets, AuthoringTargets
<1>. HIDE DEF entry, long
<1>5. Independent(long)
  BY <1>1, <1>2, <1>3, <1>4 DEF Independent
<1>. QED  BY <1>5 DEF long, entry

\* A transition leaves the row naming the reviewer of its longer history.
LEMMA MovedNamesReviewer ==
    ASSUME NEW row \in Row, NEW log \in Seq(Entry), ReviewerNamed(row, log),
           NEW to \in ProposalStates, NEW actor \in Actor
    PROVE  ReviewerNamed(Moved(row, to, actor), Append(log, StateChanged(row, to, actor)))
<1>. DEFINE entry == StateChanged(row, to, actor)
            long  == Append(log, entry)
            moved == Moved(row, to, actor)
<1>1. entry.to = to /\ entry.actor = actor /\ entry \in Entry
  BY StateChangedIsEntry DEF StateChanged
<1>2. /\ Len(log) \in Nat
      /\ DOMAIN long = 1 .. Len(log) + 1
      /\ \A i \in 1 .. Len(log) : long[i] = log[i]
      /\ long[Len(log) + 1] = entry
      /\ DOMAIN log = 1 .. Len(log)
  BY <1>1
<1>3. moved.reviewedBy = IF to \in ReviewTargets THEN actor ELSE row.reviewedBy
  BY MovedIsRow
<1>. HIDE DEF entry, long, moved
<1>4. CASE to \in ReviewTargets
  <2>1. \A j \in DOMAIN long : j <= Len(log) + 1
    BY <1>2
  <2>. QED  BY <1>1, <1>2, <1>3, <1>4, <2>1 DEF ReviewerNamed, long, moved, entry
<1>5. CASE to \notin ReviewTargets
  <2>1. CASE \A i \in DOMAIN log : log[i].to \notin ReviewTargets
    <3>1. row.reviewedBy = Nobody
      BY <2>1 DEF ReviewerNamed
    <3>2. \A i \in DOMAIN long : long[i].to \notin ReviewTargets
      BY <1>1, <1>2, <1>5, <2>1
    <3>3. ReviewerNamed(moved, long)
      BY <1>3, <1>5, <3>1, <3>2 DEF ReviewerNamed
    <3>. QED  BY <3>3 DEF moved, long, entry
  <2>2. CASE \E i \in DOMAIN log : log[i].to \in ReviewTargets
    <3>1. PICK i \in DOMAIN log :
            /\ log[i].to \in ReviewTargets
            /\ \A j \in DOMAIN log : log[j].to \in ReviewTargets => j <= i
            /\ row.reviewedBy = log[i].actor
      BY <2>2 DEF ReviewerNamed
    <3>2. i \in DOMAIN long /\ long[i] = log[i]
      BY <1>2
    <3>3. \A j \in DOMAIN long : long[j].to \in ReviewTargets => j <= i
      BY <1>1, <1>2, <1>5, <3>1
    <3>4. ReviewerNamed(moved, long)
      BY <1>3, <1>5, <3>1, <3>2, <3>3 DEF ReviewerNamed
    <3>. QED  BY <3>4 DEF moved, long, entry
  <2>. QED  BY <2>1, <2>2
<1>. QED  BY <1>4, <1>5

\* What the step of the lifecycle does to one proposal.
LEMMA LifecycleStepOfOne ==
    ASSUME TypeOK, Lifecycle!Next, NEW id \in ProposalId
    PROVE  \/ proposals'[id] = proposals[id] /\ trail'[id] = trail[id]
           \/ /\ proposals[id] = NoRow
              /\ \E parcel \in ParcelId, base \in Nat, actor \in Actor :
                    LET row == Draft(parcel, base, 1, actor) IN
                    proposals'[id] = row /\ trail'[id] = <<Created(row)>>
           \/ /\ proposals[id] \in Row
              /\ \E to \in ProposalStates, actor \in Actor :
                    /\ CanProposalTransition(proposals[id].state, to)
                    /\ MayTransitionProposal(proposals[id].createdBy, to, actor, RoleOf[actor])
                    /\ proposals'[id] = Moved(proposals[id], to, actor)
                    /\ trail'[id] = Append(trail[id], StateChanged(proposals[id], to, actor))
<1>1. PICK other \in ProposalId, actor \in Actor :
        \/ \E parcel \in ParcelId, base \in 1 .. MaxParcelVersion, version \in {1} :
               Lifecycle!Create(other, Lifecycle!Draft(parcel, base, version, actor))
        \/ \E to \in ProposalStates : Lifecycle!Transition(other, to, actor)
  BY SameRecords DEF Lifecycle!Next
<1>2. ASSUME NEW parcel \in ParcelId, NEW base \in 1 .. MaxParcelVersion,
             Lifecycle!Create(other, Lifecycle!Draft(parcel, base, 1, actor))
      PROVE  \/ proposals'[id] = proposals[id] /\ trail'[id] = trail[id]
             \/ /\ proposals[id] = NoRow
                /\ LET row == Draft(parcel, base, 1, actor) IN
                   proposals'[id] = row /\ trail'[id] = <<Created(row)>>
  BY <1>2, SameRecords DEF Lifecycle!Create, TypeOK
<1>3. ASSUME NEW to \in ProposalStates, Lifecycle!Transition(other, to, actor)
      PROVE  \/ proposals'[id] = proposals[id] /\ trail'[id] = trail[id]
             \/ /\ proposals[id] \in Row
                /\ CanProposalTransition(proposals[id].state, to)
                /\ MayTransitionProposal(proposals[id].createdBy, to, actor, RoleOf[actor])
                /\ proposals'[id] = Moved(proposals[id], to, actor)
                /\ trail'[id] = Append(trail[id], StateChanged(proposals[id], to, actor))
  BY <1>3, SameRecords DEF Lifecycle!Transition, TypeOK
<1>4. \A base \in 1 .. MaxParcelVersion : base \in Nat
  BY BoundsAssumption
<1>. QED  BY <1>1, <1>2, <1>3, <1>4

\* The three statements about histories, together.
Histories == AuditTrailReplays /\ IndependentReview /\ ReviewerOfRecord

\* No proposal, no history.
LEMMA InitHistories == Init => Histories
BY DEF Init, Histories, AuditTrailReplays, IndependentReview, Independent, ReviewerOfRecord

\* Every step extends a sound history to a sound history.
LEMMA StepHistories ==
    TypeOK /\ Histories /\ [Lifecycle!Next]_<<proposals, trail>> => Histories'
<1>. SUFFICES ASSUME TypeOK, Histories, [Lifecycle!Next]_<<proposals, trail>>
              PROVE  Histories'
  OBVIOUS
<1>. USE DEF Histories, AuditTrailReplays, IndependentReview, ReviewerOfRecord
<1>1. CASE UNCHANGED <<proposals, trail>>
  BY <1>1
<1>2. CASE Lifecycle!Next
  <2>1. ASSUME NEW id \in ProposalId
        PROVE  /\ IF proposals'[id] = NoRow THEN trail'[id] = <<>>
                                            ELSE Replays(proposals'[id], trail'[id])
               /\ Independent(trail'[id])
               /\ proposals'[id] # NoRow => ReviewerNamed(proposals'[id], trail'[id])
    <3>1. trail[id] \in Seq(Entry)
      BY DEF TypeOK
    <3>2. CASE proposals'[id] = proposals[id] /\ trail'[id] = trail[id]
      BY <3>2
    <3>3. ASSUME NEW parcel \in ParcelId, NEW base \in Nat, NEW actor \in Actor,
                 proposals'[id] = Draft(parcel, base, 1, actor),
                 trail'[id] = <<Created(Draft(parcel, base, 1, actor))>>
          PROVE  <2>1!2
      <4>1. proposals'[id] # NoRow
        BY <3>3, DraftIsRow, RecordsAssumption
      <4>. QED  BY <3>3, <4>1, CreatedReplays
    <3>4. ASSUME proposals[id] \in Row,
                 NEW to \in ProposalStates, NEW actor \in Actor,
                 CanProposalTransition(proposals[id].state, to),
                 MayTransitionProposal(proposals[id].createdBy, to, actor, RoleOf[actor]),
                 proposals'[id] = Moved(proposals[id], to, actor),
                 trail'[id] = Append(trail[id], StateChanged(proposals[id], to, actor))
          PROVE  <2>1!2
      <4>1. proposals[id] # NoRow /\ proposals'[id] # NoRow
        BY <3>4, MovedIsRow, RecordsAssumption
      <4>2. Replays(proposals[id], trail[id]) /\ ReviewerNamed(proposals[id], trail[id])
        BY <4>1
      <4>3. Replays(proposals'[id], trail'[id])
        BY <3>1, <3>4, <4>2, MovedReplays
      <4>4. Independent(trail'[id])
        BY <3>1, <3>4, <4>2, MovedIndependent
      <4>5. ReviewerNamed(proposals'[id], trail'[id])
        BY <3>1, <3>4, <4>2, MovedNamesReviewer
      <4>. QED  BY <4>1, <4>3, <4>4, <4>5
    <3>. QED  BY <1>2, <3>2, <3>3, <3>4, LifecycleStepOfOne
  <2>. QED  BY <2>1
<1>. QED  BY <1>1, <1>2

\* A step of the lifecycle changes no decided row and forgets no history.
LEMMA StepDecisionFinal ==
    TypeOK /\ [Lifecycle!Next]_<<proposals, trail>> => DecisionFinalStep
<1>. SUFFICES ASSUME TypeOK, [Lifecycle!Next]_<<proposals, trail>>
              PROVE  DecisionFinalStep
  OBVIOUS
<1>1. CASE UNCHANGED <<proposals, trail>>
  BY <1>1 DEF DecisionFinalStep
<1>2. CASE Lifecycle!Next
  <2>1. ASSUME NEW id \in ProposalId, proposals[id] # NoRow
        PROVE  DecisionFinalStep!(id)!2
    <3>1. proposals[id] \in Row /\ trail[id] \in Seq(Entry)
      BY <2>1 DEF TypeOK
    <3>2. CASE proposals'[id] = proposals[id] /\ trail'[id] = trail[id]
      BY <2>1, <3>2
    <3>3. ASSUME NEW to \in ProposalStates, NEW actor \in Actor,
                 CanProposalTransition(proposals[id].state, to),
                 proposals'[id] = Moved(proposals[id], to, actor),
                 trail'[id] = Append(trail[id], StateChanged(proposals[id], to, actor))
          PROVE  DecisionFinalStep!(id)!2
      <4>1. /\ proposals'[id] \in Row
            /\ proposals'[id].version = proposals[id].version + 1
            /\ proposals'[id].parcel = proposals[id].parcel
            /\ proposals'[id].base = proposals[id].base
            /\ proposals'[id].createdBy = proposals[id].createdBy
        BY <3>1, <3>3, MovedIsRow
      <4>2. proposals'[id] # NoRow /\ proposals'[id] # proposals[id]
        BY <3>1, <4>1, RecordsAssumption DEF Row
      <4>3. proposals[id].state \notin {"accepted", "rejected"}
        BY <3>3 DEF CanProposalTransition, ProposalTransitions
      <4>4. StateChanged(proposals[id], to, actor) \in Entry
        BY <3>1, StateChangedIsEntry
      <4>5. /\ Len(trail'[id]) = Len(trail[id]) + 1
            /\ \A i \in DOMAIN trail[id] : trail'[id][i] = trail[id][i]
        BY <3>1, <3>3, <4>4
      <4>. QED  BY <4>1, <4>2, <4>3, <4>5
    <3>. QED  BY <1>2, <2>1, <3>2, <3>3, LifecycleStepOfOne
  <2>. QED  BY <2>1 DEF DecisionFinalStep
<1>. QED  BY <1>1, <1>2

-----------------------------------------------------------------------------
(* Theorems *)

\* Both at once: a commit on a missing row would write none.
LEMMA TypesAndHandlers == Spec => [](TypeOK /\ HandlerSound)
<1>1. Init => TypeOK /\ HandlerSound
  BY InitTypeOK, InitHandlerSound
<1>2. TypeOK /\ HandlerSound /\ [Next]_vars => (TypeOK /\ HandlerSound)'
  BY StepTypeOK, StepHandlerSound
<1>. QED  BY <1>1, <1>2, PTL DEF Spec

\* Rows, audit rows and handlers are well-formed.
THEOREM TypeCorrect == Spec => []TypeOK
BY TypesAndHandlers, PTL

\* What a handler is about to commit was allowed on the row it read, and that
\* is the row as it is or an older version of it (TransitionProposal).
THEOREM HandlersAreSound == Spec => []HandlerSound
BY TypesAndHandlers, PTL

\* Handlers that judge a stale read implement the lifecycle in which every
\* step is judged on the row itself.
THEOREM ReviewImplementsLifecycle == Spec => ImplementsLifecycle
<1>1. Init => Lifecycle!Init
  BY InitLifecycle
<1>2. TypeOK /\ HandlerSound /\ [Next]_vars => [Lifecycle!Next]_(Lifecycle!lifecycleVars)
  BY StepLifecycle DEF Lifecycle!lifecycleVars
<1>. QED  BY <1>1, <1>2, TypesAndHandlers, PTL DEF Spec, ImplementsLifecycle, Lifecycle!Spec

\* The three histories, for every proposal.
LEMMA HistoriesCorrect == Spec => [](AuditTrailReplays /\ IndependentReview /\ ReviewerOfRecord)
<1>1. Init => Histories
  BY InitHistories
<1>2. TypeOK /\ HandlerSound /\ Histories /\ [Next]_vars => Histories'
  BY StepLifecycle, StepHistories
<1>3. Histories => AuditTrailReplays /\ IndependentReview /\ ReviewerOfRecord
  BY DEF Histories
<1>. QED  BY <1>1, <1>2, <1>3, TypesAndHandlers, PTL DEF Spec

\* Every proposal's audit trail replays to its row (audit rows of
\* CreateProposal, TransitionProposal).
THEOREM TrailsReplay == Spec => []AuditTrailReplays
BY HistoriesCorrect, PTL

\* No audit trail holds a review by the author, whatever roles the author has
\* (authorizeProposalTransition).
THEOREM NobodyReviewsTheirOwn == Spec => []IndependentReview
BY HistoriesCorrect, PTL

\* reviewed_by is the last reviewer of the audit trail, or nobody.
THEOREM ReviewersAreOfRecord == Spec => []ReviewerOfRecord
BY HistoriesCorrect, PTL

\* Decisions are final and histories are append-only.
THEOREM DecisionsAreFinal == Spec => DecisionFinal
<1>1. TypeOK /\ HandlerSound /\ [Next]_vars => [DecisionFinalStep]_vars
  BY StepLifecycle, StepDecisionFinal
<1>. QED  BY <1>1, TypesAndHandlers, PTL DEF Spec, DecisionFinal
=============================================================================
