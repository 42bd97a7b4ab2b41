---------------------- MODULE ObservationEvidenceProofs ----------------------
(***************************************************************************)
(* ObservationEvidence for any number of observations, parcels, accounts   *)
(* and handlers, and any bound on the versions.                            *)
(***************************************************************************)
EXTENDS ObservationEvidence, TLAPS

-----------------------------------------------------------------------------
(* What a handler knows *)

\* Of the observation it read: it is the row as it is, or an older version of
\* it, of the same parcel.
ReadRow(r) ==
    LET row == observations[r.id] IN
    /\ row # NoObservation
    /\ row.parcel = r.item.parcel
    /\ r.item.version \in 1 .. MaxVersion - 1
    /\ r.item.version <= row.version
    /\ r.item.version = row.version => r.item = row

\* Of the request: it is legal for the row it read.
AllowedChange(r) ==
    /\ CanTransitionObservation(r.item.state, r.to)
    /\ r.replacement # r.id
    /\ r.to = "superseded" <=> r.replacement # Nothing

\* Of the replacement, once that is checked: it exists, on the same parcel.
CheckedReplacement(r) ==
    r.op = "commit" /\ r.replacement # Nothing =>
        /\ observations[r.replacement] # NoObservation
        /\ observations[r.replacement].parcel = r.item.parcel

HandlerSound ==
    \A s \in Slot : request[s] # Idle =>
        ReadRow(request[s]) /\ AllowedChange(request[s]) /\ CheckedReplacement(request[s])

-----------------------------------------------------------------------------
(* What a step does to the tables *)

FirstRow(parcel, state) ==
    [parcel |-> parcel, state |-> state, version |-> 1, replacedBy |-> Nothing]

NextRow(row, to, replacement) ==
    [row EXCEPT !.state = to, !.version = @ + 1,
                !.replacedBy = IF replacement = Nothing THEN @ ELSE replacement]

Event(actor, from, to, version) ==
    [actor |-> actor, from |-> from, to |-> to, version |-> version]

\* o appears.
Appears(o, parcel, state, actor) ==
    /\ observations[o] = NoObservation
    /\ observations' = [observations EXCEPT ![o] = FirstRow(parcel, state)]
    /\ history' = [history EXCEPT ![o] = <<Event(actor, "none", state, 1)>>]

\* o changes, legally for the row as it is.
Changes(o, to, replacement, actor) ==
    LET row == observations[o] IN
    /\ row \in Observation
    /\ row.version \in 1 .. MaxVersion - 1
    /\ CanTransitionObservation(row.state, to)
    /\ replacement # o
    /\ to = "superseded" <=> replacement # Nothing
    /\ replacement # Nothing => /\ observations[replacement] # NoObservation
                                /\ observations[replacement].parcel = row.parcel
    /\ observations' = [observations EXCEPT ![o] = NextRow(row, to, replacement)]
    /\ history' = [history EXCEPT ![o] =
                      Append(@, Event(actor, row.state, to, row.version + 1))]

TableStep ==
    \/ UNCHANGED <<observations, history>>
    \/ \E o \in ObservationId, parcel \in ParcelId, state \in ObservationStates, actor \in Actor :
          Appears(o, parcel, state, actor)
    \/ \E o \in ObservationId, to \in ObservationStates,
          replacement \in ObservationId \cup {Nothing}, actor \in Actor :
          Changes(o, to, replacement, actor)

\* A commit whose WHERE clause matches a version writes the very row its
\* handler has read, so every step that touches the tables is legal there.
LEMMA StepIsTableStep == TypeOK /\ HandlerSound /\ [Next]_observationVars => TableStep
<1>. SUFFICES ASSUME TypeOK, HandlerSound, [Next]_observationVars
              PROVE  TableStep
  OBVIOUS
<1>1. ASSUME NEW o \in ObservationId, Import(o)
      PROVE  TableStep
  <2>1. PICK parcel \in ParcelId, state \in ObservationStates, actor \in Actor :
          /\ observations' = [observations EXCEPT ![o] = FirstRow(parcel, state)]
          /\ history' = [history EXCEPT ![o] = <<Event(actor, "none", state, 1)>>]
    BY <1>1 DEF Import, FirstRow, Event
  <2>2. Appears(o, parcel, state, actor)
    BY <1>1, <2>1 DEF Import, Appears
  <2>. QED  BY <2>2 DEF TableStep
<1>2. ASSUME NEW s \in Slot, CommitTransition(s)
      PROVE  TableStep
  <2>. DEFINE r == request[s]
              row == observations[r.id]
  <2>1. r \in Changing /\ r # Idle
    BY <1>2 DEF CommitTransition, TypeOK, Idle
  <2>2. /\ r.id \in ObservationId /\ r.to \in ObservationStates /\ r.actor \in Actor
        /\ r.replacement \in ObservationId \cup {Nothing} /\ r.item \in Observation
    BY <2>1 DEF Changing
  <2>3. row = r.item /\ row.version \in 1 .. MaxVersion - 1
    BY <1>2, <2>1 DEF CommitTransition, Unchanged, HandlerSound, ReadRow
  <2>4. /\ CanTransitionObservation(row.state, r.to)
        /\ r.replacement # r.id
        /\ r.to = "superseded" <=> r.replacement # Nothing
        /\ r.replacement # Nothing => /\ observations[r.replacement] # NoObservation
                                      /\ observations[r.replacement].parcel = row.parcel
    BY <1>2, <2>1, <2>3 DEF CommitTransition, HandlerSound, AllowedChange, CheckedReplacement
  <2>5. observations' = [observations EXCEPT ![r.id] = NextRow(row, r.to, r.replacement)]
    BY <1>2, <2>2, <2>3 DEF CommitTransition, NextRow, Observation, TypeOK
  <2>6. history' = [history EXCEPT ![r.id] =
                       Append(@, Event(r.actor, row.state, r.to, row.version + 1))]
    BY <1>2, <2>3 DEF CommitTransition, Event
  <2>7. Changes(r.id, r.to, r.replacement, r.actor)
    BY <2>2, <2>3, <2>4, <2>5, <2>6 DEF Changes
  <2>. QED  BY <2>2, <2>7 DEF TableStep
<1>. QED  BY <1>1, <1>2
          DEF Next, observationVars, BeginTransition, CheckReplacement, Abandon, TableStep

\* Seen from one observation, a step leaves it alone or is about it.
LEMMA TableStepOfOne ==
    ASSUME TypeOK, TableStep, NEW o \in ObservationId
    PROVE  \/ observations'[o] = observations[o] /\ history'[o] = history[o]
           \/ \E parcel \in ParcelId, state \in ObservationStates, actor \in Actor :
                 Appears(o, parcel, state, actor)
           \/ \E to \in ObservationStates, replacement \in ObservationId \cup {Nothing},
                 actor \in Actor : Changes(o, to, replacement, actor)
<1>1. CASE UNCHANGED <<observations, history>>
  BY <1>1
<1>2. ASSUME NEW q \in ObservationId, NEW parcel \in ParcelId, NEW state \in ObservationStates,
             NEW actor \in Actor, Appears(q, parcel, state, actor), q # o
      PROVE  observations'[o] = observations[o] /\ history'[o] = history[o]
  BY <1>2 DEF Appears, TypeOK
<1>3. ASSUME NEW q \in ObservationId, NEW to \in ObservationStates,
             NEW replacement \in ObservationId \cup {Nothing}, NEW actor \in Actor,
             Changes(q, to, replacement, actor), q # o
      PROVE  observations'[o] = observations[o] /\ history'[o] = history[o]
  BY <1>3 DEF Changes, TypeOK
<1>. QED  BY <1>1, <1>2, <1>3 DEF TableStep

-----------------------------------------------------------------------------
(* Types *)

\* An import writes a row, under the bound.
LEMMA FirstRowIsRow ==
    ASSUME NEW parcel \in ParcelId, NEW state \in ObservationStates
    PROVE  /\ FirstRow(parcel, state) \in Observation
           /\ FirstRow(parcel, state).version \in 1 .. MaxVersion
BY ObservationAssumption DEF FirstRow, Observation

\* So does a transition, on the same parcel and with the next version.
LEMMA NextRowIsRow ==
    ASSUME NEW row \in Observation, row.version \in 1 .. MaxVersion - 1,
           NEW to \in ObservationStates, NEW replacement \in ObservationId \cup {Nothing},
           NEW next, next = NextRow(row, to, replacement)
    PROVE  /\ next \in Observation
           /\ next.version = row.version + 1 /\ next.version \in 1 .. MaxVersion
           /\ next.parcel = row.parcel
           /\ next.state = to
           /\ next.replacedBy = IF replacement = Nothing THEN row.replacedBy ELSE replacement
<1>1. next = [parcel |-> row.parcel, state |-> to, version |-> row.version + 1,
              replacedBy |-> IF replacement = Nothing THEN row.replacedBy ELSE replacement]
  BY DEF NextRow, Observation
<1>. QED  BY <1>1, ObservationAssumption DEF Observation

\* The tables remain well-formed.
LEMMA TablesTyped ==
    ASSUME TypeOK, TableStep
    PROVE  /\ observations' \in [ObservationId -> Observation \cup {NoObservation}]
           /\ \A o \in ObservationId :
                 observations'[o] # NoObservation => observations'[o].version \in 1 .. MaxVersion
           /\ history' \in [ObservationId -> Seq(ObservationEvent)]
<1>. USE DEF TypeOK
<1>1. CASE UNCHANGED <<observations, history>>
  BY <1>1
<1>2. ASSUME NEW o \in ObservationId, NEW parcel \in ParcelId, NEW state \in ObservationStates,
             NEW actor \in Actor, Appears(o, parcel, state, actor)
      PROVE  /\ observations' \in [ObservationId -> Observation \cup {NoObservation}]
             /\ \A q \in ObservationId :
                   observations'[q] # NoObservation => observations'[q].version \in 1 .. MaxVersion
             /\ history' \in [ObservationId -> Seq(ObservationEvent)]
  <2>1. Event(actor, "none", state, 1) \in ObservationEvent
    BY DEF Event, ObservationEvent
  <2>. QED  BY <1>2, <2>1, FirstRowIsRow DEF Appears
<1>3. ASSUME NEW o \in ObservationId, NEW to \in ObservationStates,
             NEW replacement \in ObservationId \cup {Nothing}, NEW actor \in Actor,
             Changes(o, to, replacement, actor)
      PROVE  /\ observations' \in [ObservationId -> Observation \cup {NoObservation}]
             /\ \A q \in ObservationId :
                   observations'[q] # NoObservation => observations'[q].version \in 1 .. MaxVersion
             /\ history' \in [ObservationId -> Seq(ObservationEvent)]
  <2>1. observations[o] \in Observation /\ observations[o].version \in 1 .. MaxVersion - 1
    BY <1>3 DEF Changes
  <2>2. Event(actor, observations[o].state, to, observations[o].version + 1) \in ObservationEvent
    BY <2>1 DEF Event, ObservationEvent, Observation
  <2>3. Append(history[o], Event(actor, observations[o].state, to, observations[o].version + 1))
           \in Seq(ObservationEvent)
    BY <2>2
  <2>4. /\ NextRow(observations[o], to, replacement) \in Observation
        /\ NextRow(observations[o], to, replacement).version \in 1 .. MaxVersion
    BY <2>1, NextRowIsRow
  <2>. QED  BY <1>3, <2>3, <2>4 DEF Changes
<1>. QED  BY <1>1, <1>2, <1>3 DEF TableStep

\* The handlers remain well-formed.
LEMMA StepTypeOK == TypeOK /\ HandlerSound /\ [Next]_observationVars => TypeOK'
<1>. SUFFICES ASSUME TypeOK, HandlerSound, [Next]_observationVars
              PROVE  TypeOK'
  OBVIOUS
<1>1. request' \in [Slot -> {Idle} \cup Changing]
  <2>1. ASSUME NEW s \in Slot, BeginTransition(s)
        PROVE  request' \in [Slot -> {Idle} \cup Changing]
    <3>1. PICK o \in ObservationId, to \in ObservationStates, actor \in Actor,
               replacement \in ObservationId \cup {Nothing} :
            /\ observations[o] # NoObservation
            /\ request' = [request EXCEPT ![s] =
                  [op |-> IF to = "superseded" THEN "check" ELSE "commit",
                   id |-> o, item |-> observations[o], to |-> to,
                   replacement |-> replacement, actor |-> actor]]
      BY <2>1 DEF BeginTransition
    <3>2. observations[o] \in Observation
      BY <3>1 DEF TypeOK
    <3>. QED  BY <3>1, <3>2 DEF TypeOK, Changing
  <2>2. ASSUME NEW s \in Slot, CheckReplacement(s)
        PROVE  request' \in [Slot -> {Idle} \cup Changing]
    <3>1. request[s] \in Changing
      BY <2>2 DEF CheckReplacement, TypeOK, Idle
    <3>2. [request[s] EXCEPT !.op = "commit"] \in Changing
      BY <3>1 DEF Changing
    <3>. QED  BY <2>2, <3>2 DEF CheckReplacement, TypeOK
  <2>. QED  BY <2>1, <2>2
            DEF Next, observationVars, Import, CommitTransition, Abandon, TypeOK
<1>. QED  BY <1>1, StepIsTableStep, TablesTyped DEF TypeOK

-----------------------------------------------------------------------------
(* Handlers in flight *)

\* A row stays on its parcel, and counts the version when it changes.
RowsEvolve ==
    \A o \in ObservationId : observations[o] # NoObservation =>
        /\ observations'[o] # NoObservation
        /\ observations'[o].parcel = observations[o].parcel
        /\ \/ observations'[o] = observations[o]
           \/ observations'[o].version = observations[o].version + 1

\* Every step keeps that of every observation.
LEMMA StepRowsEvolve == TypeOK /\ TableStep => RowsEvolve
<1>. SUFFICES ASSUME TypeOK, TableStep, NEW o \in ObservationId, observations[o] # NoObservation
              PROVE  /\ observations'[o] # NoObservation
                     /\ observations'[o].parcel = observations[o].parcel
                     /\ \/ observations'[o] = observations[o]
                        \/ observations'[o].version = observations[o].version + 1
  BY DEF RowsEvolve
<1>. USE DEF TypeOK
<1>1. CASE UNCHANGED <<observations, history>>
  BY <1>1
<1>2. ASSUME NEW q \in ObservationId, NEW parcel \in ParcelId, NEW state \in ObservationStates,
             NEW actor \in Actor, Appears(q, parcel, state, actor)
      PROVE  observations'[o] = observations[o]
  BY <1>2 DEF Appears
<1>3. ASSUME NEW q \in ObservationId, NEW to \in ObservationStates,
             NEW replacement \in ObservationId \cup {Nothing}, NEW actor \in Actor,
             Changes(q, to, replacement, actor)
      PROVE  /\ observations'[o] # NoObservation
             /\ observations'[o].parcel = observations[o].parcel
             /\ \/ observations'[o] = observations[o]
                \/ observations'[o].version = observations[o].version + 1
  <2>1. CASE q # o
    BY <1>3, <2>1 DEF Changes
  <2>2. CASE q = o
    <3>1. observations'[o] = NextRow(observations[o], to, replacement)
          /\ observations[o] \in Observation
          /\ observations[o].version \in 1 .. MaxVersion - 1
      BY <1>3, <2>2 DEF Changes
    <3>2. /\ observations'[o] \in Observation
          /\ observations'[o].version = observations[o].version + 1
          /\ observations'[o].parcel = observations[o].parcel
      BY <3>1, NextRowIsRow
    <3>. QED  BY <3>2, ObservationAssumption
  <2>. QED  BY <2>1, <2>2
<1>. QED  BY <1>1, <1>2, <1>3 DEF TableStep

\* What a handler knows is not lost while it waits.
LEMMA HandlerKeepsKnowing ==
    ASSUME TypeOK, RowsEvolve, NEW r \in Changing,
           ReadRow(r), AllowedChange(r), CheckedReplacement(r)
    PROVE  ReadRow(r)' /\ AllowedChange(r)' /\ CheckedReplacement(r)'
<1>1. /\ r.id \in ObservationId /\ r.item \in Observation
      /\ r.replacement \in ObservationId \cup {Nothing}
  BY DEF Changing
<1>2. observations[r.id] \in Observation
  BY <1>1 DEF TypeOK, ReadRow
<1>3. observations[r.id].version \in Nat /\ r.item.version \in Nat
  BY <1>1, <1>2 DEF Observation
<1>4. ReadRow(r)'
  <2>1. /\ observations'[r.id] # NoObservation
        /\ observations'[r.id].parcel = r.item.parcel
    BY <1>1 DEF RowsEvolve, ReadRow
  <2>2. /\ r.item.version <= observations'[r.id].version
        /\ r.item.version = observations'[r.id].version => r.item = observations'[r.id]
    BY <1>1, <1>3 DEF RowsEvolve, ReadRow
  <2>. QED  BY <2>1, <2>2 DEF ReadRow
<1>5. AllowedChange(r)'
  BY DEF AllowedChange
<1>6. CheckedReplacement(r)'
  BY <1>1 DEF CheckedReplacement, RowsEvolve
<1>. QED  BY <1>4, <1>5, <1>6

\* Reading and checking make the knowledge, waiting keeps it.
LEMMA StepHandlerSound == TypeOK /\ HandlerSound /\ [Next]_observationVars => HandlerSound'
<1>. SUFFICES ASSUME TypeOK, HandlerSound, [Next]_observationVars,
                     NEW t \in Slot, request'[t] # Idle
              PROVE  /\ ReadRow(request[t])' /\ AllowedChange(request[t])'
                     /\ CheckedReplacement(request[t])'
  BY DEF HandlerSound
<1>1. RowsEvolve
  BY StepIsTableStep, StepRowsEvolve
<1>2. ASSUME request'[t] = request[t]
      PROVE  /\ ReadRow(request[t])' /\ AllowedChange(request[t])'
             /\ CheckedReplacement(request[t])'
  <2>1. request[t] \in Changing
    BY <1>2 DEF TypeOK
  <2>2. ReadRow(request[t]) /\ AllowedChange(request[t]) /\ CheckedReplacement(request[t])
    BY <1>2 DEF HandlerSound
  <2>3. \A r \in Changing : ReadRow(r) /\ AllowedChange(r) /\ CheckedReplacement(r) =>
           ReadRow(r)' /\ AllowedChange(r)' /\ CheckedReplacement(r)'
    BY <1>1, HandlerKeepsKnowing
  <2>. QED  BY <1>2, <2>1, <2>2, <2>3 DEF ReadRow, AllowedChange, CheckedReplacement
<1>3. ASSUME NEW s \in Slot, BeginTransition(s), t = s
      PROVE  /\ ReadRow(request[t])' /\ AllowedChange(request[t])'
             /\ CheckedReplacement(request[t])'
  <2>1. PICK o \in ObservationId, to \in ObservationStates, actor \in Actor,
             replacement \in ObservationId \cup {Nothing} :
          /\ observations[o] # NoObservation
          /\ observations[o].version < MaxVersion
          /\ CanTransitionObservation(observations[o].state, to)
          /\ replacement # o
          /\ to = "superseded" <=> replacement # Nothing
          /\ request' = [request EXCEPT ![s] =
                [op |-> IF to = "superseded" THEN "check" ELSE "commit",
                 id |-> o, item |-> observations[o], to |-> to,
                 replacement |-> replacement, actor |-> actor]]
    BY <1>3 DEF BeginTransition
  <2>2. observations[o].version \in 1 .. MaxVersion - 1
    BY <2>1, ObservationAssumption DEF TypeOK
  <2>3. observations' = observations
    BY <1>3 DEF BeginTransition
  <2>4. request'[t] = [op |-> IF to = "superseded" THEN "check" ELSE "commit",
                       id |-> o, item |-> observations[o], to |-> to,
                       replacement |-> replacement, actor |-> actor]
    BY <1>3, <2>1 DEF TypeOK
  <2>5. ReadRow(request[t])'
    BY <2>1, <2>2, <2>3, <2>4 DEF ReadRow
  <2>6. AllowedChange(request[t])'
    BY <2>1, <2>4 DEF AllowedChange
  <2>7. CheckedReplacement(request[t])'
    BY <2>1, <2>4 DEF CheckedReplacement
  <2>. QED  BY <2>5, <2>6, <2>7
<1>4. ASSUME NEW s \in Slot, CheckReplacement(s), t = s
      PROVE  /\ ReadRow(request[t])' /\ AllowedChange(request[t])'
             /\ CheckedReplacement(request[t])'
  <2>1. request[t] \in Changing /\ request[t] # Idle
    BY <1>4 DEF CheckReplacement, TypeOK, Idle
  <2>2. /\ request'[t].id = request[t].id /\ request'[t].item = request[t].item
        /\ request'[t].to = request[t].to /\ request'[t].replacement = request[t].replacement
    BY <1>4, <2>1 DEF CheckReplacement, Changing, TypeOK
  <2>3. observations' = observations
    BY <1>4 DEF CheckReplacement
  <2>4. /\ observations[request[t].replacement] # NoObservation
        /\ observations[request[t].replacement].parcel = request[t].item.parcel
    BY <1>4 DEF CheckReplacement, MayReplace
  <2>5. ReadRow(request[t])' /\ AllowedChange(request[t])'
    BY <2>1, <2>2, <2>3 DEF HandlerSound, ReadRow, AllowedChange
  <2>6. CheckedReplacement(request[t])'
    BY <2>2, <2>3, <2>4 DEF CheckedReplacement
  <2>. QED  BY <2>5, <2>6
<1>. QED  BY <1>2, <1>3, <1>4
          DEF Next, observationVars, Import, BeginTransition, CheckReplacement,
              CommitTransition, Abandon, TypeOK

-----------------------------------------------------------------------------
(* Histories *)

Replays(row, log) ==
    /\ log # <<>> /\ log[1].from = "none" /\ log[1].version = 1
    /\ \A i \in 1 .. Len(log) - 1 :
          /\ log[i + 1].from = log[i].to
          /\ CanTransitionObservation(log[i].to, log[i + 1].to)
          /\ log[i + 1].version = log[i].version + 1
    /\ log[Len(log)].to = row.state
    /\ log[Len(log)].version = row.version

\* HistoryReplays, with a name for what it says of one observation.
LEMMA HistoryReplaysByRow ==
    HistoryReplays <=>
        \A o \in ObservationId : IF observations[o] = NoObservation THEN history[o] = <<>>
                                 ELSE Replays(observations[o], history[o])
BY DEF HistoryReplays, Replays

\* A history that replays to a row, followed by the event of a legal change,
\* replays to the changed row.
LEMMA ChangedReplays ==
    ASSUME NEW row \in Observation, NEW next \in Observation, NEW log \in Seq(ObservationEvent),
           NEW event \in ObservationEvent, Replays(row, log),
           event.from = row.state, CanTransitionObservation(row.state, event.to),
           event.version = row.version + 1,
           next.state = event.to, next.version = row.version + 1
    PROVE  Replays(next, Append(log, event))
<1>. DEFINE long == Append(log, event)
<1>1. /\ Len(log) \in Nat \ {0}
      /\ Len(long) = Len(log) + 1 /\ long # <<>>
      /\ \A i \in 1 .. Len(log) : long[i] = log[i]
      /\ long[Len(log) + 1] = event
  BY DEF Replays
<1>. HIDE DEF long
<1>2. long[1].from = "none" /\ long[1].version = 1
  BY <1>1 DEF Replays
<1>3. ASSUME NEW i \in 1 .. Len(long) - 1
      PROVE  /\ long[i + 1].from = long[i].to
             /\ CanTransitionObservation(long[i].to, long[i + 1].to)
             /\ long[i + 1].version = long[i].version + 1
  <2>1. CASE i = Len(log)
    <3>1. long[i] = log[Len(log)] /\ long[i + 1] = event
      BY <1>1, <2>1
    <3>. QED  BY <3>1 DEF Replays
  <2>2. CASE i # Len(log)
    <3>1. i \in 1 .. Len(log) - 1 /\ i + 1 \in 1 .. Len(log)
      BY <1>1, <2>2
    <3>2. long[i] = log[i] /\ long[i + 1] = log[i + 1]
      BY <1>1, <3>1
    <3>. QED  BY <3>1, <3>2 DEF Replays
  <2>. QED  BY <2>1, <2>2
<1>4. long[Len(long)] = event
  BY <1>1
<1>5. Replays(next, long)
  BY <1>1, <1>2, <1>3, <1>4 DEF Replays
<1>. QED  BY <1>5 DEF long

\* Every step of the tables keeps the histories.
LEMMA StepHistoryReplays == TypeOK /\ HistoryReplays /\ TableStep => HistoryReplays'
<1>. SUFFICES ASSUME TypeOK, HistoryReplays, TableStep, NEW o \in ObservationId
              PROVE  IF observations'[o] = NoObservation THEN history'[o] = <<>>
                     ELSE Replays(observations'[o], history'[o])
  BY DEF HistoryReplays, Replays
<1>1. IF observations[o] = NoObservation THEN history[o] = <<>>
      ELSE Replays(observations[o], history[o])
  BY HistoryReplaysByRow
<1>2. CASE observations'[o] = observations[o] /\ history'[o] = history[o]
  BY <1>1, <1>2
<1>3. ASSUME NEW parcel \in ParcelId, NEW state \in ObservationStates, NEW actor \in Actor,
             Appears(o, parcel, state, actor)
      PROVE  /\ observations'[o] # NoObservation
             /\ Replays(observations'[o], history'[o])
  <2>1. /\ observations'[o] = FirstRow(parcel, state)
        /\ history'[o] = <<Event(actor, "none", state, 1)>>
    BY <1>3 DEF Appears, TypeOK
  <2>2. FirstRow(parcel, state) # NoObservation
    BY FirstRowIsRow, ObservationAssumption
  <2>3. Replays(FirstRow(parcel, state), <<Event(actor, "none", state, 1)>>)
    BY DEF Replays, FirstRow, Event
  <2>. QED  BY <2>1, <2>2, <2>3
<1>4. ASSUME NEW to \in ObservationStates, NEW replacement \in ObservationId \cup {Nothing},
             NEW actor \in Actor, Changes(o, to, replacement, actor)
      PROVE  /\ observations'[o] # NoObservation
             /\ Replays(observations'[o], history'[o])
  <2>. DEFINE row   == observations[o]
              event == Event(actor, row.state, to, row.version + 1)
  <2>1. /\ row \in Observation /\ row.version \in 1 .. MaxVersion - 1
        /\ CanTransitionObservation(row.state, to)
    BY <1>4 DEF Changes
  <2>2. /\ observations'[o] = NextRow(row, to, replacement)
        /\ history'[o] = Append(history[o], event)
    BY <1>4 DEF Changes, TypeOK
  <2>3. /\ observations'[o] \in Observation
        /\ observations'[o].state = to /\ observations'[o].version = row.version + 1
    BY <2>1, <2>2, NextRowIsRow
  <2>4. /\ event \in ObservationEvent
        /\ event.from = row.state /\ event.to = to /\ event.version = row.version + 1
    BY <2>1 DEF Event, ObservationEvent, Observation
  <2>5. history[o] \in Seq(ObservationEvent) /\ Replays(row, history[o])
    BY <1>1, <2>1, ObservationAssumption DEF TypeOK
  <2>. HIDE DEF event, row
  <2>6. Replays(observations'[o], Append(history[o], event))
    BY <2>1, <2>3, <2>4, <2>5, ChangedReplays
  <2>. QED  BY <2>2, <2>3, <2>6, ObservationAssumption
<1>5. \/ observations'[o] = observations[o] /\ history'[o] = history[o]
      \/ \E parcel \in ParcelId, state \in ObservationStates, actor \in Actor :
            Appears(o, parcel, state, actor)
      \/ \E to \in ObservationStates, replacement \in ObservationId \cup {Nothing},
            actor \in Actor : Changes(o, to, replacement, actor)
  BY TableStepOfOne
<1>. QED  BY <1>2, <1>3, <1>4, <1>5

-----------------------------------------------------------------------------
(* Supersession *)

\* Every step of the tables keeps the replacements: what supersedes names one,
\* what does not starts from a row without one.
LEMMA StepReplacementRecorded == TypeOK /\ ReplacementRecorded /\ TableStep => ReplacementRecorded'
<1>. SUFFICES ASSUME TypeOK, ReplacementRecorded, TableStep,
                     NEW o \in ObservationId, observations'[o] # NoObservation
              PROVE  LET row == observations'[o] IN
                     /\ row.replacedBy # Nothing <=> row.state = "superseded" /\ row.version > 1
                     /\ row.replacedBy # Nothing =>
                           /\ row.replacedBy # o
                           /\ observations'[row.replacedBy] # NoObservation
                           /\ observations'[row.replacedBy].parcel = row.parcel
  BY DEF ReplacementRecorded
<1>1. RowsEvolve
  BY StepRowsEvolve
<1>. DEFINE was == observations[o]
            row == observations'[o]
<1>2. CASE row = was
  <2>1. was # NoObservation /\ was \in Observation
    BY <1>2 DEF TypeOK
  <2>2. was.replacedBy \in ObservationId \cup {Nothing}
    BY <2>1 DEF Observation
  <2>. QED  BY <1>1, <1>2, <2>1, <2>2 DEF ReplacementRecorded, RowsEvolve
<1>3. ASSUME NEW parcel \in ParcelId, NEW state \in ObservationStates, NEW actor \in Actor,
             Appears(o, parcel, state, actor)
      PROVE  row.replacedBy = Nothing /\ row.version = 1
  BY <1>3 DEF Appears, FirstRow, TypeOK
<1>4. ASSUME NEW to \in ObservationStates, NEW replacement \in ObservationId \cup {Nothing},
             NEW actor \in Actor, Changes(o, to, replacement, actor)
      PROVE  /\ row.replacedBy # Nothing <=> row.state = "superseded" /\ row.version > 1
             /\ row.replacedBy # Nothing =>
                   /\ row.replacedBy # o
                   /\ observations'[row.replacedBy] # NoObservation
                   /\ observations'[row.replacedBy].parcel = row.parcel
  <2>1. /\ was \in Observation /\ was.version \in 1 .. MaxVersion - 1
        /\ CanTransitionObservation(was.state, to)
        /\ replacement # o /\ (to = "superseded" <=> replacement # Nothing)
        /\ replacement # Nothing => /\ observations[replacement] # NoObservation
                                    /\ observations[replacement].parcel = was.parcel
    BY <1>4 DEF Changes
  <2>2. row = NextRow(was, to, replacement)
    BY <1>4 DEF Changes, TypeOK
  <2>3. /\ row.version = was.version + 1 /\ row.state = to /\ row.parcel = was.parcel
        /\ row.replacedBy = IF replacement = Nothing THEN was.replacedBy ELSE replacement
    BY <2>1, <2>2, NextRowIsRow
  <2>4. was.state # "superseded"
    BY <2>1 DEF CanTransitionObservation
  <2>5. was.replacedBy = Nothing
    BY <2>1, <2>4, ObservationAssumption DEF ReplacementRecorded
  <2>6. row.version > 1
    BY <2>1, <2>3, ObservationAssumption
  <2>7. CASE replacement = Nothing
    BY <2>1, <2>3, <2>5, <2>7
  <2>8. CASE replacement # Nothing
    BY <1>1, <2>1, <2>3, <2>6, <2>8 DEF RowsEvolve
  <2>. QED  BY <2>7, <2>8
<1>5. \/ row = was
      \/ \E parcel \in ParcelId, state \in ObservationStates, actor \in Actor :
            Appears(o, parcel, state, actor)
      \/ \E to \in ObservationStates, replacement \in ObservationId \cup {Nothing},
            actor \in Actor : Changes(o, to, replacement, actor)
  BY TableStepOfOne
<1>. QED  BY <1>2, <1>3, <1>4, <1>5

\* No transition leads out of superseded.
LEMMA StepSupersededFinal ==
    TypeOK /\ TableStep =>
        \A o \in ObservationId :
            observations[o] # NoObservation /\ observations[o].state = "superseded" =>
                observations'[o] = observations[o]
BY DEF TableStep, Appears, Changes, TypeOK, CanTransitionObservation

-----------------------------------------------------------------------------
(* Theorems *)

EvidenceInvariant == TypeOK /\ HandlerSound /\ HistoryReplays /\ ReplacementRecorded

\* The empty table is in order.
LEMMA EvidenceInitially == Init => EvidenceInvariant
BY DEF Init, EvidenceInvariant, TypeOK, HandlerSound, HistoryReplays, ReplacementRecorded

\* And stays so, whatever handlers do in whatever order.
LEMMA EvidencePreserved ==
    EvidenceInvariant /\ [Next]_observationVars => EvidenceInvariant'
BY StepIsTableStep, StepTypeOK, StepHandlerSound, StepHistoryReplays, StepReplacementRecorded
   DEF EvidenceInvariant

\* The invariant holds at all times.
LEMMA EvidenceAlways == Spec => []EvidenceInvariant
BY EvidenceInitially, EvidencePreserved, PTL DEF Spec

\* Rows, audit rows and handlers are well-formed.
THEOREM TypeCorrect == Spec => []TypeOK
<1>1. EvidenceInvariant => TypeOK
  BY DEF EvidenceInvariant
<1>. QED  BY <1>1, EvidenceAlways, PTL

\* No event of an observation is lost, doubled or out of order, though handlers
\* judge a row they have read before (TransitionObservation).
THEOREM HistoriesReplay == Spec => []HistoryReplays
<1>1. EvidenceInvariant => HistoryReplays
  BY DEF EvidenceInvariant
<1>. QED  BY <1>1, EvidenceAlways, PTL

\* A row names a replacement exactly when it was superseded, and one of its own
\* parcel, although the replacement is read in another statement.
THEOREM ReplacementsAreRecorded == Spec => []ReplacementRecorded
<1>1. EvidenceInvariant => ReplacementRecorded
  BY DEF EvidenceInvariant
<1>. QED  BY <1>1, EvidenceAlways, PTL

\* A superseded row never changes again.
THEOREM SupersessionIsFinal == Spec => SupersededFinal
<1>1. EvidenceInvariant /\ [Next]_observationVars =>
         [\A o \in ObservationId :
             observations[o] # NoObservation /\ observations[o].state = "superseded" =>
                 observations'[o] = observations[o]]_observationVars
  BY StepIsTableStep, StepSupersededFinal DEF EvidenceInvariant
<1>. QED  BY <1>1, EvidenceAlways, PTL DEF Spec, SupersededFinal
=============================================================================
