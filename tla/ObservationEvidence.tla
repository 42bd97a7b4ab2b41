------------------------ MODULE ObservationEvidence ------------------------
(***************************************************************************)
(* Survey observations: import, acceptance, rejection and supersession.    *)
(*                                                                         *)
(* TransitionObservation reads the observation and compares the client's   *)
(* version with it; to supersede it, it then reads the replacement, in a   *)
(* statement of its own, and at last updates the superseded row alone.     *)
(***************************************************************************)
EXTENDS Naturals, Sequences, FiniteSets, Vocabulary

CONSTANTS ObservationId, ParcelId, Actor,
          RoleOf,             \* the role of every account
          NoObservation,      \* no observation has this id yet
          Nothing,            \* replaced_by of a row that names none
          Slot,               \* handlers that may be in flight at once
          MaxVersion          \* bound: an observation row's version

\* model.SurveyObservation, the columns that move and those the rules read.
Observation == [ parcel     : ParcelId,
                 state      : ObservationStates,
                 version    : Nat,
                 replacedBy : ObservationId \cup {Nothing} ]

\* An audit row of observation.imported or observation.state_changed.
ObservationEvent == [ actor   : Actor,
                      from    : ObservationStates \cup {"none"},
                      to      : ObservationStates,
                      version : Nat ]

ASSUME ObservationAssumption ==
    /\ RoleOf \in [Actor -> Roles]
    /\ NoObservation \notin Observation /\ Nothing \notin ObservationId
    /\ MaxVersion \in Nat \ {0}

VARIABLES observations, history, request

observationVars == <<observations, history, request>>

Idle == [op |-> "idle"]

\* TransitionObservation between its reads ("check") and before its
\* transaction ("commit"): the row read, the target, and the replacement
\* asked for.
Changing == [ op : {"check", "commit"}, id : ObservationId, item : Observation,
              to : ObservationStates, replacement : ObservationId \cup {Nothing},
              actor : Actor ]

-----------------------------------------------------------------------------
Init ==
    /\ observations = [o \in ObservationId |-> NoObservation]
    /\ history      = [o \in ObservationId |-> <<>>]
    /\ request      = [s \in Slot |-> Idle]

\* ImportObservation: the client may name any of the three states; the parcel
\* exists and parcels are never deleted, so its look-up cannot go stale.
Import(o) ==
    /\ observations[o] = NoObservation
    /\ \E parcel \in ParcelId, state \in ObservationStates, actor \in Actor :
          /\ RoleOf[actor] \in EditorRoles
          /\ observations' = [observations EXCEPT ![o] =
                [parcel |-> parcel, state |-> state, version |-> 1, replacedBy |-> Nothing]]
          /\ history' = [history EXCEPT ![o] =
                <<[actor |-> actor, from |-> "none", to |-> state, version |-> 1]>>]
    /\ UNCHANGED request

\* The read of the observation and the checks on it.  The client's version is
\* the row's, or the request ends here; a replacement is named exactly for a
\* supersession, and is another observation.
BeginTransition(s) ==
    /\ request[s] = Idle
    /\ \E o \in ObservationId, to \in ObservationStates, actor \in Actor,
         replacement \in ObservationId \cup {Nothing} :
          /\ observations[o] # NoObservation
          /\ observations[o].version < MaxVersion
          /\ CanTransitionObservation(observations[o].state, to)
          /\ RoleOf[actor] \in EditorRoles
          /\ replacement # o
          /\ to = "superseded" <=> replacement # Nothing
          /\ request' = [request EXCEPT ![s] =
                [op |-> IF to = "superseded" THEN "check" ELSE "commit",
                 id |-> o, item |-> observations[o], to |-> to,
                 replacement |-> replacement, actor |-> actor]]
    /\ UNCHANGED <<observations, history>>

\* Mutant of MayReplace: the parcel is not compared.
NotSupersededOnly(item, replacement) == replacement.state # "superseded"

MayReplace(item, replacement) ==
    replacement.parcel = item.parcel /\ replacement.state # "superseded"

\* The read of the replacement and the checks on it.
CheckReplacement(s) ==
    /\ request[s].op = "check"
    /\ LET replacement == observations[request[s].replacement] IN
          /\ replacement # NoObservation
          /\ MayReplace(request[s].item, replacement)
    /\ request' = [request EXCEPT ![s].op = "commit"]
    /\ UNCHANGED <<observations, history>>

\* Mutant of Unchanged: the update is by primary key only.
UnchangedAlways(row, item) == TRUE

\* The WHERE clause of SurveyObservationRepository.Transition.
Unchanged(row, item) == row.version = item.version

\* The transaction: replaced_by is written only when a replacement is named.
CommitTransition(s) ==
    /\ request[s].op = "commit"
    /\ LET r == request[s] IN
          /\ Unchanged(observations[r.id], r.item)
          /\ observations' = [observations EXCEPT
                ![r.id].state = r.to,
                ![r.id].version = @ + 1,
                ![r.id].replacedBy = IF r.replacement = Nothing THEN @ ELSE r.replacement]
          /\ history' = [history EXCEPT ![r.id] = Append(@,
                [actor |-> r.actor, from |-> r.item.state, to |-> r.to,
                 version |-> r.item.version + 1])]
    /\ request' = [request EXCEPT ![s] = Idle]

\* Refused at a check, failed at a read, or rolled back.
Abandon(s) ==
    /\ request[s] # Idle
    /\ request' = [request EXCEPT ![s] = Idle]
    /\ UNCHANGED <<observations, history>>

Next ==
    \/ \E o \in ObservationId : Import(o)
    \/ \E s \in Slot : \/ BeginTransition(s)  \/ CheckReplacement(s)
                       \/ CommitTransition(s) \/ Abandon(s)

Spec == Init /\ [][Next]_observationVars

-----------------------------------------------------------------------------
(* Correctness *)

\* Rows, events and handlers have the columns of the model, and versions stay
\* under the bound.
TypeOK ==
    /\ observations \in [ObservationId -> Observation \cup {NoObservation}]
    /\ \A o \in ObservationId :
          observations[o] # NoObservation => observations[o].version \in 1 .. MaxVersion
    /\ history \in [ObservationId -> Seq(ObservationEvent)]
    /\ request \in [Slot -> {Idle} \cup Changing]

\* The history of an observation replays to its row: no event is lost, doubled
\* or out of order, whatever was accepted and rejected in between.
HistoryReplays ==
    \A o \in ObservationId :
        IF observations[o] = NoObservation THEN history[o] = <<>>
        ELSE LET log == history[o] IN
             /\ log # <<>> /\ log[1].from = "none" /\ log[1].version = 1
             /\ \A i \in 1 .. Len(log) - 1 :
                   /\ log[i + 1].from = log[i].to
                   /\ CanTransitionObservation(log[i].to, log[i + 1].to)
                   /\ log[i + 1].version = log[i].version + 1
             /\ log[Len(log)].to = observations[o].state
             /\ log[Len(log)].version = observations[o].version

\* A row names a replacement if and only if it was superseded by a transition
\* (not imported so), and the replacement is another observation of the same
\* parcel.  No later transition takes either back.
ReplacementRecorded ==
    \A o \in ObservationId : observations[o] # NoObservation =>
        LET row == observations[o] IN
        /\ row.replacedBy # Nothing <=> row.state = "superseded" /\ row.version > 1
        /\ row.replacedBy # Nothing =>
              /\ row.replacedBy # o
              /\ observations[row.replacedBy] # NoObservation
              /\ observations[row.replacedBy].parcel = row.parcel

\* A superseded observation is evidence of the past: its row is final.
SupersededFinal ==
    [][\A o \in ObservationId :
          observations[o] # NoObservation /\ observations[o].state = "superseded" =>
              observations'[o] = observations[o]]_observationVars

\* The observations one comes to by following replaced_by from o, at most n
\* times.
Successors[n \in Nat, o \in ObservationId] ==
    IF n = 0 \/ observations[o] = NoObservation \/ observations[o].replacedBy = Nothing THEN {}
    ELSE {observations[o].replacedBy} \cup Successors[n - 1, observations[o].replacedBy]

\* What the refusal in TransitionObservation says, that a replacement must be
\* an active observation: then nothing is superseded, at whatever distance,
\* by itself.
SupersessionEnds ==
    \A o \in ObservationId : o \notin Successors[Cardinality(ObservationId), o]
=============================================================================
