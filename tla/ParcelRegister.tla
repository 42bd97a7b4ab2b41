--------------------------- MODULE ParcelRegister ---------------------------
(***************************************************************************)
(* Land parcels: creation under a unique code, and updates.                *)
(*                                                                         *)
(* UpdateParcel reads the whole row, lays the fields of the request over   *)
(* it and writes all of them back, provided that boundary_version is the   *)
(* one the client stated, or the one just read if it stated none.  The     *)
(* stated one is never compared with the row that was read.                *)
(* CreateParcel looks the code up inside its transaction; under READ       *)
(* COMMITTED only the unique index keeps two of them apart.                *)
(***************************************************************************)
EXTENDS Naturals, Sequences

CONSTANTS ParcelId, Code, Field, Value,
          NoParcel,        \* no parcel has this id yet
          Unstated,        \* the boundary_version of a request that has none
          Slot,            \* handlers that may be in flight at once
          MaxVersion       \* bound: a parcel's boundary_version

\* What an UPDATE may change: name, boundary with its area, coordinate system,
\* owner and state, as far as the instance tells them apart.
Content == [Field -> Value]

Parcel == [code : Code, content : Content, version : Nat]

ASSUME ParcelAssumption ==
    /\ MaxVersion \in Nat \ {0}
    /\ NoParcel \notin Parcel /\ Unstated \notin Nat

VARIABLES
    parcels,   \* the land_parcels table
    history,   \* every parcel's audit rows: content and version before and
               \* after; "stated" is no column but what the client sent
    request    \* the handler in every slot

parcelVars == <<parcels, history, request>>

Idle == [op |-> "idle"]

\* A handler that is done, until its response is out.
Replied(code) == [op |-> "replied", code |-> code]

Snapshot(row) == [content |-> row.content, version |-> row.version]

-----------------------------------------------------------------------------
Init ==
    /\ parcels = [p \in ParcelId |-> NoParcel]
    /\ history = [p \in ParcelId |-> <<>>]
    /\ request = [s \in Slot |-> Idle]

Taken(code) == \E p \in ParcelId : parcels[p] # NoParcel /\ parcels[p].code = code

\* CreateParcel opens its transaction and looks the code up.
BeginCreate(s) ==
    /\ request[s] = Idle
    /\ \E code \in Code, content \in Content :
          request' = [request EXCEPT ![s] =
              IF Taken(code) THEN Replied(409)
              ELSE [op |-> "create", row |-> [code |-> code, content |-> content, version |-> 1]]]
    /\ UNCHANGED <<parcels, history>>

\* Mutant of IndexAdmits: parcel_code has no unique index.
NoIndex(code) == TRUE

IndexAdmits(code) == ~Taken(code)

\* INSERT and COMMIT.  A code that was taken since the look-up is an error of
\* the index, which the handler does not tell from any other: 500.
CommitCreate(s) ==
    /\ request[s].op = "create"
    /\ LET row == request[s].row IN
          IF IndexAdmits(row.code)
          THEN \E p \in ParcelId :
                  /\ parcels[p] = NoParcel
                  /\ parcels' = [parcels EXCEPT ![p] = row]
                  /\ history' = [history EXCEPT ![p] =
                        <<[before |-> Snapshot(row), after |-> Snapshot(row),
                           stated |-> Unstated]>>]
                  /\ request' = [request EXCEPT ![s] = Replied(201)]
          ELSE /\ request' = [request EXCEPT ![s] = Replied(500)]
               /\ UNCHANGED <<parcels, history>>

\* The row as read, with the fields of the request laid over it.
Overlay(content, patch) == [f \in Field |-> IF f \in DOMAIN patch THEN patch[f] ELSE content[f]]

Patches == UNION {[fields -> Value] : fields \in SUBSET Field \ {{}}}

\* UpdateParcel up to its transaction.  Any positive version may be stated,
\* whatever the row's is; MaxVersion leaves room for one more.
BeginUpdate(s) ==
    /\ request[s] = Idle
    /\ \E p \in ParcelId, patch \in Patches, stated \in {Unstated} \cup 1 .. MaxVersion - 1 :
          /\ parcels[p] # NoParcel
          /\ parcels[p].version < MaxVersion
          /\ request' = [request EXCEPT ![s] =
                [op |-> "update", id |-> p, before |-> parcels[p],
                 after |-> Overlay(parcels[p].content, patch),
                 patch |-> patch, stated |-> stated,
                 version |-> IF stated = Unstated THEN parcels[p].version ELSE stated]]
    /\ UNCHANGED <<parcels, history>>

\* Mutant of Matches: the update is by primary key only.
MatchesAlways(row, version) == TRUE

\* The WHERE clause of LandParcelRepository.Update.
Matches(row, version) == row.version = version

\* UPDATE, audit row and COMMIT; "after" is recorded with the version of the
\* row as it was read.  When no row matches, the handler answers 500.
CommitUpdate(s) ==
    /\ request[s].op = "update"
    /\ LET u == request[s] IN
          IF Matches(parcels[u.id], u.version)
          THEN /\ parcels' = [parcels EXCEPT ![u.id].content = u.after, ![u.id].version = @ + 1]
               /\ history' = [history EXCEPT ![u.id] = Append(@,
                     [before |-> Snapshot(u.before),
                      after |-> [content |-> u.after, version |-> u.before.version],
                      stated |-> u.stated])]
               /\ request' = [request EXCEPT ![s] = Replied(200)]
          ELSE /\ request' = [request EXCEPT ![s] = Replied(500)]
               /\ UNCHANGED <<parcels, history>>

\* The response leaves; or the database fails, whatever the handler was at.
Finish(s) ==
    /\ request[s] # Idle
    /\ request' = [request EXCEPT ![s] = Idle]
    /\ UNCHANGED <<parcels, history>>

Next ==
    \E s \in Slot : \/ BeginCreate(s) \/ CommitCreate(s)
                    \/ BeginUpdate(s) \/ CommitUpdate(s)
                    \/ Finish(s)

Spec == Init /\ [][Next]_parcelVars

-----------------------------------------------------------------------------
(* Correctness *)

\* Rows and audit rows have the columns of the model, and versions stay under
\* the bound.
TypeOK ==
    /\ parcels \in [ParcelId -> Parcel \cup {NoParcel}]
    /\ \A p \in ParcelId : parcels[p] # NoParcel => parcels[p].version \in 1 .. MaxVersion
    /\ history \in [ParcelId -> Seq([before : [content : Content, version : Nat],
                                     after  : [content : Content, version : Nat],
                                     stated : Nat \cup {Unstated}])]

\* The unique index closes the gap between the look-up of a code and the
\* insert: no two parcels share one.
CodesUnique ==
    \A p, q \in ParcelId :
        parcels[p] # NoParcel /\ parcels[q] # NoParcel /\ parcels[p].code = parcels[q].code
            => p = q

\* The audit rows tell a parcel's whole story: one row per version, the last
\* as the parcel is now, and each telling what the parcel was before as it
\* really was at the version it names.  That version is the one just before
\* this row, so that the story has no break, unless the client stated another
\* than the handler read; and then it stated the one just before this row.
HistoryChains ==
    \A p \in ParcelId : parcels[p] # NoParcel =>
        LET log == history[p] IN
        /\ Len(log) = parcels[p].version
        /\ log[Len(log)].after.content = parcels[p].content
        /\ \A i \in 1 .. Len(log) - 1 :
              LET before == log[i + 1].before IN
              /\ before.version \in 1 .. i
              /\ before.content = log[before.version].after.content
              /\ before.version = i \/ log[i + 1].stated = i

\* No update undoes a change it has not seen, although it writes the whole row
\* from an earlier read, unless its client stated a version beyond the row
\* that was read: it touches the fields of its request and no other on the row
\* as it is when it is written.  A stated version is the one written on.
NoLostUpdate ==
    [][\A s \in Slot : request[s].op = "update" /\ parcels'[request[s].id] # parcels[request[s].id]
            /\ request'[s] # request[s] =>
          LET u == request[s] IN
          /\ u.stated = Unstated \/ u.stated <= u.before.version =>
                \A f \in Field : parcels'[u.id].content[f] =
                   IF f \in DOMAIN u.patch THEN u.patch[f] ELSE parcels[u.id].content[f]
          /\ u.stated # Unstated => parcels[u.id].version = u.stated]_parcelVars

\* What gb-540.md says of every write, that the difference from before to
\* after is kept: whatever an update changes, its request asked for or its
\* audit row tells.
DifferencesKept ==
    [][\A s \in Slot : request[s].op = "update" /\ parcels'[request[s].id] # parcels[request[s].id]
            /\ request'[s] # request[s] =>
          LET u == request[s] IN
          \A f \in Field :
             parcels'[u.id].content[f] # parcels[u.id].content[f] =>
                f \in DOMAIN u.patch \/ u.before.content[f] # u.after[f]]_parcelVars
=============================================================================
