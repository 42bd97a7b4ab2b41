------------------------ MODULE ParcelRegisterProofs ------------------------
(***************************************************************************)
(* ParcelRegister for any number of parcels, codes, fields, values and     *)
(* handlers, any bound on versions, and clients that state whatever        *)
(* version they like.                                                      *)
(***************************************************************************)
EXTENDS ParcelRegister, TLAPS

-----------------------------------------------------------------------------
(* What a handler knows *)

Creating == [op : {"create"}, row : Parcel]

Updating == [op : {"update"}, id : ParcelId, before : Parcel, after : Content,
             patch : Patches, stated : Nat \cup {Unstated}, version : Nat]

Replies == [op : {"replied"}, code : {200, 201, 409, 500}]

\* A new parcel starts at version one.
FirstVersion(r) == r.op = "create" => r.row.version = 1

\* An update may hold an old row, but one that the parcel's history tells of;
\* what it will write is the request laid over that row, on the version the
\* client stated or, if it stated none, on that of the row.
ReadRow(r) ==
    r.op = "update" =>
        LET row == parcels[r.id] IN
        /\ row # NoParcel
        /\ r.version \in 1 .. MaxVersion - 1
        /\ r.before.version \in 1 .. row.version
        /\ r.before.content = history[r.id][r.before.version].after.content
        /\ r.before.version = row.version => r.before = row
        /\ r.after = Overlay(r.before.content, r.patch)
        /\ r.version = IF r.stated = Unstated THEN r.before.version ELSE r.stated

RequestTyped == request \in [Slot -> {Idle} \cup Creating \cup Updating \cup Replies]

HandlerSound ==
    /\ RequestTyped
    /\ \A s \in Slot : FirstVersion(request[s]) /\ ReadRow(request[s])

-----------------------------------------------------------------------------
(* What a step does to the tables *)

FirstEvent(row) == [before |-> Snapshot(row), after |-> Snapshot(row), stated |-> Unstated]

Event(read, content, stated) ==
    [before |-> Snapshot(read), after |-> [content |-> content, version |-> read.version],
     stated |-> stated]

\* p appears, under a code of its own.
Appears(p, row) ==
    /\ parcels[p] = NoParcel
    /\ row \in Parcel /\ row.version = 1
    /\ ~Taken(row.code)
    /\ parcels' = [parcels EXCEPT ![p] = row]
    /\ history' = [history EXCEPT ![p] = <<FirstEvent(row)>>]

NextRow(row, content) == [row EXCEPT !.content = content, !.version = @ + 1]

\* p changes, as it is or as it was at an earlier version; the latter only for
\* a client that states the version p has.
Changes(p, read, content, stated) ==
    LET row == parcels[p] IN
    /\ row \in Parcel /\ row.version \in 1 .. MaxVersion - 1
    /\ read.version \in 1 .. row.version
    /\ read.content = history[p][read.version].after.content
    /\ read.version = row.version \/ stated = row.version
    /\ parcels' = [parcels EXCEPT ![p] = NextRow(row, content)]
    /\ history' = [history EXCEPT ![p] = Append(@, Event(read, content, stated))]

TableStep ==
    \/ UNCHANGED <<parcels, history>>
    \/ \E p \in ParcelId, row \in Parcel : Appears(p, row)
    \/ \E p \in ParcelId, read \in Parcel, content \in Content, stated \in Nat \cup {Unstated} :
          Changes(p, read, content, stated)

\* A request laid over a content is a content.
LEMMA OverlayIsContent ==
    ASSUME NEW content \in Content, NEW patch \in Patches
    PROVE  Overlay(content, patch) \in Content
<1>1. PICK fields \in SUBSET Field : patch \in [fields -> Value]
  BY DEF Patches
<1>2. ASSUME NEW f \in Field
      PROVE  (IF f \in DOMAIN patch THEN patch[f] ELSE content[f]) \in Value
  BY <1>1 DEF Content
<1>. QED  BY <1>2 DEF Overlay, Content

\* The row an update leaves.
LEMMA NextRowIsRow ==
    ASSUME NEW row \in Parcel, row.version \in 1 .. MaxVersion - 1, NEW content \in Content,
           NEW next, next = NextRow(row, content)
    PROVE  /\ next \in Parcel
           /\ next.code = row.code
           /\ next.content = content
           /\ next.version = row.version + 1 /\ next.version \in 1 .. MaxVersion
<1>1. next = [code |-> row.code, content |-> content, version |-> row.version + 1]
  BY DEF NextRow, Parcel
<1>. QED  BY <1>1, ParcelAssumption DEF Parcel

\* The row an update is written on has the version its client stated, or else
\* it is the row that was read.
LEMMA CommittedUpdate ==
    ASSUME TypeOK, HandlerSound, NEW s \in Slot, CommitUpdate(s),
           Matches(parcels[request[s].id], request[s].version)
    PROVE  LET u == request[s] IN
           /\ u \in Updating /\ Changes(u.id, u.before, u.after, u.stated)
           /\ u.stated # Unstated => parcels[u.id].version = u.stated
           /\ u.stated = Unstated \/ u.stated <= u.before.version => u.before = parcels[u.id]
           /\ u.after = Overlay(u.before.content, u.patch)
<1>. DEFINE u == request[s]
            row == parcels[u.id]
<1>1. u \in Updating
  BY DEF CommitUpdate, HandlerSound, RequestTyped, Idle, Creating, Replies
<1>2. /\ u.id \in ParcelId /\ u.before \in Parcel /\ u.after \in Content
      /\ u.stated \in Nat \cup {Unstated} /\ u.op = "update"
  BY <1>1 DEF Updating
<1>3. /\ row # NoParcel /\ u.version \in 1 .. MaxVersion - 1
      /\ u.before.version \in 1 .. row.version
      /\ u.before.content = history[u.id][u.before.version].after.content
      /\ u.before.version = row.version => u.before = row
      /\ u.after = Overlay(u.before.content, u.patch)
      /\ u.version = IF u.stated = Unstated THEN u.before.version ELSE u.stated
  BY <1>2 DEF HandlerSound, ReadRow
<1>4. row \in Parcel /\ row.version \in Nat
  BY <1>2, <1>3 DEF TypeOK, Parcel
<1>5. row.version = u.version
  BY DEF Matches
<1>6. /\ u.before.version = row.version \/ u.stated = row.version
      /\ u.stated # Unstated => row.version = u.stated
      /\ u.stated = Unstated \/ u.stated <= u.before.version => u.before = row
  BY <1>2, <1>3, <1>4, <1>5
<1>7. parcels' = [parcels EXCEPT ![u.id] = NextRow(row, u.after)]
  BY <1>2 DEF CommitUpdate, NextRow, TypeOK
<1>8. history' = [history EXCEPT ![u.id] = Append(@, Event(u.before, u.after, u.stated))]
  BY DEF CommitUpdate, Event
<1>9. Changes(u.id, u.before, u.after, u.stated)
  BY <1>3, <1>4, <1>5, <1>6, <1>7, <1>8 DEF Changes
<1>. QED  BY <1>1, <1>3, <1>6, <1>9

\* Every step that touches the tables is legal for the rows as they are.
LEMMA StepIsTableStep == TypeOK /\ HandlerSound /\ [Next]_parcelVars => TableStep
<1>. SUFFICES ASSUME TypeOK, HandlerSound, [Next]_parcelVars
              PROVE  TableStep
  OBVIOUS
<1>1. ASSUME NEW s \in Slot, CommitCreate(s)
      PROVE  TableStep
  <2>. DEFINE row == request[s].row
  <2>1. row \in Parcel /\ row.version = 1
    BY <1>1 DEF CommitCreate, HandlerSound, RequestTyped, FirstVersion, Idle, Creating,
                Updating, Replies
  <2>2. CASE IndexAdmits(row.code)
    <3>1. PICK p \in ParcelId :
             /\ parcels[p] = NoParcel
             /\ parcels' = [parcels EXCEPT ![p] = row]
             /\ history' = [history EXCEPT ![p] =
                   <<FirstEvent(row)>>]
      BY <1>1, <2>2 DEF CommitCreate, FirstEvent
    <3>2. Appears(p, row)
      BY <2>1, <2>2, <3>1 DEF Appears, IndexAdmits
    <3>. QED  BY <2>1, <3>2 DEF TableStep
  <2>3. CASE ~IndexAdmits(row.code)
    BY <1>1, <2>3 DEF CommitCreate, TableStep
  <2>. QED  BY <2>2, <2>3
<1>2. ASSUME NEW s \in Slot, CommitUpdate(s)
      PROVE  TableStep
  <2>1. CASE Matches(parcels[request[s].id], request[s].version)
    <3>. DEFINE u == request[s]
    <3>1. u \in Updating /\ Changes(u.id, u.before, u.after, u.stated)
      BY <1>2, <2>1, CommittedUpdate
    <3>2. /\ u.id \in ParcelId /\ u.before \in Parcel /\ u.after \in Content
          /\ u.stated \in Nat \cup {Unstated}
      BY <3>1 DEF Updating
    <3>. HIDE DEF u
    <3>. QED  BY <3>1, <3>2 DEF TableStep
  <2>2. CASE ~Matches(parcels[request[s].id], request[s].version)
    BY <1>2, <2>2 DEF CommitUpdate, TableStep
  <2>. QED  BY <2>1, <2>2
<1>. QED  BY <1>1, <1>2 DEF Next, parcelVars, BeginCreate, BeginUpdate, Finish, TableStep

-----------------------------------------------------------------------------
(* Types *)

AuditRow == [before : [content : Content, version : Nat],
             after  : [content : Content, version : Nat],
             stated : Nat \cup {Unstated}]

\* What is appended to a history is an audit row.
LEMMA EventIsAuditRow ==
    ASSUME NEW read \in Parcel, NEW content \in Content, NEW stated \in Nat \cup {Unstated}
    PROVE  FirstEvent(read) \in AuditRow /\ Event(read, content, stated) \in AuditRow
BY DEF FirstEvent, Event, AuditRow, Snapshot, Parcel

\* The tables remain well-formed.
LEMMA StepTypeOK == TypeOK /\ TableStep => TypeOK'
<1>. SUFFICES ASSUME TypeOK, TableStep
              PROVE  TypeOK'
  OBVIOUS
<1>. USE DEF TypeOK
<1>1. CASE UNCHANGED <<parcels, history>>
  BY <1>1
<1>2. ASSUME NEW p \in ParcelId, NEW row \in Parcel, Appears(p, row)
      PROVE  TypeOK'
  <2>1. row.version = 1 /\ 1 \in 1 .. MaxVersion
    BY <1>2, ParcelAssumption DEF Appears
  <2>2. history' \in [ParcelId -> Seq(AuditRow)]
    <3>1. history \in [ParcelId -> Seq(AuditRow)]
      BY DEF AuditRow
    <3>2. FirstEvent(row) \in AuditRow /\ history' = [history EXCEPT ![p] = <<FirstEvent(row)>>]
      BY <1>2, EventIsAuditRow, ParcelAssumption DEF Appears, FirstEvent, AuditRow, Snapshot, Parcel
    <3>. QED  BY <3>1, <3>2
  <2>3. /\ parcels' \in [ParcelId -> Parcel \cup {NoParcel}]
        /\ \A q \in ParcelId : parcels'[q] # NoParcel => parcels'[q].version \in 1 .. MaxVersion
    BY <1>2, <2>1 DEF Appears
  <2>. QED  BY <2>2, <2>3 DEF AuditRow
<1>3. ASSUME NEW p \in ParcelId, NEW read \in Parcel, NEW content \in Content,
             NEW stated \in Nat \cup {Unstated}, Changes(p, read, content, stated)
      PROVE  TypeOK'
  <2>1. parcels[p] \in Parcel /\ parcels[p].version \in 1 .. MaxVersion - 1
    BY <1>3 DEF Changes
  <2>2. /\ NextRow(parcels[p], content) \in Parcel
        /\ NextRow(parcels[p], content).version \in 1 .. MaxVersion
    BY <2>1, NextRowIsRow
  <2>3. history' \in [ParcelId -> Seq(AuditRow)]
    <3>1. history \in [ParcelId -> Seq(AuditRow)]
      BY DEF AuditRow
    <3>2. /\ Event(read, content, stated) \in AuditRow
          /\ history' = [history EXCEPT ![p] = Append(@, Event(read, content, stated))]
      BY <1>3, EventIsAuditRow DEF Changes
    <3>. QED  BY <3>1, <3>2
  <2>4. /\ parcels' \in [ParcelId -> Parcel \cup {NoParcel}]
        /\ \A q \in ParcelId : parcels'[q] # NoParcel => parcels'[q].version \in 1 .. MaxVersion
    BY <1>3, <2>2 DEF Changes
  <2>. QED  BY <2>3, <2>4 DEF AuditRow
<1>. QED  BY <1>1, <1>2, <1>3 DEF TableStep

-----------------------------------------------------------------------------
(* Handlers in flight *)

\* A parcel keeps its code and its audit rows, and counts the version when it
\* changes.
RowsEvolve ==
    \A p \in ParcelId : parcels[p] # NoParcel =>
        /\ parcels'[p] # NoParcel
        /\ parcels'[p].code = parcels[p].code
        /\ \/ parcels'[p] = parcels[p]
           \/ parcels'[p].version = parcels[p].version + 1
        /\ \A i \in 1 .. parcels[p].version : history'[p][i] = history[p][i]

\* Whatever touches a row does that.
LEMMA StepRowsEvolve == TypeOK /\ HistoryChains /\ TableStep => RowsEvolve
<1>. SUFFICES ASSUME TypeOK, HistoryChains, TableStep, NEW p \in ParcelId, parcels[p] # NoParcel
              PROVE  /\ parcels'[p] # NoParcel
                     /\ parcels'[p].code = parcels[p].code
                     /\ \/ parcels'[p] = parcels[p]
                        \/ parcels'[p].version = parcels[p].version + 1
                     /\ \A i \in 1 .. parcels[p].version : history'[p][i] = history[p][i]
  BY DEF RowsEvolve
<1>. USE DEF TypeOK
<1>1. CASE UNCHANGED <<parcels, history>>
  BY <1>1
<1>2. ASSUME NEW q \in ParcelId, NEW row \in Parcel, Appears(q, row)
      PROVE  parcels'[p] = parcels[p] /\ history'[p] = history[p]
  BY <1>2 DEF Appears
<1>3. ASSUME NEW q \in ParcelId, NEW read \in Parcel, NEW content \in Content,
             NEW stated \in Nat \cup {Unstated}, Changes(q, read, content, stated)
      PROVE  /\ parcels'[p] # NoParcel
             /\ parcels'[p].code = parcels[p].code
             /\ \/ parcels'[p] = parcels[p]
                \/ parcels'[p].version = parcels[p].version + 1
             /\ \A i \in 1 .. parcels[p].version : history'[p][i] = history[p][i]
  <2>1. CASE q # p
    BY <1>3, <2>1 DEF Changes
  <2>2. CASE q = p
    <3>1. /\ parcels'[p] = NextRow(parcels[p], content)
          /\ parcels[p] \in Parcel /\ parcels[p].version \in 1 .. MaxVersion - 1
      BY <1>3, <2>2 DEF Changes
    <3>2. /\ parcels'[p] \in Parcel
          /\ parcels'[p].code = parcels[p].code
          /\ parcels'[p].version = parcels[p].version + 1
      BY <3>1, NextRowIsRow
    <3>3. history[p] \in Seq(AuditRow) /\ Len(history[p]) = parcels[p].version
      BY DEF AuditRow, HistoryChains
    <3>4. history'[p] = Append(history[p], Event(read, content, stated))
      BY <1>3, <2>2 DEF Changes
    <3>5. Event(read, content, stated) \in AuditRow
      BY EventIsAuditRow
    <3>6. \A i \in 1 .. parcels[p].version : history'[p][i] = history[p][i]
      BY <3>3, <3>4, <3>5
    <3>. QED  BY <3>2, <3>6, ParcelAssumption
  <2>. QED  BY <2>1, <2>2
<1>. QED  BY <1>1, <1>2, <1>3 DEF TableStep

\* What an update knows is not lost while it waits.
LEMMA HandlerKeepsKnowing ==
    ASSUME TypeOK, RowsEvolve, NEW r \in Updating, ReadRow(r)
    PROVE  ReadRow(r)'
<1>1. r.op = "update" /\ r.id \in ParcelId /\ r.before \in Parcel /\ r.version \in Nat
  BY DEF Updating
<1>2. parcels[r.id] \in Parcel
  BY <1>1 DEF TypeOK, ReadRow
<1>3. parcels[r.id].version \in Nat /\ r.before.version \in Nat
  BY <1>1, <1>2 DEF Parcel
<1>4. /\ parcels'[r.id] # NoParcel
      /\ r.before.version \in 1 .. parcels'[r.id].version
      /\ r.before.content = history'[r.id][r.before.version].after.content
      /\ r.before.version = parcels'[r.id].version => r.before = parcels'[r.id]
  BY <1>1, <1>3 DEF RowsEvolve, ReadRow
<1>. QED  BY <1>1, <1>4 DEF ReadRow

\* A handler that begins knows what it has read.
LEMMA UpdateBegins ==
    ASSUME TypeOK, HistoryChains, NEW s \in Slot, BeginUpdate(s)
    PROVE  \E r \in Updating : ReadRow(r)' /\ request' = [request EXCEPT ![s] = r]
<1>1. PICK p \in ParcelId, patch \in Patches, stated \in {Unstated} \cup 1 .. MaxVersion - 1 :
        /\ parcels[p] # NoParcel
        /\ parcels[p].version < MaxVersion
        /\ request' = [request EXCEPT ![s] =
              [op |-> "update", id |-> p, before |-> parcels[p],
               after |-> Overlay(parcels[p].content, patch),
               patch |-> patch, stated |-> stated,
               version |-> IF stated = Unstated THEN parcels[p].version ELSE stated]]
  BY DEF BeginUpdate
<1>. DEFINE version == IF stated = Unstated THEN parcels[p].version ELSE stated
            r == [op |-> "update", id |-> p, before |-> parcels[p],
                  after |-> Overlay(parcels[p].content, patch),
                  patch |-> patch, stated |-> stated, version |-> version]
<1>2. /\ parcels[p] \in Parcel /\ parcels[p].content \in Content
      /\ parcels[p].version \in 1 .. MaxVersion
  BY <1>1 DEF TypeOK, Parcel
<1>3. version \in 1 .. MaxVersion - 1
  BY <1>1, <1>2, ParcelAssumption
<1>4. stated \in Nat \cup {Unstated} /\ version \in Nat
  BY <1>3, ParcelAssumption
<1>5. r \in Updating
  BY <1>2, <1>4, OverlayIsContent DEF Updating
<1>6. parcels' = parcels /\ history' = history
  BY DEF BeginUpdate
<1>7. parcels[p].content = history[p][parcels[p].version].after.content
  BY <1>1 DEF HistoryChains
<1>8. PICK q \in Updating : q = r
  BY <1>5
<1>9. /\ q.id = p /\ q.before = parcels[p] /\ q.version = version /\ q.stated = stated
      /\ q.after = Overlay(q.before.content, q.patch)
  BY <1>8
<1>10. version = IF stated = Unstated THEN parcels[p].version ELSE stated
  OBVIOUS
<1>. HIDE DEF version
<1>11. ReadRow(q)'
  BY <1>1, <1>2, <1>3, <1>6, <1>7, <1>9, <1>10 DEF ReadRow
<1>12. request' = [request EXCEPT ![s] = q]
  BY <1>1, <1>8 DEF version
<1>. QED  BY <1>11, <1>12

\* The requests a step leaves behind are of the four kinds.
LEMMA StepRequestTyped ==
    TypeOK /\ HistoryChains /\ HandlerSound /\ [Next]_parcelVars => RequestTyped'
<1>. SUFFICES ASSUME TypeOK, HistoryChains, RequestTyped, [Next]_parcelVars
              PROVE  RequestTyped'
  BY DEF HandlerSound
<1>. USE DEF RequestTyped
<1>1. ASSUME NEW code \in {200, 201, 409, 500}
      PROVE  Replied(code) \in Replies
  BY DEF Replied, Replies
<1>2. ASSUME NEW s \in Slot, BeginCreate(s)
      PROVE  RequestTyped'
  <2>1. PICK code \in Code, content \in Content :
          request' = [request EXCEPT ![s] =
              IF Taken(code) THEN Replied(409)
              ELSE [op |-> "create", row |-> [code |-> code, content |-> content, version |-> 1]]]
    BY <1>2 DEF BeginCreate
  <2>2. [op |-> "create", row |-> [code |-> code, content |-> content, version |-> 1]] \in Creating
    BY DEF Creating, Parcel
  <2>. QED  BY <1>1, <2>1, <2>2
<1>3. ASSUME NEW s \in Slot, CommitCreate(s)
      PROVE  RequestTyped'
  BY <1>1, <1>3 DEF CommitCreate
<1>4. ASSUME NEW s \in Slot, BeginUpdate(s)
      PROVE  RequestTyped'
  BY <1>4, UpdateBegins
<1>5. ASSUME NEW s \in Slot, CommitUpdate(s)
      PROVE  RequestTyped'
  BY <1>1, <1>5 DEF CommitUpdate
<1>. QED  BY <1>2, <1>3, <1>4, <1>5 DEF Next, parcelVars, Finish

\* Beginning makes the knowledge, waiting keeps it.
LEMMA StepHandlerSound ==
    TypeOK /\ HistoryChains /\ HandlerSound /\ [Next]_parcelVars => HandlerSound'
<1>. SUFFICES ASSUME TypeOK, HistoryChains, HandlerSound, [Next]_parcelVars, NEW t \in Slot
              PROVE  FirstVersion(request[t])' /\ ReadRow(request[t])'
  BY StepRequestTyped DEF HandlerSound
<1>1. RowsEvolve
  BY StepIsTableStep, StepRowsEvolve
<1>2. ASSUME request'[t] = request[t]
      PROVE  FirstVersion(request[t])' /\ ReadRow(request[t])'
  <2>1. FirstVersion(request[t])'
    BY <1>2 DEF HandlerSound, FirstVersion
  <2>2. CASE request[t] \in Updating
    <3>1. \A r \in Updating : ReadRow(r) => ReadRow(r)'
      BY <1>1, HandlerKeepsKnowing
    <3>2. ReadRow(request[t])
      BY DEF HandlerSound
    <3>. QED  BY <1>2, <2>1, <2>2, <3>1, <3>2 DEF ReadRow
  <2>3. CASE request[t] \notin Updating
    <3>1. request'[t].op # "update"
      BY <1>2, <2>3 DEF HandlerSound, RequestTyped, Idle, Creating, Replies
    <3>. QED  BY <2>1, <3>1 DEF ReadRow
  <2>. QED  BY <2>2, <2>3
<1>3. ASSUME NEW code \in {200, 201, 409, 500}, request'[t] = Replied(code)
      PROVE  FirstVersion(request[t])' /\ ReadRow(request[t])'
  BY <1>3 DEF Replied, FirstVersion, ReadRow
<1>4. ASSUME NEW s \in Slot, BeginCreate(s), t = s
      PROVE  FirstVersion(request[t])' /\ ReadRow(request[t])'
  <2>1. PICK code \in Code, content \in Content :
          request' = [request EXCEPT ![s] =
              IF Taken(code) THEN Replied(409)
              ELSE [op |-> "create", row |-> [code |-> code, content |-> content, version |-> 1]]]
    BY <1>4 DEF BeginCreate
  <2>2. \/ request'[t] = Replied(409)
        \/ request'[t] = [op |-> "create",
                          row |-> [code |-> code, content |-> content, version |-> 1]]
    BY <1>4, <2>1 DEF HandlerSound, RequestTyped
  <2>. QED  BY <1>3, <2>2 DEF FirstVersion, ReadRow
<1>5. ASSUME NEW s \in Slot, CommitCreate(s) \/ CommitUpdate(s), t = s
      PROVE  FirstVersion(request[t])' /\ ReadRow(request[t])'
  <2>1. \E code \in {200, 201, 409, 500} : request' = [request EXCEPT ![s] = Replied(code)]
    BY <1>5 DEF CommitCreate, CommitUpdate
  <2>2. \E code \in {200, 201, 409, 500} : request'[t] = Replied(code)
    BY <1>5, <2>1 DEF HandlerSound, RequestTyped
  <2>. QED  BY <1>3, <2>2
<1>6. ASSUME NEW s \in Slot, BeginUpdate(s), t = s
      PROVE  FirstVersion(request[t])' /\ ReadRow(request[t])'
  <2>1. PICK r \in Updating : ReadRow(r)' /\ request' = [request EXCEPT ![s] = r]
    BY <1>6, UpdateBegins
  <2>2. request'[t] = r
    BY <1>6, <2>1 DEF HandlerSound, RequestTyped
  <2>. QED  BY <2>1, <2>2 DEF FirstVersion, ReadRow, Updating
<1>7. ASSUME NEW s \in Slot, Finish(s), t = s
      PROVE  FirstVersion(request[t])' /\ ReadRow(request[t])'
  BY <1>7 DEF Finish, HandlerSound, RequestTyped, Idle, FirstVersion, ReadRow
<1>8. ASSUME NEW s \in Slot, t # s,
             BeginCreate(s) \/ CommitCreate(s) \/ BeginUpdate(s) \/ CommitUpdate(s) \/ Finish(s)
      PROVE  request'[t] = request[t]
  BY <1>8 DEF BeginCreate, CommitCreate, BeginUpdate, CommitUpdate, Finish, HandlerSound,
              RequestTyped
<1>9. CASE UNCHANGED parcelVars
  BY <1>2, <1>9 DEF parcelVars
<1>. QED  BY <1>2, <1>4, <1>5, <1>6, <1>7, <1>8, <1>9 DEF Next

-----------------------------------------------------------------------------
(* Codes and histories *)

\* A new parcel takes a code nobody has; the others keep theirs.
LEMMA StepCodesUnique == TypeOK /\ HistoryChains /\ CodesUnique /\ TableStep => CodesUnique'
<1>. SUFFICES ASSUME TypeOK, HistoryChains, CodesUnique, TableStep
              PROVE  CodesUnique'
  OBVIOUS
<1>1. CASE UNCHANGED <<parcels, history>>
  BY <1>1 DEF CodesUnique
<1>2. ASSUME NEW p \in ParcelId, NEW row \in Parcel, Appears(p, row)
      PROVE  CodesUnique'
  BY <1>2 DEF CodesUnique, Appears, Taken, TypeOK
<1>3. ASSUME NEW p \in ParcelId, NEW read \in Parcel, NEW content \in Content,
             NEW stated \in Nat \cup {Unstated}, Changes(p, read, content, stated)
      PROVE  CodesUnique'
  <2>1. ASSUME NEW q \in ParcelId
        PROVE  /\ parcels'[q] # NoParcel <=> parcels[q] # NoParcel
               /\ parcels[q] # NoParcel => parcels'[q].code = parcels[q].code
    <3>1. CASE parcels[q] # NoParcel
      BY <3>1, StepRowsEvolve DEF RowsEvolve
    <3>2. CASE parcels[q] = NoParcel
      BY <1>3, <3>2, ParcelAssumption DEF Changes, TypeOK
    <3>. QED  BY <3>1, <3>2
  <2>. QED  BY <2>1 DEF CodesUnique
<1>. QED  BY <1>1, <1>2, <1>3 DEF TableStep

\* log tells the whole story of a parcel that is now row.
Tells(log, row) ==
    /\ Len(log) = row.version
    /\ log[Len(log)].after.content = row.content
    /\ \A i \in 1 .. Len(log) - 1 :
          LET before == log[i + 1].before IN
          /\ before.version \in 1 .. i
          /\ before.content = log[before.version].after.content
          /\ before.version = i \/ log[i + 1].stated = i

\* Every step of the tables keeps the histories chained.
LEMMA StepHistoryChains == TypeOK /\ HistoryChains /\ TableStep => HistoryChains'
<1>. SUFFICES ASSUME TypeOK, HistoryChains, TableStep,
                     NEW p \in ParcelId, parcels'[p] # NoParcel
              PROVE  Tells(history'[p], parcels'[p])
  BY DEF HistoryChains, Tells
<1>1. CASE parcels'[p] = parcels[p] /\ history'[p] = history[p]
  BY <1>1 DEF HistoryChains, Tells
<1>2. ASSUME NEW row \in Parcel, Appears(p, row)
      PROVE  Tells(history'[p], parcels'[p])
  <2>1. /\ parcels'[p] = row /\ row.version = 1
        /\ history'[p] = <<FirstEvent(row)>>
    BY <1>2 DEF Appears, TypeOK
  <2>2. Len(history'[p]) = 1 /\ history'[p][1] = FirstEvent(row)
    BY <2>1
  <2>3. history'[p][1].after.content = row.content
    BY <2>2 DEF FirstEvent, Snapshot
  <2>. QED  BY <2>1, <2>2, <2>3 DEF Tells
<1>3. ASSUME NEW read \in Parcel, NEW content \in Content,
             NEW stated \in Nat \cup {Unstated}, Changes(p, read, content, stated)
      PROVE  Tells(history'[p], parcels'[p])
  <2>. DEFINE row == parcels[p]
              old == history[p]
              event == Event(read, content, stated)
  <2>1. /\ row \in Parcel /\ row.version \in 1 .. MaxVersion - 1
        /\ read.version \in 1 .. row.version
        /\ read.content = old[read.version].after.content
        /\ read.version = row.version \/ stated = row.version
    BY <1>3 DEF Changes
  <2>2. /\ parcels'[p] = NextRow(row, content)
        /\ history'[p] = Append(old, event)
    BY <1>3 DEF Changes, TypeOK
  <2>3. /\ parcels'[p].content = content
        /\ parcels'[p].version = row.version + 1
    BY <2>1, <2>2, NextRowIsRow
  <2>4. event \in AuditRow
    BY EventIsAuditRow
  <2>5. old \in Seq(AuditRow) /\ Tells(old, row)
    BY <2>1, ParcelAssumption DEF HistoryChains, TypeOK, AuditRow, Tells
  <2>6. /\ event.after.content = content /\ event.stated = stated
        /\ event.before.content = read.content /\ event.before.version = read.version
    BY DEF Event, Snapshot
  <2>. HIDE DEF event, old, row
  <2>7. Len(old) = row.version /\ Len(old) \in Nat
    BY <2>5 DEF Tells
  <2>8. /\ Len(history'[p]) = Len(old) + 1
        /\ history'[p][Len(old) + 1] = event
        /\ \A i \in 1 .. Len(old) : history'[p][i] = old[i]
    BY <2>2, <2>4, <2>5
  <2>9. ASSUME NEW i \in 1 .. Len(old)
        PROVE  LET before == history'[p][i + 1].before IN
               /\ before.version \in 1 .. i
               /\ before.content = history'[p][before.version].after.content
               /\ before.version = i \/ history'[p][i + 1].stated = i
    <3>1. CASE i = Len(old)
      BY <2>1, <2>6, <2>7, <2>8, <3>1
    <3>2. CASE i # Len(old)
      <4>1. i \in 1 .. Len(old) - 1 /\ i + 1 \in 1 .. Len(old)
        BY <2>7, <3>2
      <4>2. /\ old[i + 1].before.version \in 1 .. i
            /\ old[i + 1].before.content = old[old[i + 1].before.version].after.content
            /\ old[i + 1].before.version = i \/ old[i + 1].stated = i
        BY <2>5, <4>1 DEF Tells
      <4>3. old[i + 1].before.version \in 1 .. Len(old)
        BY <2>7, <4>2
      <4>. QED  BY <2>8, <4>1, <4>2, <4>3
    <3>. QED  BY <3>1, <3>2
  <2>. QED  BY <2>3, <2>6, <2>7, <2>8, <2>9 DEF Tells
<1>4. ASSUME NEW q \in ParcelId, NEW row \in Parcel, Appears(q, row), q # p
      PROVE  parcels'[p] = parcels[p] /\ history'[p] = history[p]
  BY <1>4 DEF Appears, TypeOK
<1>5. ASSUME NEW q \in ParcelId, NEW read \in Parcel, NEW content \in Content,
             NEW stated \in Nat \cup {Unstated}, Changes(q, read, content, stated), q # p
      PROVE  parcels'[p] = parcels[p] /\ history'[p] = history[p]
  BY <1>5 DEF Changes, TypeOK
<1>. QED  BY <1>1, <1>2, <1>3, <1>4, <1>5 DEF TableStep

-----------------------------------------------------------------------------
(* Theorems *)

RegisterInvariant == TypeOK /\ HandlerSound /\ CodesUnique /\ HistoryChains

\* The empty register is in order.
LEMMA RegisterInitially == Init => RegisterInvariant
BY DEF Init, RegisterInvariant, TypeOK, HandlerSound, RequestTyped, FirstVersion, ReadRow, Idle,
       CodesUnique, HistoryChains

\* And stays so, whatever handlers do in whatever order.
LEMMA RegisterPreserved == RegisterInvariant /\ [Next]_parcelVars => RegisterInvariant'
BY StepIsTableStep, StepTypeOK, StepHandlerSound, StepCodesUnique, StepHistoryChains
   DEF RegisterInvariant

\* The invariant holds throughout.
LEMMA RegisterAlways == Spec => []RegisterInvariant
BY RegisterInitially, RegisterPreserved, PTL DEF Spec

\* Rows and audit rows are well-formed.
THEOREM TypeCorrect == Spec => []TypeOK
<1>1. RegisterInvariant => TypeOK
  BY DEF RegisterInvariant
<1>. QED  BY <1>1, RegisterAlways, PTL

\* No two parcels share a code, although CreateParcel looks it up in another
\* statement than it inserts the row.
THEOREM CodesAreUnique == Spec => []CodesUnique
<1>1. RegisterInvariant => CodesUnique
  BY DEF RegisterInvariant
<1>. QED  BY <1>1, RegisterAlways, PTL

\* The audit rows go on from one another and end at the row, for any bound on
\* versions and whatever versions clients state: a row that goes on from an
\* earlier one was written for a client that stated another version than the
\* handler had read (UpdateParcel, LandParcelRepository.Update).
THEOREM HistoriesChain == Spec => []HistoryChains
<1>1. RegisterInvariant => HistoryChains
  BY DEF RegisterInvariant
<1>. QED  BY <1>1, RegisterAlways, PTL

\* Unless its client stated a version beyond the row read, an update writes its
\* own fields and leaves the others as they are, although it writes the whole
\* row from an earlier read; and a stated version is the one written on
\* (UpdateParcel, LandParcelRepository.Update).
THEOREM UpdatesAreNotLost == Spec => NoLostUpdate
<1>. DEFINE Kept ==
        \A s \in Slot : request[s].op = "update" /\ parcels'[request[s].id] # parcels[request[s].id]
            /\ request'[s] # request[s] =>
          LET u == request[s] IN
          /\ u.stated = Unstated \/ u.stated <= u.before.version =>
                \A f \in Field : parcels'[u.id].content[f] =
                   IF f \in DOMAIN u.patch THEN u.patch[f] ELSE parcels[u.id].content[f]
          /\ u.stated # Unstated => parcels[u.id].version = u.stated
<1>1. RegisterInvariant /\ [Next]_parcelVars => [Kept]_parcelVars
  <2>. SUFFICES ASSUME RegisterInvariant, Next, NEW s \in Slot,
                       request[s].op = "update",
                       parcels'[request[s].id] # parcels[request[s].id],
                       request'[s] # request[s]
                PROVE  LET u == request[s] IN
                       /\ u.stated = Unstated \/ u.stated <= u.before.version =>
                             \A f \in Field : parcels'[u.id].content[f] =
                                IF f \in DOMAIN u.patch THEN u.patch[f]
                                                        ELSE parcels[u.id].content[f]
                       /\ u.stated # Unstated => parcels[u.id].version = u.stated
    OBVIOUS
  <2>. DEFINE u == request[s]
  <2>1. CommitUpdate(s)
    BY DEF Next, BeginCreate, CommitCreate, BeginUpdate, CommitUpdate, Finish, Idle,
           RegisterInvariant, HandlerSound, RequestTyped
  <2>2. Matches(parcels[u.id], u.version)
    BY <2>1 DEF CommitUpdate
  <2>3. /\ u \in Updating /\ Changes(u.id, u.before, u.after, u.stated)
        /\ u.stated # Unstated => parcels[u.id].version = u.stated
        /\ u.stated = Unstated \/ u.stated <= u.before.version => u.before = parcels[u.id]
        /\ u.after = Overlay(u.before.content, u.patch)
    BY <2>1, <2>2, CommittedUpdate DEF RegisterInvariant
  <2>4. u.id \in ParcelId /\ u.after \in Content
    BY <2>3 DEF Updating
  <2>5. parcels'[u.id].content = u.after
    <3>1. parcels[u.id] \in Parcel /\ parcels[u.id].version \in 1 .. MaxVersion - 1
      BY <2>3 DEF Changes
    <3>2. parcels' = [parcels EXCEPT ![u.id] = NextRow(parcels[u.id], u.after)]
      BY <2>3 DEF Changes
    <3>3. DOMAIN parcels = ParcelId
      BY DEF RegisterInvariant, TypeOK
    <3>. HIDE DEF u
    <3>4. parcels'[u.id] = NextRow(parcels[u.id], u.after)
      BY <2>4, <3>2, <3>3
    <3>. QED  BY <2>4, <3>1, <3>4, NextRowIsRow
  <2>. HIDE DEF u
  <2>6. ASSUME u.stated = Unstated \/ u.stated <= u.before.version
        PROVE  \A f \in Field : parcels'[u.id].content[f] =
                  IF f \in DOMAIN u.patch THEN u.patch[f] ELSE parcels[u.id].content[f]
    BY <2>3, <2>5, <2>6 DEF Overlay
  <2>. QED  BY <2>3, <2>6 DEF u
<1>. QED  BY <1>1, RegisterAlways, PTL DEF Spec, NoLostUpdate
=============================================================================
