----------------------------- MODULE Detection -----------------------------
(***************************************************************************)
(* POST /conflicts/detect: topology detection under an Idempotency-Key.    *)
(*                                                                         *)
(* DetectConflicts looks the key up, reads the parcel and then its         *)
(* neighbours, computes, and writes the conflicts and the run that owns    *)
(* them in one transaction; the unique index on (actor_id,                 *)
(* idempotency_key) decides between calls that got past the look-up        *)
(* together.  When the transaction fails the key is looked up once more.   *)
(*                                                                         *)
(* A Call is one HTTP request; a retry is another call with the same       *)
(* actor, key and request.  The service may crash, and every read and      *)
(* every transaction may fail, including a COMMIT that took effect and     *)
(* whose acknowledgement was lost.                                         *)
(***************************************************************************)
EXTENDS Naturals, Sequences, FiniteSets

CONSTANTS Call, Actor, Key, Request, ParcelId,
          ActorOf, KeyOf, RequestOf,  \* what every call asks for
          SubjectOf,                  \* the parcel of the proposal of a request
          FindingCount(_, _),         \* findings for a request on boundaries
          MaxEdits,                   \* bound: boundary changes
          MaxCrashes                  \* bound: crashes of the service

\* The parcels as a call has read them: a version of every boundary, 0 for
\* one it has not read.
View == [ParcelId -> Nat]

ASSUME DetectionAssumption ==
    /\ ActorOf \in [Call -> Actor] /\ KeyOf \in [Call -> Key]
    /\ RequestOf \in [Call -> Request] /\ SubjectOf \in [Request -> ParcelId]
    /\ \A r \in Request : \A v \in [ParcelId -> 0 .. MaxEdits + 1] : FindingCount(r, v) \in Nat
    /\ MaxEdits \in Nat /\ MaxCrashes \in Nat

VARIABLES
    edits,      \* the parcels whose boundary changed, in order
    conflicts,  \* the topology_conflicts table, detection columns
    runs,       \* the topology_detection_runs table
    audits,     \* audit events of detection
    lastId,     \* the id sequence of topology_conflicts; survives a rollback
    call,       \* every call's handler
    crashes

vars == <<edits, conflicts, runs, audits, lastId, call, crashes>>
store == <<conflicts, runs, audits>>

Unread == [p \in ParcelId |-> 0]

\* The boundary version of a parcel after the first n edits.
VersionAfter(n, p) == 1 + Cardinality({i \in 1 .. n : edits[i] = p})
Version(p) == VersionAfter(Len(edits), p)

Stages == {"idle", "key", "parcel", "neighbours", "findings", "commit",
           "ack", "recheck", "replay", "done"}
Codes  == {"none", "ok", "conflict", "error", "lost"}

\* A handler at work: where it is, what it has read, and the ids it holds.
At(pc, view, ids) == [pc |-> pc, view |-> view, ids |-> ids, code |-> "none"]

Done(code, ids) == [pc |-> "done", view |-> Unread, ids |-> ids, code |-> code]

Reply(c, code, ids) == call' = [call EXCEPT ![c] = Done(code, ids)]

-----------------------------------------------------------------------------
Init ==
    /\ edits = <<>> /\ lastId = 0 /\ crashes = 0
    /\ conflicts = {} /\ runs = {} /\ audits = {}
    /\ call = [c \in Call |-> At("idle", Unread, <<>>)]

Send(c) ==
    /\ call[c].pc = "idle"
    /\ call' = [call EXCEPT ![c].pc = "key"]
    /\ UNCHANGED <<edits, store, lastId, crashes>>

\* GetByActorKey
StoredRuns(c) == {r \in runs : r.actor = ActorOf[c] /\ r.key = KeyOf[c]}

\* Mutant of SameRequest: the key alone decides.
AnyRequest(c, run) == TRUE

\* replayDetectionRun compares the request hashes.
SameRequest(c, run) == run.request = RequestOf[c]

\* A stored run was found: its result set is loaded, or the key is refused.
ReplayRun(c) ==
    \E run \in StoredRuns(c) :
        IF SameRequest(c, run)
        THEN call' = [call EXCEPT ![c] = At("replay", Unread, run.ids)]
        ELSE Reply(c, "conflict", <<>>)

CheckKey(c) ==
    /\ call[c].pc = "key"
    /\ IF StoredRuns(c) # {} THEN ReplayRun(c)
                             ELSE call' = [call EXCEPT ![c].pc = "parcel"]
    /\ UNCHANGED <<edits, store, lastId, crashes>>

LoadParcel(c) ==
    /\ call[c].pc = "parcel"
    /\ LET subject == SubjectOf[RequestOf[c]] IN
          call' = [call EXCEPT ![c] =
                      At("neighbours", [call[c].view EXCEPT ![subject] = Version(subject)], <<>>)]
    /\ UNCHANGED <<edits, store, lastId, crashes>>

\* ListActiveByCoordinateSystem, a statement of its own.
LoadNeighbours(c) ==
    /\ call[c].pc = "neighbours"
    /\ LET view == [p \in ParcelId |->
                      IF p = SubjectOf[RequestOf[c]] THEN call[c].view[p] ELSE Version(p)]
       IN  call' = [call EXCEPT ![c] = At("findings", view, <<>>)]
    /\ UNCHANGED <<edits, store, lastId, crashes>>

Findings(c) == FindingCount(RequestOf[c], call[c].view)

\* Mutant of InsertFinding: the row is written outside the transaction.
InsertOutsideTx(c) ==
    /\ call[c].pc = "findings"
    /\ Len(call[c].ids) < Findings(c)
    /\ lastId' = lastId + 1
    /\ conflicts' = conflicts \cup
          {[id |-> lastId + 1, request |-> RequestOf[c], view |-> call[c].view]}
    /\ call' = [call EXCEPT ![c].ids = Append(@, lastId + 1)]
    /\ UNCHANGED <<edits, runs, audits, crashes>>

\* One conflict row of the open transaction takes its id.
InsertFinding(c) ==
    /\ call[c].pc = "findings"
    /\ Len(call[c].ids) < Findings(c)
    /\ lastId' = lastId + 1
    /\ call' = [call EXCEPT ![c].ids = Append(@, lastId + 1)]
    /\ UNCHANGED <<edits, store, crashes>>

\* Mutant of Undo: a failed transaction is simply tried again.
UndoAndRetry(c) == call' = [call EXCEPT ![c] = At("parcel", Unread, <<>>)]

\* The transaction is over, nothing of it stays but the ids it used up.
Undo(c) == call' = [call EXCEPT ![c] = At("recheck", Unread, <<>>)]

\* Mutant of IndexAdmits: the table has no unique index.
NoIndex(c) == TRUE

\* The unique index lets a run in when no committed row has its key ...
IndexAdmits(c) == StoredRuns(c) = {}

\* ... and makes it wait while an open transaction has inserted one.
IndexFree(c) ==
    \A d \in Call \ {c} :
        call[d].pc = "commit" => <<ActorOf[d], KeyOf[d]>> # <<ActorOf[c], KeyOf[c]>>

InsertRun(c) ==
    /\ call[c].pc = "findings"
    /\ Len(call[c].ids) = Findings(c)
    /\ IndexFree(c)
    /\ IF IndexAdmits(c) THEN call' = [call EXCEPT ![c].pc = "commit"] ELSE Undo(c)
    /\ UNCHANGED <<edits, store, lastId, crashes>>

\* Mutant of Run: account and key are swapped.
RunSwapped(c) ==
    [actor |-> KeyOf[c], key |-> ActorOf[c], request |-> RequestOf[c],
     view |-> call[c].view, ids |-> call[c].ids]

Run(c) ==
    [actor |-> ActorOf[c], key |-> KeyOf[c], request |-> RequestOf[c],
     view |-> call[c].view, ids |-> call[c].ids]

\* Mutant of Found: the last row of a result is not stored.
FoundButLast(c) ==
    {[id |-> call[c].ids[i], request |-> RequestOf[c], view |-> call[c].view] :
        i \in DOMAIN call[c].ids \ {Len(call[c].ids)}}

Found(c) == {[id |-> call[c].ids[i], request |-> RequestOf[c], view |-> call[c].view] :
                i \in DOMAIN call[c].ids}

\* One conflict.detected event for every row, one for the completed run.
Audited(c) ==
    {[event |-> "conflict.detected", entity |-> <<f.id>>] : f \in Found(c)}
        \cup {[event |-> "conflict.detection_completed", entity |-> <<ActorOf[c], KeyOf[c]>>]}

\* COMMIT; its acknowledgement may be lost, which the handler takes for a
\* failed transaction.
Commit(c) ==
    /\ call[c].pc = "commit"
    /\ conflicts' = conflicts \cup Found(c)
    /\ runs' = runs \cup {Run(c)}
    /\ audits' = audits \cup Audited(c)
    /\ call' = [call EXCEPT ![c].pc = "ack"] \/ Undo(c)
    /\ UNCHANGED <<edits, lastId, crashes>>

Acknowledge(c) ==
    /\ call[c].pc = "ack"
    /\ Reply(c, "ok", call[c].ids)
    /\ UNCHANGED <<edits, store, lastId, crashes>>

Rollback(c) ==
    /\ call[c].pc \in {"findings", "commit"}
    /\ Undo(c)
    /\ UNCHANGED <<edits, store, lastId, crashes>>

\* The failed transaction may have lost to one that holds the answer.
Recheck(c) ==
    /\ call[c].pc = "recheck"
    /\ IF StoredRuns(c) # {} THEN ReplayRun(c) ELSE Reply(c, "error", <<>>)
    /\ UNCHANGED <<edits, store, lastId, crashes>>

\* ListByIDs: the stored result set in its order, or an error if a row of it
\* is missing.
ListResults(c) ==
    /\ call[c].pc = "replay"
    /\ IF \A i \in DOMAIN call[c].ids : \E row \in conflicts : row.id = call[c].ids[i]
       THEN Reply(c, "ok", call[c].ids)
       ELSE Reply(c, "error", <<>>)
    /\ UNCHANGED <<edits, store, lastId, crashes>>

\* A read fails: 500.
ReadFails(c) ==
    /\ call[c].pc \in {"key", "parcel", "neighbours", "recheck", "replay"}
    /\ Reply(c, "error", <<>>)
    /\ UNCHANGED <<edits, store, lastId, crashes>>

\* The service dies: open transactions roll back, open calls are never
\* answered.
Crash ==
    /\ crashes < MaxCrashes
    /\ crashes' = crashes + 1
    /\ call' = [c \in Call |-> IF call[c].pc \in {"idle", "done"} THEN call[c]
                                                                  ELSE Done("lost", <<>>)]
    /\ UNCHANGED <<edits, store, lastId>>

\* A committed UpdateParcel that changed a boundary.
EditBoundary(p) ==
    /\ Len(edits) < MaxEdits
    /\ edits' = Append(edits, p)
    /\ UNCHANGED <<store, lastId, call, crashes>>

\* Every call was made and is over.
Finished ==
    /\ \A c \in Call : call[c].pc = "done"
    /\ UNCHANGED vars

Progress(c) ==
    \/ CheckKey(c)   \/ LoadParcel(c) \/ LoadNeighbours(c) \/ InsertFinding(c)
    \/ InsertRun(c)  \/ Commit(c)     \/ Acknowledge(c)    \/ Recheck(c)
    \/ ListResults(c)

Next ==
    \/ \E c \in Call : Send(c) \/ Progress(c) \/ Rollback(c) \/ ReadFails(c)
    \/ Crash
    \/ \E p \in ParcelId : EditBoundary(p)
    \/ Finished

Fairness == \A c \in Call : WF_vars(Progress(c))

Spec == Init /\ [][Next]_vars /\ Fairness

-----------------------------------------------------------------------------
(* Correctness *)

\* The store, the sequence and every handler are well-formed.
TypeOK ==
    /\ edits \in Seq(ParcelId) /\ lastId \in Nat /\ crashes \in Nat
    /\ conflicts \subseteq [id : Nat, request : Request, view : View]
    /\ runs \subseteq [actor : Actor, key : Key, request : Request, view : View, ids : Seq(Nat)]
    /\ call \in [Call -> [pc : Stages, view : View, ids : Seq(Nat), code : Codes]]

\* The transaction is all or nothing: every conflict row belongs to exactly
\* one run, as one entry of its result set, detected on the boundaries the
\* run names; no result set names a row that is not there; and there is one
\* audit event for every row and every run, and no other.
RunsOwnTheirConflicts ==
    /\ \A row \in conflicts :
          \E run \in runs : /\ \E i \in DOMAIN run.ids : run.ids[i] = row.id
                           /\ row.request = run.request /\ row.view = run.view
    /\ \A run \in runs : \A i \in DOMAIN run.ids :
          /\ \E row \in conflicts : row.id = run.ids[i]
          /\ \A j \in DOMAIN run.ids : i # j => run.ids[i] # run.ids[j]
          /\ \A other \in runs \ {run} :
                \A j \in DOMAIN other.ids : run.ids[i] # other.ids[j]
    /\ audits = {[event |-> "conflict.detected", entity |-> <<row.id>>] : row \in conflicts}
                \cup {[event |-> "conflict.detection_completed", entity |-> <<run.actor, run.key>>] :
                          run \in runs}

\* No key has two runs, and a handler in flight is right about its key: one
\* that is about to commit has no competitor, stored or not yet stored, and
\* one that is about to answer holds the result set of the run of its own
\* request.
HandlerSound ==
    /\ \A one, two \in runs : one.actor = two.actor /\ one.key = two.key => one = two
    /\ \A c \in Call :
          /\ call[c].pc = "commit" => IndexAdmits(c) /\ IndexFree(c)
          /\ call[c].pc \in {"ack", "replay"} =>
                \E run \in StoredRuns(c) : run.request = RequestOf[c] /\ run.ids = call[c].ids

\* Every answered call was told what its key stands for, now and ever after:
\* an ok answer is the result set of the one run under its actor and key, of
\* the same request, and a 409 is due to a run of another request.
AnswersAreTheRun ==
    \A c \in Call :
        /\ call[c].code = "ok" =>
              /\ StoredRuns(c) # {}
              /\ \A run \in StoredRuns(c) :
                    run.request = RequestOf[c] /\ run.ids = call[c].ids
        /\ call[c].code = "conflict" =>
              \E run \in StoredRuns(c) : run.request # RequestOf[c]

\* A stored result set can always be loaded: no replay stumbles over a row
\* that is missing.
ReplayIsComplete ==
    \A c \in Call : call[c].pc = "replay" =>
        \A i \in DOMAIN call[c].ids : \E row \in conflicts : row.id = call[c].ids[i]

\* Calls that wait for each other's index entry, lose the race, roll back or
\* lose the database are all answered, or die with the service.
Answered == \A c \in Call : call[c].pc = "key" ~> call[c].pc = "done"

\* The runs as the write-once registers of the abstract specification, and
\* the answers as the clients see them.
NoRun == [ids |-> <<>>]

RunsUnder(k) == {run \in runs : run.actor = k[1] /\ run.key = k[2]}

Register ==
    [k \in Actor \X Key |->
        IF RunsUnder(k) = {} THEN NoRun
        ELSE LET run == CHOOSE run \in RunsUnder(k) : TRUE
             IN  [request |-> run.request, ids |-> run.ids]]

Told ==
    [c \in Call |->
        CASE call[c].code = "ok"                   -> [code |-> "ok", ids |-> call[c].ids]
          [] call[c].code \in {"conflict", "error"} -> [code |-> call[c].code]
          [] OTHER                                 -> [code |-> "pending"]]

Promise == INSTANCE IdempotentDetection
           WITH Result <- Seq(Nat), Empty <- NoRun, register <- Register, answer <- Told

ImplementsPromise == Promise!Spec

\* What the comment on the conflict model says: a result is that of a
\* snapshot, the boundaries of the parcel and its neighbours at one moment.
SnapshotConsistent ==
    \A run \in runs : \E n \in 0 .. Len(edits) :
        \A p \in ParcelId : run.view[p] = VersionAfter(n, p)
=============================================================================
