-------------------------- MODULE DetectionProofs --------------------------
(***************************************************************************)
(* Detection for any number of calls, accounts, keys and parcels, any      *)
(* findings, and any number of edits and crashes.                          *)
(***************************************************************************)
EXTENDS Detection, FiniteSetTheorems, TLAPS

-----------------------------------------------------------------------------
(* Types *)

\* The version of a boundary is a number.
LEMMA VersionIsNumber ==
    ASSUME TypeOK, NEW p \in ParcelId
    PROVE  Version(p) \in Nat
<1>1. Len(edits) \in Nat
  BY DEF TypeOK
<1>2. IsFiniteSet(1 .. Len(edits))
  BY <1>1, FS_Interval
<1>3. {i \in 1 .. Len(edits) : edits[i] = p} \subseteq 1 .. Len(edits)
  OBVIOUS
<1>4. Cardinality({i \in 1 .. Len(edits) : edits[i] = p}) \in Nat
  BY <1>2, <1>3, FS_Subset, FS_CardinalityType
<1>. QED  BY <1>4 DEF Version, VersionAfter

\* A handler's record.
Handler == [pc : Stages, view : View, ids : Seq(Nat), code : Codes]

\* What a step makes of a handler is a handler.
LEMMA AtAndDone ==
    /\ \A pc \in Stages, view \in View, ids \in Seq(Nat) : At(pc, view, ids) \in Handler
    /\ \A code \in Codes, ids \in Seq(Nat) : Done(code, ids) \in Handler
    /\ Unread \in View
<1>1. Unread \in View
  BY DEF Unread, View
<1>2. "none" \in Codes /\ "done" \in Stages
  BY DEF Codes, Stages
<1>3. \A pc \in Stages, view \in View, ids \in Seq(Nat) : At(pc, view, ids) \in Handler
  BY <1>2 DEF At, Handler
<1>4. \A code \in Codes, ids \in Seq(Nat) : Done(code, ids) \in Handler
  BY <1>1, <1>2 DEF Done, Handler
<1>. QED  BY <1>1, <1>3, <1>4

\* The empty tables and the idle calls are well-formed.
LEMMA InitTypeOK == Init => TypeOK
<1>1. "idle" \in Stages /\ <<>> \in Seq(Nat)
  BY DEF Stages
<1>2. At("idle", Unread, <<>>) \in Handler
  BY <1>1, AtAndDone
<1>. QED  BY <1>2 DEF Init, TypeOK, Handler

\* Every step of detection keeps the store and the handlers well-formed.
LEMMA StepTypeOK == TypeOK /\ [Next]_vars => TypeOK'
<1>. SUFFICES ASSUME TypeOK, [Next]_vars
              PROVE  TypeOK'
  OBVIOUS
<1>0. call \in [Call -> Handler]
  BY DEF TypeOK, Handler
<1>s. /\ \A code \in {"ok", "conflict", "error", "lost"} : code \in Codes
      /\ \A pc \in {"parcel", "neighbours", "findings", "commit", "ack", "recheck", "replay"} :
            pc \in Stages
      /\ <<>> \in Seq(Nat)
  BY DEF Codes, Stages
<1>r. ASSUME NEW c \in Call, ReplayRun(c)
      PROVE  call' \in [Call -> Handler]
  <2>1. PICK run \in StoredRuns(c) :
          \/ call' = [call EXCEPT ![c] = At("replay", Unread, run.ids)]
          \/ call' = [call EXCEPT ![c] = Done("conflict", <<>>)]
    BY <1>r DEF ReplayRun, Reply
  <2>2. run.ids \in Seq(Nat)
    BY <2>1 DEF StoredRuns, TypeOK
  <2>3. "conflict" \in Codes /\ <<>> \in Seq(Nat) /\ "replay" \in Stages
    BY DEF Codes, Stages
  <2>. QED  BY <1>0, <2>1, <2>2, <2>3, AtAndDone
<1>e. ASSUME NEW c \in Call, NEW code \in Codes, NEW ids \in Seq(Nat), Reply(c, code, ids)
      PROVE  call' \in [Call -> Handler]
  BY <1>0, <1>e, AtAndDone DEF Reply
<1>1. ASSUME NEW c \in Call, Send(c)
      PROVE  TypeOK'
  BY <1>1 DEF Send, TypeOK, store, Stages
<1>2. ASSUME NEW c \in Call, CheckKey(c)
      PROVE  TypeOK'
  <2>1. CASE ReplayRun(c)
    BY <1>2, <1>r, <2>1 DEF CheckKey, TypeOK, store, Handler
  <2>2. CASE call' = [call EXCEPT ![c].pc = "parcel"]
    BY <1>2, <2>2 DEF CheckKey, TypeOK, store, Stages
  <2>. QED  BY <1>2, <2>1, <2>2 DEF CheckKey
<1>3. ASSUME NEW c \in Call, LoadParcel(c)
      PROVE  TypeOK'
  <2>. DEFINE subject == SubjectOf[RequestOf[c]]
  <2>1. subject \in ParcelId /\ Version(subject) \in Nat
    BY DetectionAssumption, VersionIsNumber
  <2>2. [call[c].view EXCEPT ![subject] = Version(subject)] \in View
    BY <1>0, <2>1 DEF Handler, View
  <2>. DEFINE next == At("neighbours", [call[c].view EXCEPT ![subject] = Version(subject)], <<>>)
  <2>3. next \in Handler
    BY <1>s, <2>2, AtAndDone
  <2>4. call' = [call EXCEPT ![c] = next]
    BY <1>3 DEF LoadParcel
  <2>. HIDE DEF next
  <2>5. call' \in [Call -> Handler]
    BY <1>0, <2>3, <2>4
  <2>. QED  BY <1>3, <2>5 DEF LoadParcel, TypeOK, store, Handler
<1>4. ASSUME NEW c \in Call, LoadNeighbours(c)
      PROVE  TypeOK'
  <2>. DEFINE view == [p \in ParcelId |->
                IF p = SubjectOf[RequestOf[c]] THEN call[c].view[p] ELSE Version(p)]
  <2>1. view \in View
    BY <1>0, VersionIsNumber DEF Handler, View
  <2>2. call' \in [Call -> Handler]
    BY <1>0, <1>4, <1>s, <2>1, AtAndDone DEF LoadNeighbours
  <2>. QED  BY <1>4, <2>2 DEF LoadNeighbours, TypeOK, store, Handler
<1>5. ASSUME NEW c \in Call, InsertFinding(c)
      PROVE  TypeOK'
  <2>1. Append(call[c].ids, lastId + 1) \in Seq(Nat)
    BY DEF TypeOK
  <2>2. call' \in [Call -> Handler]
    BY <1>0, <1>5, <2>1 DEF InsertFinding, Handler
  <2>3. lastId' \in Nat
    BY <1>5 DEF InsertFinding, TypeOK
  <2>. QED  BY <1>5, <2>2, <2>3 DEF InsertFinding, TypeOK, store, Handler
<1>u. ASSUME NEW c \in Call, Undo(c)
      PROVE  call' \in [Call -> Handler]
  BY <1>0, <1>s, <1>u, AtAndDone DEF Undo
<1>6. ASSUME NEW c \in Call, InsertRun(c)
      PROVE  TypeOK'
  <2>1. CASE Undo(c)
    BY <1>6, <1>u, <2>1 DEF InsertRun, TypeOK, store, Handler
  <2>2. CASE call' = [call EXCEPT ![c].pc = "commit"]
    BY <1>6, <2>2 DEF InsertRun, TypeOK, store, Stages
  <2>. QED  BY <1>6, <2>1, <2>2 DEF InsertRun
<1>7. ASSUME NEW c \in Call, Commit(c)
      PROVE  TypeOK'
  <2>1. Run(c) \in [actor : Actor, key : Key, request : Request, view : View, ids : Seq(Nat)]
    BY <1>0, DetectionAssumption DEF Run, Handler
  <2>2. Found(c) \subseteq [id : Nat, request : Request, view : View]
    <3>1. \A i \in DOMAIN call[c].ids : call[c].ids[i] \in Nat
      BY <1>0 DEF Handler
    <3>. QED  BY <1>0, <3>1, DetectionAssumption DEF Found, Handler
  <2>3. call' \in [Call -> Handler]
    BY <1>0, <1>7, <1>u DEF Commit, Handler, Stages
  <2>. QED  BY <1>7, <2>1, <2>2, <2>3 DEF Commit, TypeOK, Handler
<1>8. ASSUME NEW c \in Call, Acknowledge(c)
      PROVE  TypeOK'
  <2>1. call[c].ids \in Seq(Nat)
    BY <1>0 DEF Handler
  <2>2. call' \in [Call -> Handler]
    BY <1>8, <1>e, <1>s, <2>1 DEF Acknowledge
  <2>. QED  BY <1>8, <2>2 DEF Acknowledge, TypeOK, store, Handler
<1>9. ASSUME NEW c \in Call, Rollback(c)
      PROVE  TypeOK'
  BY <1>9, <1>u DEF Rollback, TypeOK, store, Handler
<1>10. ASSUME NEW c \in Call, Recheck(c)
       PROVE  TypeOK'
  <2>1. ReplayRun(c) \/ Reply(c, "error", <<>>)
    BY <1>10 DEF Recheck
  <2>2. call' \in [Call -> Handler]
    BY <1>r, <1>e, <1>s, <2>1
  <2>. QED  BY <1>10, <2>2 DEF Recheck, TypeOK, store, Handler
<1>11. ASSUME NEW c \in Call, ListResults(c)
       PROVE  TypeOK'
  <2>1. call[c].ids \in Seq(Nat)
    BY <1>0 DEF Handler
  <2>2. Reply(c, "ok", call[c].ids) \/ Reply(c, "error", <<>>)
    BY <1>11 DEF ListResults
  <2>3. call' \in [Call -> Handler]
    BY <1>e, <1>s, <2>1, <2>2
  <2>. QED  BY <1>11, <2>3 DEF ListResults, TypeOK, store, Handler
<1>12. ASSUME NEW c \in Call, ReadFails(c)
       PROVE  TypeOK'
  <2>1. call' \in [Call -> Handler]
    BY <1>12, <1>e, <1>s DEF ReadFails
  <2>. QED  BY <1>12, <2>1 DEF ReadFails, TypeOK, store, Handler
<1>13. CASE Crash
  <2>1. call' \in [Call -> Handler]
    BY <1>0, <1>13, <1>s, AtAndDone DEF Crash
  <2>. QED  BY <1>13, <2>1 DEF Crash, TypeOK, store, Handler
<1>14. ASSUME NEW p \in ParcelId, EditBoundary(p)
       PROVE  TypeOK'
  BY <1>14 DEF EditBoundary, TypeOK, store
<1>15. CASE UNCHANGED vars
  BY <1>15 DEF vars, TypeOK
<1>. QED  BY <1>1, <1>2, <1>3, <1>4, <1>5, <1>6, <1>7, <1>8, <1>9, <1>10, <1>11, <1>12, <1>13,
             <1>14, <1>15 DEF Next, Progress, Finished

\* The store, the sequence and every handler are well-formed, always.
THEOREM TypeCorrect == Spec => []TypeOK
<1>. QED  BY InitTypeOK, StepTypeOK, PTL DEF Spec

-----------------------------------------------------------------------------
(* One run per key, and every answer is that run.                          *)
(*                                                                         *)
(* AnswersAreTheRun is not inductive: a commit could give an answered key  *)
(* a second run.  HandlerSound excludes it, since a handler that is about  *)
(* to commit has neither a stored nor an open competitor.                  *)

\* A step of one handler that leaves the runs alone is sound when what the
\* handler now believes of its key is true.
LEMMA HandlerMoves ==
    ASSUME HandlerSound, AnswersAreTheRun, runs' = runs, NEW c \in Call,
           \A d \in Call \ {c} : call'[d] = call[d],
           call'[c].pc = "commit" => IndexAdmits(c) /\ IndexFree(c),
           call'[c].pc \in {"ack", "replay"} =>
               \E run \in StoredRuns(c) :
                   run.request = RequestOf[c] /\ run.ids = call'[c].ids,
           call'[c].code = "ok" =>
               /\ StoredRuns(c) # {}
               /\ \A run \in StoredRuns(c) :
                     run.request = RequestOf[c] /\ run.ids = call'[c].ids,
           call'[c].code = "conflict" =>
               \E run \in StoredRuns(c) : run.request # RequestOf[c]
    PROVE  HandlerSound' /\ AnswersAreTheRun'
<1>1. \A d \in Call : StoredRuns(d)' = StoredRuns(d)
  BY DEF StoredRuns
<1>2. \A one, two \in runs' : one.actor = two.actor /\ one.key = two.key => one = two
  BY DEF HandlerSound
<1>3. ASSUME NEW d \in Call, call'[d].pc = "commit"
      PROVE  IndexAdmits(d)' /\ IndexFree(d)'
  <2>1. IndexAdmits(d) /\ IndexFree(d)
    BY <1>3 DEF HandlerSound
  <2>2. ASSUME NEW e \in Call \ {d}, call'[e].pc = "commit"
        PROVE  <<ActorOf[e], KeyOf[e]>> # <<ActorOf[d], KeyOf[d]>>
    <3>1. CASE e # c
      BY <2>1, <2>2, <3>1 DEF IndexFree
    <3>2. CASE e = c
      <4>1. IndexFree(c) /\ call[d].pc = "commit"
        BY <1>3, <2>2, <3>2
      <4>. QED  BY <2>2, <3>2, <4>1 DEF IndexFree
    <3>. QED  BY <3>1, <3>2
  <2>. QED  BY <1>1, <2>1, <2>2 DEF IndexAdmits, IndexFree
<1>4. ASSUME NEW d \in Call, call'[d].pc \in {"ack", "replay"}
      PROVE  \E run \in StoredRuns(d)' : run.request = RequestOf[d] /\ run.ids = call'[d].ids
  BY <1>1, <1>4 DEF HandlerSound
<1>5. HandlerSound'
  BY <1>2, <1>3, <1>4 DEF HandlerSound
<1>6. ASSUME NEW d \in Call, call'[d].code = "ok"
      PROVE  /\ StoredRuns(d)' # {}
             /\ \A run \in StoredRuns(d)' : run.request = RequestOf[d] /\ run.ids = call'[d].ids
  BY <1>1, <1>6 DEF AnswersAreTheRun
<1>7. ASSUME NEW d \in Call, call'[d].code = "conflict"
      PROVE  \E run \in StoredRuns(d)' : run.request # RequestOf[d]
  BY <1>1, <1>7 DEF AnswersAreTheRun
<1>8. AnswersAreTheRun'
  BY <1>6, <1>7 DEF AnswersAreTheRun
<1>. QED  BY <1>5, <1>8

\* A handler that found the run of its key either replays it or is refused,
\* and is right to.
LEMMA ReplaySound ==
    ASSUME TypeOK, HandlerSound, AnswersAreTheRun, runs' = runs,
           NEW c \in Call, ReplayRun(c)
    PROVE  HandlerSound' /\ AnswersAreTheRun'
<1>1. PICK run \in StoredRuns(c) :
          IF SameRequest(c, run)
          THEN call' = [call EXCEPT ![c] = At("replay", Unread, run.ids)]
          ELSE Reply(c, "conflict", <<>>)
  BY DEF ReplayRun
<1>2. CASE SameRequest(c, run)
  <2>1. call' = [call EXCEPT ![c] = At("replay", Unread, run.ids)]
    BY <1>1, <1>2
  <2>2. call'[c] = At("replay", Unread, run.ids) /\ \A d \in Call \ {c} : call'[d] = call[d]
    BY <2>1 DEF TypeOK
  <2>3. call'[c].pc = "replay" /\ call'[c].code = "none" /\ call'[c].ids = run.ids
    BY <2>2 DEF At
  <2>4. run.request = RequestOf[c]
    BY <1>2 DEF SameRequest
  <2>. QED  BY <2>2, <2>3, <2>4, HandlerMoves
<1>3. CASE ~SameRequest(c, run)
  <2>1. call' = [call EXCEPT ![c] = Done("conflict", <<>>)]
    BY <1>1, <1>3 DEF Reply
  <2>2. call'[c] = Done("conflict", <<>>) /\ \A d \in Call \ {c} : call'[d] = call[d]
    BY <2>1 DEF TypeOK
  <2>3. call'[c].pc = "done" /\ call'[c].code = "conflict"
    BY <2>2 DEF Done
  <2>4. run.request # RequestOf[c]
    BY <1>3 DEF SameRequest
  <2>. QED  BY <2>2, <2>3, <2>4, HandlerMoves
<1>. QED  BY <1>2, <1>3

\* A handler that goes on, holding no answer and no lock, is sound.
LEMMA ReadingSound ==
    ASSUME TypeOK, HandlerSound, AnswersAreTheRun, runs' = runs, NEW c \in Call,
           \A d \in Call \ {c} : call'[d] = call[d],
           call'[c].pc \notin {"commit", "ack", "replay"},
           call'[c].code \notin {"ok", "conflict"}
    PROVE  HandlerSound' /\ AnswersAreTheRun'
BY HandlerMoves

\* A handler in transit has given no answer.
InTransit == \A c \in Call : call[c].pc # "done" => call[c].code = "none"

\* No step makes a handler in transit hold an answer.
LEMMA StepInTransit ==
    ASSUME TypeOK, InTransit, [Next]_vars
    PROVE  InTransit'
<1>e. ASSUME NEW c \in Call, NEW code, NEW ids, Reply(c, code, ids)
      PROVE  InTransit'
  BY <1>e DEF Reply, Done, InTransit, TypeOK
<1>r. ASSUME NEW c \in Call, ReplayRun(c)
      PROVE  InTransit'
  <2>1. PICK run \in StoredRuns(c) :
          \/ call' = [call EXCEPT ![c] = At("replay", Unread, run.ids)]
          \/ Reply(c, "conflict", <<>>)
    BY <1>r DEF ReplayRun
  <2>2. CASE call' = [call EXCEPT ![c] = At("replay", Unread, run.ids)]
    BY <2>2 DEF At, InTransit, TypeOK
  <2>. QED  BY <2>1, <2>2, <1>e
<1>u. ASSUME NEW c \in Call, Undo(c)
      PROVE  InTransit'
  BY <1>u DEF Undo, At, InTransit, TypeOK
<1>1. ASSUME NEW c \in Call, Send(c)
      PROVE  InTransit'
  BY <1>1 DEF Send, InTransit, TypeOK
<1>2. ASSUME NEW c \in Call, CheckKey(c)
      PROVE  InTransit'
  BY <1>2, <1>r DEF CheckKey, InTransit, TypeOK
<1>3. ASSUME NEW c \in Call, LoadParcel(c)
      PROVE  InTransit'
  BY <1>3 DEF LoadParcel, At, InTransit, TypeOK
<1>4. ASSUME NEW c \in Call, LoadNeighbours(c)
      PROVE  InTransit'
  BY <1>4 DEF LoadNeighbours, At, InTransit, TypeOK
<1>5. ASSUME NEW c \in Call, InsertFinding(c)
      PROVE  InTransit'
  BY <1>5 DEF InsertFinding, InTransit, TypeOK
<1>6. ASSUME NEW c \in Call, InsertRun(c)
      PROVE  InTransit'
  BY <1>6, <1>u DEF InsertRun, InTransit, TypeOK
<1>7. ASSUME NEW c \in Call, Commit(c)
      PROVE  InTransit'
  BY <1>7, <1>u DEF Commit, InTransit, TypeOK
<1>8. ASSUME NEW c \in Call, Acknowledge(c)
      PROVE  InTransit'
  BY <1>8, <1>e DEF Acknowledge
<1>9. ASSUME NEW c \in Call, Rollback(c)
      PROVE  InTransit'
  BY <1>9, <1>u DEF Rollback
<1>10. ASSUME NEW c \in Call, Recheck(c)
       PROVE  InTransit'
  BY <1>10, <1>r, <1>e DEF Recheck
<1>11. ASSUME NEW c \in Call, ListResults(c)
       PROVE  InTransit'
  BY <1>11, <1>e DEF ListResults
<1>12. ASSUME NEW c \in Call, ReadFails(c)
       PROVE  InTransit'
  BY <1>12, <1>e DEF ReadFails
<1>13. CASE Crash
  BY <1>13 DEF Crash, Done, InTransit, TypeOK
<1>14. CASE UNCHANGED call
  BY <1>14 DEF InTransit
<1>. QED  BY <1>1, <1>2, <1>3, <1>4, <1>5, <1>6, <1>7, <1>8, <1>9, <1>10, <1>11, <1>12, <1>13,
             <1>14 DEF Next, Progress, Finished, EditBoundary, vars

Sound == TypeOK /\ InTransit /\ HandlerSound /\ AnswersAreTheRun

\* COMMIT stores the only run of its key: nobody has one stored or open.
LEMMA CommitSound ==
    ASSUME Sound, NEW c \in Call, Commit(c)
    PROVE  HandlerSound' /\ AnswersAreTheRun'
<1>. USE DEF Sound
<1>0. call \in [Call -> Handler]
  BY DEF TypeOK, Handler
<1>1. /\ runs' = runs \cup {Run(c)}
      /\ Run(c).actor = ActorOf[c] /\ Run(c).key = KeyOf[c]
      /\ Run(c).request = RequestOf[c] /\ Run(c).ids = call[c].ids
  BY DEF Commit, Run
<1>2. /\ StoredRuns(c) = {}
      /\ \A d \in Call \ {c} :
            call[d].pc = "commit" => <<ActorOf[d], KeyOf[d]>> # <<ActorOf[c], KeyOf[c]>>
  BY DEF Commit, HandlerSound, IndexAdmits, IndexFree
<1>3. \A d \in Call \ {c} : call'[d] = call[d]
  BY <1>0 DEF Commit, Undo
<1>4. /\ call'[c].code = "none"
      /\ \/ call'[c].pc = "ack" /\ call'[c].ids = call[c].ids
         \/ call'[c].pc = "recheck"
  <2>1. call[c].pc = "commit" /\ call[c].code = "none"
    BY DEF Commit, InTransit
  <2>2. CASE call' = [call EXCEPT ![c].pc = "ack"]
    BY <1>0, <2>1, <2>2 DEF Handler
  <2>3. CASE Undo(c)
    BY <1>0, <2>3 DEF Undo, At
  <2>. QED  BY <2>2, <2>3 DEF Commit
<1>5. ASSUME NEW d \in Call
      PROVE  StoredRuns(d)' = IF ActorOf[d] = ActorOf[c] /\ KeyOf[d] = KeyOf[c]
                              THEN {Run(c)} ELSE StoredRuns(d)
  BY <1>1, <1>2 DEF StoredRuns
<1>6. ASSUME NEW one \in runs', NEW two \in runs', one.actor = two.actor, one.key = two.key
      PROVE  one = two
  BY <1>1, <1>2, <1>6 DEF HandlerSound, StoredRuns
<1>7. ASSUME NEW d \in Call, call'[d].pc = "commit"
      PROVE  IndexAdmits(d)' /\ IndexFree(d)'
  <2>1. d # c /\ call[d].pc = "commit"
    BY <1>3, <1>4, <1>7
  <2>2. IndexAdmits(d)'
    BY <1>2, <1>5, <2>1 DEF HandlerSound, IndexAdmits
  <2>3. IndexFree(d)'
    BY <1>3, <1>4, <2>1 DEF HandlerSound, IndexFree
  <2>. QED  BY <2>2, <2>3
<1>8. ASSUME NEW d \in Call, call'[d].pc \in {"ack", "replay"}
      PROVE  \E run \in StoredRuns(d)' : run.request = RequestOf[d] /\ run.ids = call'[d].ids
  <2>1. CASE d = c
    BY <1>1, <1>4, <1>5, <1>8, <2>1
  <2>2. CASE d # c
    BY <1>2, <1>3, <1>5, <1>8, <2>2 DEF HandlerSound, StoredRuns
  <2>. QED  BY <2>1, <2>2
<1>9. HandlerSound'
  BY <1>6, <1>7, <1>8 DEF HandlerSound
<1>10. ASSUME NEW d \in Call, call'[d].code = "ok"
       PROVE  /\ StoredRuns(d)' # {}
              /\ \A run \in StoredRuns(d)' : run.request = RequestOf[d] /\ run.ids = call'[d].ids
  <2>1. d # c /\ call[d].code = "ok"
    BY <1>3, <1>4, <1>10
  <2>2. StoredRuns(d) # {}
    BY <2>1 DEF AnswersAreTheRun
  <2>3. StoredRuns(d)' = StoredRuns(d)
    BY <1>2, <1>5, <2>2 DEF StoredRuns
  <2>. QED  BY <1>3, <2>1, <2>3 DEF AnswersAreTheRun
<1>11. ASSUME NEW d \in Call, call'[d].code = "conflict"
       PROVE  \E run \in StoredRuns(d)' : run.request # RequestOf[d]
  <2>1. d # c /\ call[d].code = "conflict"
    BY <1>3, <1>4, <1>11
  <2>2. StoredRuns(d) # {}
    BY <2>1 DEF AnswersAreTheRun
  <2>3. StoredRuns(d)' = StoredRuns(d)
    BY <1>2, <1>5, <2>2 DEF StoredRuns
  <2>. QED  BY <2>1, <2>3 DEF AnswersAreTheRun
<1>12. AnswersAreTheRun'
  BY <1>10, <1>11 DEF AnswersAreTheRun
<1>. QED  BY <1>9, <1>12

\* Sound is inductive: every step of detection keeps it.
LEMMA StepSound == Sound /\ [Next]_vars => Sound'
<1>. SUFFICES ASSUME Sound, [Next]_vars
              PROVE  HandlerSound' /\ AnswersAreTheRun'
  BY StepTypeOK, StepInTransit DEF Sound
<1>. USE DEF Sound
<1>0. call \in [Call -> Handler]
  BY DEF TypeOK, Handler
<1>f. ASSUME NEW c \in Call, NEW h, call' = [call EXCEPT ![c] = h]
      PROVE  call'[c] = h /\ \A d \in Call \ {c} : call'[d] = call[d]
  BY <1>0, <1>f
<1>u. ASSUME NEW c \in Call, Undo(c), runs' = runs
      PROVE  HandlerSound' /\ AnswersAreTheRun'
  <2>1. call'[c] = At("recheck", Unread, <<>>) /\ \A d \in Call \ {c} : call'[d] = call[d]
    BY <1>f, <1>u DEF Undo
  <2>2. call'[c].pc = "recheck" /\ call'[c].code = "none"
    BY <2>1 DEF At
  <2>. QED  BY <1>u, <2>1, <2>2, ReadingSound
<1>e. ASSUME NEW c \in Call, Reply(c, "error", <<>>), runs' = runs
      PROVE  HandlerSound' /\ AnswersAreTheRun'
  <2>1. call'[c] = Done("error", <<>>) /\ \A d \in Call \ {c} : call'[d] = call[d]
    BY <1>f, <1>e DEF Reply
  <2>2. call'[c].pc = "done" /\ call'[c].code = "error"
    BY <2>1 DEF Done
  <2>. QED  BY <1>e, <2>1, <2>2, ReadingSound
\* A handler whose ids are those of its run may answer with them.
<1>a. ASSUME NEW c \in Call, call[c].pc \in {"ack", "replay"},
             Reply(c, "ok", call[c].ids), runs' = runs
      PROVE  HandlerSound' /\ AnswersAreTheRun'
  <2>1. call'[c] = Done("ok", call[c].ids) /\ \A d \in Call \ {c} : call'[d] = call[d]
    BY <1>f, <1>a DEF Reply
  <2>2. call'[c].pc = "done" /\ call'[c].code = "ok" /\ call'[c].ids = call[c].ids
    BY <2>1 DEF Done
  <2>3. PICK run \in StoredRuns(c) : run.request = RequestOf[c] /\ run.ids = call[c].ids
    BY <1>a DEF HandlerSound
  <2>4. \A other \in StoredRuns(c) : other = run
    BY <2>3 DEF HandlerSound, StoredRuns
  <2>. QED  BY <1>a, <2>1, <2>2, <2>3, <2>4, HandlerMoves
<1>1. ASSUME NEW c \in Call, Send(c)
      PROVE  HandlerSound' /\ AnswersAreTheRun'
  <2>1. /\ call'[c].pc = "key" /\ call'[c].code = "none"
        /\ \A d \in Call \ {c} : call'[d] = call[d]
    BY <1>0, <1>1 DEF Send, InTransit, Handler
  <2>. QED  BY <1>1, <2>1, ReadingSound DEF Send, store
<1>2. ASSUME NEW c \in Call, CheckKey(c)
      PROVE  HandlerSound' /\ AnswersAreTheRun'
  <2>1. CASE ReplayRun(c)
    BY <1>2, <2>1, ReplaySound DEF CheckKey, store
  <2>2. CASE call' = [call EXCEPT ![c].pc = "parcel"]
    <3>1. /\ call'[c].pc = "parcel" /\ call'[c].code = "none"
          /\ \A d \in Call \ {c} : call'[d] = call[d]
      BY <1>0, <1>2, <2>2 DEF CheckKey, InTransit, Handler
    <3>. QED  BY <1>2, <3>1, ReadingSound DEF CheckKey, store
  <2>. QED  BY <1>2, <2>1, <2>2 DEF CheckKey
<1>3. ASSUME NEW c \in Call, LoadParcel(c)
      PROVE  HandlerSound' /\ AnswersAreTheRun'
  <2>1. /\ call'[c].pc = "neighbours" /\ call'[c].code = "none"
        /\ \A d \in Call \ {c} : call'[d] = call[d]
    BY <1>0, <1>3 DEF LoadParcel, At
  <2>. QED  BY <1>3, <2>1, ReadingSound DEF LoadParcel, store
<1>4. ASSUME NEW c \in Call, LoadNeighbours(c)
      PROVE  HandlerSound' /\ AnswersAreTheRun'
  <2>1. /\ call'[c].pc = "findings" /\ call'[c].code = "none"
        /\ \A d \in Call \ {c} : call'[d] = call[d]
    BY <1>0, <1>4 DEF LoadNeighbours, At
  <2>. QED  BY <1>4, <2>1, ReadingSound DEF LoadNeighbours, store
<1>5. ASSUME NEW c \in Call, InsertFinding(c)
      PROVE  HandlerSound' /\ AnswersAreTheRun'
  <2>1. /\ call'[c].pc = "findings" /\ call'[c].code = "none"
        /\ \A d \in Call \ {c} : call'[d] = call[d]
    BY <1>0, <1>5 DEF InsertFinding, InTransit, Handler
  <2>. QED  BY <1>5, <2>1, ReadingSound DEF InsertFinding, store
<1>6. ASSUME NEW c \in Call, InsertRun(c)
      PROVE  HandlerSound' /\ AnswersAreTheRun'
  <2>1. CASE Undo(c)
    BY <1>6, <1>u, <2>1 DEF InsertRun, store
  <2>2. CASE call' = [call EXCEPT ![c].pc = "commit"] /\ IndexAdmits(c)
    <3>1. /\ call'[c].pc = "commit" /\ call'[c].code = "none"
          /\ \A d \in Call \ {c} : call'[d] = call[d]
      BY <1>0, <1>6, <2>2 DEF InsertRun, InTransit, Handler
    <3>2. IndexFree(c) /\ runs' = runs
      BY <1>6 DEF InsertRun, store
    <3>. QED  BY <2>2, <3>1, <3>2, HandlerMoves
  <2>. QED  BY <1>6, <2>1, <2>2 DEF InsertRun
<1>7. ASSUME NEW c \in Call, Commit(c)
      PROVE  HandlerSound' /\ AnswersAreTheRun'
  BY <1>7, CommitSound
<1>8. ASSUME NEW c \in Call, Acknowledge(c)
      PROVE  HandlerSound' /\ AnswersAreTheRun'
  BY <1>8, <1>a DEF Acknowledge, store
<1>9. ASSUME NEW c \in Call, Rollback(c)
      PROVE  HandlerSound' /\ AnswersAreTheRun'
  BY <1>9, <1>u DEF Rollback, store
<1>10. ASSUME NEW c \in Call, Recheck(c)
       PROVE  HandlerSound' /\ AnswersAreTheRun'
  <2>1. runs' = runs /\ (ReplayRun(c) \/ Reply(c, "error", <<>>))
    BY <1>10 DEF Recheck, store
  <2>. QED  BY <1>e, <2>1, ReplaySound
<1>11. ASSUME NEW c \in Call, ListResults(c)
       PROVE  HandlerSound' /\ AnswersAreTheRun'
  <2>1. /\ runs' = runs /\ call[c].pc = "replay"
        /\ Reply(c, "ok", call[c].ids) \/ Reply(c, "error", <<>>)
    BY <1>11 DEF ListResults, store
  <2>. QED  BY <1>a, <1>e, <2>1
<1>12. ASSUME NEW c \in Call, ReadFails(c)
       PROVE  HandlerSound' /\ AnswersAreTheRun'
  BY <1>12, <1>e DEF ReadFails, store
<1>13. CASE Crash
  <2>1. /\ runs' = runs
        /\ \A d \in Call : \/ call'[d] = call[d] /\ call[d].pc \in {"idle", "done"}
                           \/ call'[d].pc = "done" /\ call'[d].code = "lost"
    BY <1>13 DEF Crash, store, Done
  <2>2. HandlerSound'
    BY <2>1 DEF HandlerSound
  <2>3. AnswersAreTheRun'
    BY <2>1 DEF AnswersAreTheRun, StoredRuns
  <2>. QED  BY <2>2, <2>3
<1>14. CASE UNCHANGED <<runs, call>>
  BY <1>14 DEF HandlerSound, AnswersAreTheRun, StoredRuns, IndexAdmits, IndexFree
<1>. QED  BY <1>1, <1>2, <1>3, <1>4, <1>5, <1>6, <1>7, <1>8, <1>9, <1>10, <1>11, <1>12, <1>13,
             <1>14 DEF Next, Progress, Finished, EditBoundary, vars, store

\* Sound holds before the first call: there is no run and no answer.
LEMMA InitSound == Init => Sound
<1>1. ASSUME Init
      PROVE  \A c \in Call : call[c].pc = "idle" /\ call[c].code = "none"
  BY <1>1 DEF Init, At
<1>. QED  BY <1>1, InitTypeOK DEF Init, Sound, InTransit, HandlerSound, AnswersAreTheRun

\* No key ever has two runs, and a handler that holds the index or an answer
\* is right about its key.
THEOREM HandlersAreSound == Spec => []HandlerSound
<1>1. Sound => HandlerSound
  BY DEF Sound
<1>. QED  BY <1>1, InitSound, StepSound, PTL DEF Spec

\* Whatever the client is told of its key stays true: retries, lost races and
\* lost acknowledgements of one request all get the one result set.
THEOREM AnswersAreOneRun == Spec => []AnswersAreTheRun
<1>1. Sound => AnswersAreTheRun
  BY DEF Sound
<1>. QED  BY <1>1, InitSound, StepSound, PTL DEF Spec

-----------------------------------------------------------------------------
(* Detection keeps the promise of the key.                                 *)

\* What the register of a key shows of its run.
Shown(run) == [request |-> run.request, ids |-> run.ids]

\* A register shows the run of its key, or nothing.
LEMMA RegisterShows ==
    ASSUME HandlerSound, NEW c \in Call
    PROVE  LET k == <<ActorOf[c], KeyOf[c]>>
           IN  /\ \A run \in StoredRuns(c) : Register[k] = Shown(run)
               /\ StoredRuns(c) = {} => Register[k] = NoRun
<1>. DEFINE k == <<ActorOf[c], KeyOf[c]>>
<1>1. k \in Actor \X Key /\ RunsUnder(k) = StoredRuns(c)
  BY DetectionAssumption DEF RunsUnder, StoredRuns
<1>2. \A one, two \in StoredRuns(c) : one = two
  BY DEF HandlerSound, StoredRuns
<1>. HIDE DEF k
<1>3. ASSUME NEW run \in StoredRuns(c)
      PROVE  Register[k] = Shown(run)
  <2>1. (CHOOSE r \in RunsUnder(k) : TRUE) = run
    BY <1>1, <1>2
  <2>. QED  BY <1>1, <2>1 DEF Register, Shown
<1>4. StoredRuns(c) = {} => Register[k] = NoRun
  BY <1>1 DEF Register
<1>. QED  BY <1>3, <1>4 DEF k

\* A register that shows a run is not empty.
LEMMA ShownIsNotEmpty == \A run : Shown(run) # NoRun
<1>1. \A run : "request" \in DOMAIN Shown(run)
  BY DEF Shown
<1>2. "request" \notin DOMAIN NoRun
  BY DEF NoRun
<1>. QED  BY <1>1, <1>2

\* The empty tables are the empty registers, and nobody was told anything.
LEMMA InitPromise == Init => Promise!Init
<1>. SUFFICES ASSUME Init
              PROVE  Promise!Init
  OBVIOUS
<1>1. Register = [k \in Actor \X Key |-> NoRun]
  BY DEF Init, Register, RunsUnder
<1>2. Told = [c \in Call |-> [code |-> "pending"]]
  BY DEF Init, At, Told
<1>. QED  BY <1>1, <1>2 DEF Promise!Init

\* A step that neither stores a run nor answers a call is a stutter.
LEMMA SilentStep ==
    ASSUME runs' = runs,
           \A c \in Call : \/ call'[c] = call[c]
                           \/ /\ call[c].code = "none"
                              /\ call'[c].code \in {"none", "lost"}
    PROVE  UNCHANGED <<Register, Told>>
<1>1. Register' = Register
  BY DEF Register, RunsUnder
<1>2. \A c \in Call : Told[c]' = Told[c]
  BY DEF Told
<1>3. Told = [c \in Call |-> Told[c]] /\ Told' = [c \in Call |-> Told'[c]]
  BY DEF Told
<1>. QED  BY <1>1, <1>2, <1>3

\* An answered call is an answer of the abstract specification, if it is the
\* one the register calls for.
LEMMA AnswerStep ==
    ASSUME Sound, runs' = runs, NEW c \in Call, NEW code, NEW ids, Reply(c, code, ids),
           call[c].pc # "done",
           \/ code = "error"
           \/ code = "ok" /\ \E run \in StoredRuns(c) :
                                 run.request = RequestOf[c] /\ run.ids = ids
           \/ code = "conflict" /\ \E run \in StoredRuns(c) : run.request # RequestOf[c]
    PROVE  Promise!Next
<1>. USE DEF Sound
<1>1. call'[c] = Done(code, ids) /\ \A d \in Call \ {c} : call'[d] = call[d]
  BY DEF Reply, TypeOK
<1>2. call'[c].code = code /\ call'[c].ids = ids
  BY <1>1 DEF Done
<1>3. Told[c] = [code |-> "pending"]
  BY DEF InTransit, Told
<1>4. \A d \in Call \ {c} : Told'[d] = Told[d]
  BY <1>1 DEF Told
<1>5. Register' = Register
  BY DEF Register, RunsUnder
<1>6. Told = [d \in Call |-> Told[d]] /\ Told' = [d \in Call |-> Told'[d]]
  BY DEF Told
<1>7. ASSUME NEW a, Told'[c] = a
      PROVE  Told' = [Told EXCEPT ![c] = a]
  BY <1>4, <1>6, <1>7
<1>8. \A run \in StoredRuns(c) : /\ Register[<<ActorOf[c], KeyOf[c]>>] = Shown(run)
                                 /\ Register[<<ActorOf[c], KeyOf[c]>>] # NoRun
  BY RegisterShows, ShownIsNotEmpty
<1>9. CASE code = "error"
  <2>1. Told'[c] = [code |-> "error"]
    BY <1>2, <1>9 DEF Told
  <2>2. Promise!Error(c)
    BY <1>7, <2>1 DEF Promise!Error
  <2>. QED  BY <1>3, <1>5, <2>2 DEF Promise!Answer, Promise!Next
<1>10. CASE code = "ok" /\ \E run \in StoredRuns(c) : run.request = RequestOf[c] /\ run.ids = ids
  <2>1. Told'[c] = [code |-> "ok", ids |-> ids]
    BY <1>2, <1>10 DEF Told
  <2>2. PICK run \in StoredRuns(c) : run.request = RequestOf[c] /\ run.ids = ids
    BY <1>10
  <2>3. Shown(run).request = RequestOf[c] /\ Shown(run).ids = ids
    BY <2>2 DEF Shown
  <2>4. Promise!Ok(c)
    BY <1>7, <1>8, <2>1, <2>2, <2>3 DEF Promise!Ok, Promise!Mine
  <2>. QED  BY <1>3, <1>5, <2>4 DEF Promise!Answer, Promise!Next
<1>11. CASE code = "conflict" /\ \E run \in StoredRuns(c) : run.request # RequestOf[c]
  <2>1. Told'[c] = [code |-> "conflict"]
    BY <1>2, <1>11 DEF Told
  <2>2. PICK run \in StoredRuns(c) : run.request # RequestOf[c]
    BY <1>11
  <2>3. Shown(run).request # RequestOf[c]
    BY <2>2 DEF Shown
  <2>4. Promise!Conflict(c)
    BY <1>7, <1>8, <2>1, <2>2, <2>3 DEF Promise!Conflict, Promise!Mine
  <2>. QED  BY <1>3, <1>5, <2>4 DEF Promise!Answer, Promise!Next
<1>. QED  BY <1>9, <1>10, <1>11

\* COMMIT writes the register of its key, which was empty.
LEMMA CommitRecords ==
    ASSUME Sound, NEW c \in Call, Commit(c)
    PROVE  Promise!Next
<1>. USE DEF Sound
<1>. DEFINE k == <<ActorOf[c], KeyOf[c]>>
<1>0. call \in [Call -> Handler] /\ call[c].ids \in Seq(Nat)
  BY DEF TypeOK, Handler
<1>1. /\ runs' = runs \cup {Run(c)} /\ StoredRuns(c) = {}
      /\ Run(c).actor = ActorOf[c] /\ Run(c).key = KeyOf[c]
      /\ Shown(Run(c)) = [request |-> RequestOf[c], ids |-> call[c].ids]
  BY DEF Commit, Run, Shown, HandlerSound, IndexAdmits
<1>2. Register[k] = NoRun
  BY <1>1, RegisterShows
<1>3. Register'[k] = Shown(Run(c))
  <2>1. RunsUnder(k)' = {Run(c)} /\ k \in Actor \X Key
    BY <1>1, DetectionAssumption DEF RunsUnder, StoredRuns
  <2>. HIDE DEF k
  <2>2. (CHOOSE r \in RunsUnder(k)' : TRUE) = Run(c)
    BY <2>1
  <2>. QED  BY <2>1, <2>2 DEF Register, Shown
<1>4. ASSUME NEW other \in (Actor \X Key) \ {k}
      PROVE  Register'[other] = Register[other]
  <2>1. RunsUnder(other)' = RunsUnder(other)
    BY <1>1 DEF RunsUnder
  <2>. QED  BY <2>1 DEF Register
<1>5. /\ Register  = [q \in Actor \X Key |-> Register[q]]
      /\ Register' = [q \in Actor \X Key |-> Register'[q]]
  BY DEF Register
<1>6. Register' = [Register EXCEPT ![k] = Register'[k]]
  BY <1>4, <1>5
<1>7. Register'[k] \in [request : {RequestOf[c]}, ids : Seq(Nat)]
  BY <1>0, <1>1, <1>3
<1>8. UNCHANGED Told
  <2>0. \A d \in Call : \/ call'[d] = call[d]
                       \/ /\ call[d].code = "none"
                          /\ call'[d].code = "none"
    <3>1. call[c].code = "none"
      BY DEF Commit, InTransit
    <3>2. \A d \in Call \ {c} : call'[d] = call[d]
      BY <1>0 DEF Commit, Undo
    <3>3. CASE call' = [call EXCEPT ![c].pc = "ack"]
      <4>1. call'[c].code = call[c].code
        BY <1>0, <3>3 DEF Handler
      <4>. QED  BY <3>1, <3>2, <4>1
    <3>4. CASE Undo(c)
      <4>1. call'[c].code = "none"
        BY <1>0, <3>4 DEF Undo, At
      <4>. QED  BY <3>1, <3>2, <4>1
    <3>. QED  BY <3>3, <3>4 DEF Commit
  <2>1. \A d \in Call : Told[d]' = Told[d]
    BY <2>0 DEF Told
  <2>2. Told = [d \in Call |-> Told[d]] /\ Told' = [d \in Call |-> Told'[d]]
    BY DEF Told
  <2>. QED  BY <2>1, <2>2
<1>9. Promise!Record(c)
  BY <1>2, <1>6, <1>7, <1>8 DEF Promise!Record, Promise!Mine
<1>. QED  BY <1>9 DEF Promise!Next

\* Every step of detection is a step of the promise, or none.
LEMMA StepPromise == Sound /\ [Next]_vars => [Promise!Next]_<<Register, Told>>
<1>. SUFFICES ASSUME Sound, [Next]_vars
              PROVE  Promise!Next \/ UNCHANGED <<Register, Told>>
  BY Zenon
<1>. USE DEF Sound
<1>0. call \in [Call -> Handler]
  BY DEF TypeOK, Handler
\* A handler that goes on is silent.
<1>s. ASSUME runs' = runs, NEW c \in Call, call[c].pc # "done", call'[c].code = "none",
             \A d \in Call \ {c} : call'[d] = call[d]
      PROVE  UNCHANGED <<Register, Told>>
  BY <1>s, SilentStep DEF InTransit
<1>u. ASSUME runs' = runs, NEW c \in Call, call[c].pc # "done", Undo(c)
      PROVE  UNCHANGED <<Register, Told>>
  BY <1>0, <1>s, <1>u DEF Undo, At
<1>r. ASSUME runs' = runs, NEW c \in Call, call[c].pc # "done", ReplayRun(c)
      PROVE  Promise!Next \/ UNCHANGED <<Register, Told>>
  <2>1. PICK run \in StoredRuns(c) :
          IF SameRequest(c, run)
          THEN call' = [call EXCEPT ![c] = At("replay", Unread, run.ids)]
          ELSE Reply(c, "conflict", <<>>)
    BY <1>r DEF ReplayRun
  <2>2. CASE SameRequest(c, run)
    <3>1. call'[c] = At("replay", Unread, run.ids) /\ \A d \in Call \ {c} : call'[d] = call[d]
      BY <1>0, <2>1, <2>2
    <3>2. call'[c].code = "none"
      BY <3>1 DEF At
    <3>. QED  BY <1>r, <1>s, <3>1, <3>2
  <2>3. CASE ~SameRequest(c, run)
    BY <1>r, <2>1, <2>3, AnswerStep DEF SameRequest
  <2>. QED  BY <2>2, <2>3
<1>1. ASSUME NEW c \in Call, Send(c)
      PROVE  UNCHANGED <<Register, Told>>
  <2>1. call'[c].code = "none" /\ \A d \in Call \ {c} : call'[d] = call[d]
    BY <1>0, <1>1 DEF Send, InTransit, Handler
  <2>. QED  BY <1>1, <1>s, <2>1 DEF Send, store
<1>2. ASSUME NEW c \in Call, CheckKey(c)
      PROVE  Promise!Next \/ UNCHANGED <<Register, Told>>
  <2>1. CASE ReplayRun(c)
    BY <1>2, <1>r, <2>1 DEF CheckKey, store
  <2>2. CASE call' = [call EXCEPT ![c].pc = "parcel"]
    <3>1. call'[c].code = "none" /\ \A d \in Call \ {c} : call'[d] = call[d]
      BY <1>0, <1>2, <2>2 DEF CheckKey, InTransit, Handler
    <3>. QED  BY <1>2, <1>s, <3>1 DEF CheckKey, store
  <2>. QED  BY <1>2, <2>1, <2>2 DEF CheckKey
<1>3. ASSUME NEW c \in Call, LoadParcel(c)
      PROVE  UNCHANGED <<Register, Told>>
  <2>1. call'[c].code = "none" /\ \A d \in Call \ {c} : call'[d] = call[d]
    BY <1>0, <1>3 DEF LoadParcel, At
  <2>. QED  BY <1>3, <1>s, <2>1 DEF LoadParcel, store
<1>4. ASSUME NEW c \in Call, LoadNeighbours(c)
      PROVE  UNCHANGED <<Register, Told>>
  <2>1. call'[c].code = "none" /\ \A d \in Call \ {c} : call'[d] = call[d]
    BY <1>0, <1>4 DEF LoadNeighbours, At
  <2>. QED  BY <1>4, <1>s, <2>1 DEF LoadNeighbours, store
<1>5. ASSUME NEW c \in Call, InsertFinding(c)
      PROVE  UNCHANGED <<Register, Told>>
  <2>1. call'[c].code = "none" /\ \A d \in Call \ {c} : call'[d] = call[d]
    BY <1>0, <1>5 DEF InsertFinding, InTransit, Handler
  <2>. QED  BY <1>5, <1>s, <2>1 DEF InsertFinding, store
<1>6. ASSUME NEW c \in Call, InsertRun(c)
      PROVE  UNCHANGED <<Register, Told>>
  <2>1. CASE Undo(c)
    BY <1>6, <1>u, <2>1 DEF InsertRun, store
  <2>2. CASE call' = [call EXCEPT ![c].pc = "commit"]
    <3>1. call'[c].code = "none" /\ \A d \in Call \ {c} : call'[d] = call[d]
      BY <1>0, <1>6, <2>2 DEF InsertRun, InTransit, Handler
    <3>. QED  BY <1>6, <1>s, <3>1 DEF InsertRun, store
  <2>. QED  BY <1>6, <2>1, <2>2 DEF InsertRun
<1>7. ASSUME NEW c \in Call, Commit(c)
      PROVE  Promise!Next
  BY <1>7, CommitRecords
<1>a. ASSUME NEW c \in Call, call[c].pc \in {"ack", "replay"}, runs' = runs,
             Reply(c, "ok", call[c].ids)
      PROVE  Promise!Next
  <2>1. \E run \in StoredRuns(c) : run.request = RequestOf[c] /\ run.ids = call[c].ids
    BY <1>a DEF HandlerSound
  <2>. QED  BY <1>a, <2>1, AnswerStep
<1>8. ASSUME NEW c \in Call, Acknowledge(c)
      PROVE  Promise!Next
  BY <1>8, <1>a DEF Acknowledge, store
<1>9. ASSUME NEW c \in Call, Rollback(c)
      PROVE  UNCHANGED <<Register, Told>>
  BY <1>9, <1>u DEF Rollback, store
<1>10. ASSUME NEW c \in Call, Recheck(c)
       PROVE  Promise!Next \/ UNCHANGED <<Register, Told>>
  <2>1. runs' = runs /\ call[c].pc # "done" /\ (ReplayRun(c) \/ Reply(c, "error", <<>>))
    BY <1>10 DEF Recheck, store
  <2>. QED  BY <1>r, <2>1, AnswerStep
<1>11. ASSUME NEW c \in Call, ListResults(c)
       PROVE  Promise!Next
  <2>1. /\ runs' = runs /\ call[c].pc = "replay"
        /\ Reply(c, "ok", call[c].ids) \/ Reply(c, "error", <<>>)
    BY <1>11 DEF ListResults, store
  <2>. QED  BY <1>a, <2>1, AnswerStep
<1>12. ASSUME NEW c \in Call, ReadFails(c)
       PROVE  Promise!Next
  <2>1. runs' = runs /\ call[c].pc # "done" /\ Reply(c, "error", <<>>)
    BY <1>12 DEF ReadFails, store
  <2>. QED  BY <2>1, AnswerStep
<1>13. CASE Crash
  <2>1. /\ runs' = runs
        /\ \A d \in Call : \/ call'[d] = call[d]
                           \/ call[d].pc # "done" /\ call'[d].code = "lost"
    BY <1>13 DEF Crash, store, Done
  <2>. QED  BY <2>1, SilentStep DEF InTransit
<1>14. CASE UNCHANGED <<runs, call>>
  BY <1>14, SilentStep
<1>. QED  BY <1>1, <1>2, <1>3, <1>4, <1>5, <1>6, <1>7, <1>8, <1>9, <1>10, <1>11, <1>12, <1>13,
             <1>14 DEF Next, Progress, Finished, EditBoundary, vars, store

\* Under concurrent retries, lost acknowledgements and crashes the key of a
\* detection behaves as a register that is written once.
THEOREM DetectionKeepsPromise == Spec => ImplementsPromise
<1>. QED  BY InitSound, StepSound, InitPromise, StepPromise, PTL
          DEF Spec, ImplementsPromise, Promise!Spec, Promise!abstractVars

-----------------------------------------------------------------------------
(***************************************************************************)
(* What a detection leaves in the store: the rows, the runs that own them  *)
(* and the audit events.                                                   *)
(*                                                                         *)
(* RunsOwnTheirConflicts is not inductive: a transaction might bring an id *)
(* that is taken.  The strengthening is that the ids a transaction holds   *)
(* came from the sequence and nobody else has them.                        *)
(***************************************************************************)

\* c has a transaction open, in which it may hold ids.
Open(c) == call[c].pc \in {"findings", "commit"}

\* No id comes from beyond the sequence, and those of an open transaction are
\* in no table, in no other transaction, and not twice in this one.
IdsAreFresh ==
    /\ \A row \in conflicts : row.id <= lastId
    /\ \A c \in Call : Open(c) =>
          \A i \in DOMAIN call[c].ids :
             /\ call[c].ids[i] <= lastId
             /\ \A row \in conflicts : row.id # call[c].ids[i]
             /\ \A j \in DOMAIN call[c].ids : i # j => call[c].ids[i] # call[c].ids[j]
             /\ \A d \in Call \ {c} : Open(d) =>
                   \A j \in DOMAIN call[d].ids : call[c].ids[i] # call[d].ids[j]

-----------------------------------------------------------------------------
(* Where ids come from *)

\* A step that leaves the store and the sequence alone gives nobody an id.
Quiet ==
    /\ conflicts' = conflicts /\ runs' = runs /\ audits' = audits /\ lastId' = lastId
    /\ \A c \in Call : Open(c)' => \/ call'[c].ids = <<>>
                                   \/ Open(c) /\ call'[c].ids = call[c].ids

\* All steps are quiet but those that take an id or commit.
LEMMA StepsOfTheStore ==
    ASSUME TypeOK, [Next]_vars
    PROVE  Quiet \/ \E c \in Call : InsertFinding(c) \/ Commit(c)
<1>0. call \in [Call -> Handler]
  BY DEF TypeOK, Handler
<1>q. ASSUME conflicts' = conflicts, runs' = runs, audits' = audits, lastId' = lastId,
             NEW c \in Call, NEW h, call' = [call EXCEPT ![c] = h],
             h.pc \in {"findings", "commit"} => h.ids = <<>> \/ (Open(c) /\ h.ids = call[c].ids)
      PROVE  Quiet
  BY <1>0, <1>q DEF Quiet, Open
<1>d. ASSUME NEW c \in Call, NEW code, NEW ids, Reply(c, code, ids), UNCHANGED <<store, lastId>>
      PROVE  Quiet
  BY <1>d, <1>q DEF Reply, Done, store
<1>r. ASSUME NEW c \in Call, ReplayRun(c), UNCHANGED <<store, lastId>>
      PROVE  Quiet
  <2>1. \/ \E ids : call' = [call EXCEPT ![c] = At("replay", Unread, ids)]
        \/ Reply(c, "conflict", <<>>)
    BY <1>r DEF ReplayRun
  <2>. QED  BY <1>d, <1>q, <1>r, <2>1 DEF At, store
<1>u. ASSUME NEW c \in Call, Undo(c), UNCHANGED <<store, lastId>>
      PROVE  Quiet
  BY <1>u, <1>q DEF Undo, At, store
<1>p. ASSUME NEW c \in Call, NEW pc, call' = [call EXCEPT ![c].pc = pc],
             pc \in {"findings", "commit"} => Open(c), UNCHANGED <<store, lastId>>
      PROVE  Quiet
  <2>1. call' = [call EXCEPT ![c] = [call[c] EXCEPT !.pc = pc]]
    BY <1>0, <1>p
  <2>2. /\ [call[c] EXCEPT !.pc = pc].pc = pc
        /\ [call[c] EXCEPT !.pc = pc].ids = call[c].ids
    BY <1>0 DEF Handler
  <2>. QED  BY <1>p, <1>q, <2>1, <2>2 DEF store
<1>1. ASSUME NEW c \in Call, Send(c)
      PROVE  Quiet
  <2>1. call' = [call EXCEPT ![c].pc = "key"] /\ UNCHANGED <<store, lastId>>
    BY <1>1 DEF Send
  <2>2. "key" \notin {"findings", "commit"}
    OBVIOUS
  <2>. QED  BY <1>p, <2>1, <2>2, Zenon
<1>2. ASSUME NEW c \in Call, CheckKey(c)
      PROVE  Quiet
  BY <1>2, <1>r, <1>p DEF CheckKey
<1>3. ASSUME NEW c \in Call, LoadParcel(c)
      PROVE  Quiet
  <2>1. PICK view : call' = [call EXCEPT ![c] = At("neighbours", view, <<>>)]
    BY <1>3 DEF LoadParcel
  <2>. QED  BY <1>3, <1>q, <2>1 DEF LoadParcel, At, store
<1>4. ASSUME NEW c \in Call, LoadNeighbours(c)
      PROVE  Quiet
  <2>1. PICK view : call' = [call EXCEPT ![c] = At("findings", view, <<>>)]
    BY <1>4 DEF LoadNeighbours
  <2>. QED  BY <1>4, <1>q, <2>1 DEF LoadNeighbours, At, store
<1>5. ASSUME NEW c \in Call, InsertRun(c)
      PROVE  Quiet
  BY <1>5, <1>p, <1>u DEF InsertRun, Open
<1>6. ASSUME NEW c \in Call, Acknowledge(c)
      PROVE  Quiet
  BY <1>6, <1>d DEF Acknowledge
<1>7. ASSUME NEW c \in Call, Rollback(c)
      PROVE  Quiet
  BY <1>7, <1>u DEF Rollback
<1>8. ASSUME NEW c \in Call, Recheck(c)
      PROVE  Quiet
  BY <1>8, <1>d, <1>r DEF Recheck
<1>9. ASSUME NEW c \in Call, ListResults(c)
      PROVE  Quiet
  BY <1>9, <1>d DEF ListResults
<1>10. ASSUME NEW c \in Call, ReadFails(c)
       PROVE  Quiet
  BY <1>10, <1>d DEF ReadFails
<1>11. CASE Crash
  <2>1. \A c \in Call : call'[c] = call[c] \/ call'[c] = Done("lost", <<>>)
    BY <1>11 DEF Crash
  <2>. QED  BY <1>11, <2>1 DEF Crash, Quiet, Open, Done, store
<1>12. CASE UNCHANGED <<store, lastId, call>>
  BY <1>12 DEF Quiet, Open, store
<1>. QED  BY <1>1, <1>2, <1>3, <1>4, <1>5, <1>6, <1>7, <1>8, <1>9, <1>10, <1>11, <1>12
          DEF Next, Progress, Finished, EditBoundary, vars, store

\* A quiet step keeps the ids fresh.
LEMMA QuietKeepsFresh ==
    ASSUME IdsAreFresh, Quiet
    PROVE  IdsAreFresh'
<1>1. ASSUME NEW c \in Call, Open(c)', NEW i \in DOMAIN call'[c].ids
      PROVE  Open(c) /\ call'[c].ids = call[c].ids
  BY <1>1 DEF Quiet
<1>2. ASSUME NEW c \in Call, Open(c)', NEW i \in DOMAIN call'[c].ids
      PROVE  /\ call'[c].ids[i] <= lastId'
             /\ \A row \in conflicts' : row.id # call'[c].ids[i]
             /\ \A j \in DOMAIN call'[c].ids : i # j => call'[c].ids[i] # call'[c].ids[j]
             /\ \A d \in Call \ {c} : Open(d)' =>
                   \A j \in DOMAIN call'[d].ids : call'[c].ids[i] # call'[d].ids[j]
  <2>1. Open(c) /\ call'[c].ids = call[c].ids
    BY <1>1, <1>2
  <2>2. ASSUME NEW d \in Call \ {c}, Open(d)', NEW j \in DOMAIN call'[d].ids
        PROVE  call'[c].ids[i] # call'[d].ids[j]
    <3>1. Open(d) /\ call'[d].ids = call[d].ids
      BY <1>1, <2>2
    <3>. QED  BY <1>2, <2>1, <2>2, <3>1 DEF IdsAreFresh
  <2>. QED  BY <1>2, <2>1, <2>2 DEF IdsAreFresh, Quiet
<1>3. \A row \in conflicts' : row.id <= lastId'
  BY DEF IdsAreFresh, Quiet
<1>. QED  BY <1>2, <1>3 DEF IdsAreFresh

\* So does taking the next id of the sequence.
LEMMA TakingKeepsFresh ==
    ASSUME TypeOK, IdsAreFresh, NEW c \in Call, InsertFinding(c)
    PROVE  IdsAreFresh'
<1>0. call \in [Call -> Handler]
  BY DEF TypeOK, Handler
<1>. DEFINE old == call[c].ids
<1>1. /\ Open(c) /\ lastId' = lastId + 1 /\ conflicts' = conflicts
      /\ call' = [call EXCEPT ![c].ids = Append(@, lastId + 1)]
      /\ lastId \in Nat
  BY DEF InsertFinding, Open, store, TypeOK
<1>2. old \in Seq(Nat) /\ \A d \in Call : call[d].ids \in Seq(Nat)
  BY <1>0 DEF Handler
<1>3. /\ call'[c].pc = call[c].pc /\ call'[c].ids = Append(old, lastId + 1)
      /\ \A d \in Call \ {c} : call'[d] = call[d]
  BY <1>0, <1>1 DEF Handler
<1>. HIDE DEF old
<1>4. /\ DOMAIN call'[c].ids = 1 .. Len(old) + 1 /\ DOMAIN old = 1 .. Len(old)
      /\ Len(old) \in Nat
      /\ call'[c].ids[Len(old) + 1] = lastId + 1
      /\ \A i \in 1 .. Len(old) : call'[c].ids[i] = old[i]
  BY <1>1, <1>2, <1>3
<1>5. \A d \in Call : Open(d) =>
         \A i \in DOMAIN call[d].ids : call[d].ids[i] \in Nat /\ call[d].ids[i] <= lastId
  BY <1>2 DEF IdsAreFresh
<1>6. \A row \in conflicts : row.id \in Nat /\ row.id <= lastId
  BY DEF IdsAreFresh, TypeOK
<1>7. ASSUME NEW d \in Call, Open(d)'
      PROVE  Open(d)
  BY <1>1, <1>3, <1>7 DEF Open
<1>8. ASSUME NEW d \in Call, Open(d)', NEW i \in DOMAIN call'[d].ids
      PROVE  /\ call'[d].ids[i] \in Nat /\ call'[d].ids[i] <= lastId + 1
             /\ call'[d].ids[i] # lastId + 1 => i \in DOMAIN call[d].ids /\ call'[d].ids[i] = call[d].ids[i]
             /\ call'[d].ids[i] = lastId + 1 => d = c /\ i = Len(old) + 1
  <2>1. CASE d # c
    BY <1>1, <1>3, <1>5, <1>7, <1>8, <2>1
  <2>2. CASE d = c
    BY <1>1, <1>3, <1>4, <1>5, <1>8, <2>2 DEF old
  <2>. QED  BY <2>1, <2>2
<1>9. ASSUME NEW d \in Call, Open(d)', NEW i \in DOMAIN call'[d].ids
      PROVE  /\ call'[d].ids[i] <= lastId'
             /\ \A row \in conflicts' : row.id # call'[d].ids[i]
             /\ \A j \in DOMAIN call'[d].ids : i # j => call'[d].ids[i] # call'[d].ids[j]
             /\ \A e \in Call \ {d} : Open(e)' =>
                   \A j \in DOMAIN call'[e].ids : call'[d].ids[i] # call'[e].ids[j]
  <2>1. Open(d)
    BY <1>7, <1>9
  <2>2. \A row \in conflicts' : row.id # call'[d].ids[i]
    BY <1>1, <1>6, <1>8, <1>9, <2>1 DEF IdsAreFresh
  <2>3. ASSUME NEW j \in DOMAIN call'[d].ids, i # j
        PROVE  call'[d].ids[i] # call'[d].ids[j]
    BY <1>8, <1>9, <2>1, <2>3 DEF IdsAreFresh
  <2>4. ASSUME NEW e \in Call \ {d}, Open(e)', NEW j \in DOMAIN call'[e].ids
        PROVE  call'[d].ids[i] # call'[e].ids[j]
    <3>1. Open(e)
      BY <1>7, <2>4
    <3>. QED  BY <1>8, <1>9, <2>1, <2>4, <3>1 DEF IdsAreFresh
  <2>. QED  BY <1>1, <1>8, <1>9, <2>2, <2>3, <2>4
<1>10. \A row \in conflicts' : row.id <= lastId'
  BY <1>1, <1>6
<1>. QED  BY <1>9, <1>10 DEF IdsAreFresh

\* And COMMIT: the ids it puts into the table are its own, and it is closed.
LEMMA CommitKeepsFresh ==
    ASSUME TypeOK, IdsAreFresh, NEW c \in Call, Commit(c)
    PROVE  IdsAreFresh'
<1>0. call \in [Call -> Handler]
  BY DEF TypeOK, Handler
<1>1. Open(c) /\ lastId' = lastId /\ conflicts' = conflicts \cup Found(c)
  BY DEF Commit, Open
<1>2. call'[c].pc \in {"ack", "recheck"} /\ \A d \in Call \ {c} : call'[d] = call[d]
  BY <1>0 DEF Commit, Undo, At, Handler
<1>3. \A row \in Found(c) : \E i \in DOMAIN call[c].ids : row.id = call[c].ids[i]
  BY DEF Found
<1>4. \A row \in conflicts' : row.id <= lastId'
  BY <1>1, <1>3 DEF IdsAreFresh
<1>5. \A d \in Call : Open(d)' => d # c /\ Open(d) /\ call'[d] = call[d]
  BY <1>2 DEF Open
<1>6. ASSUME NEW d \in Call, Open(d)', NEW i \in DOMAIN call'[d].ids
      PROVE  /\ call'[d].ids[i] <= lastId'
             /\ \A row \in conflicts' : row.id # call'[d].ids[i]
             /\ \A j \in DOMAIN call'[d].ids : i # j => call'[d].ids[i] # call'[d].ids[j]
             /\ \A e \in Call \ {d} : Open(e)' =>
                   \A j \in DOMAIN call'[e].ids : call'[d].ids[i] # call'[e].ids[j]
  <2>1. d # c /\ Open(d) /\ call'[d] = call[d]
    BY <1>5, <1>6
  <2>2. \A row \in Found(c) : row.id # call'[d].ids[i]
    BY <1>1, <1>3, <1>6, <2>1 DEF IdsAreFresh
  <2>. QED  BY <1>1, <1>5, <1>6, <2>1, <2>2 DEF IdsAreFresh
<1>. QED  BY <1>4, <1>6 DEF IdsAreFresh

\* The ids stay fresh.
LEMMA StepIdsAreFresh == TypeOK /\ IdsAreFresh /\ [Next]_vars => IdsAreFresh'
BY StepsOfTheStore, QuietKeepsFresh, TakingKeepsFresh, CommitKeepsFresh

-----------------------------------------------------------------------------
(* Who owns a row *)

\* A detection event for every row, a completion event for every run.
EventsOf(rows, completed) ==
    {[event |-> "conflict.detected", entity |-> <<row.id>>] : row \in rows}
        \cup {[event |-> "conflict.detection_completed", entity |-> <<run.actor, run.key>>] :
                  run \in completed}

\* A transaction brings its rows and its run together, or neither.
LEMMA CommitOwns ==
    ASSUME TypeOK, IdsAreFresh, RunsOwnTheirConflicts, NEW c \in Call, Commit(c)
    PROVE  RunsOwnTheirConflicts'
<1>. DEFINE new == Run(c)
            ids == call[c].ids
<1>1. /\ conflicts' = conflicts \cup Found(c) /\ runs' = runs \cup {new}
      /\ audits' = audits \cup Audited(c) /\ Open(c)
  BY DEF Commit, Open
<1>2. /\ new.ids = ids /\ new.request = RequestOf[c] /\ new.view = call[c].view
      /\ new.actor = ActorOf[c] /\ new.key = KeyOf[c]
  BY DEF Run
<1>3. /\ \A row \in Found(c) : /\ \E i \in DOMAIN ids : ids[i] = row.id
                               /\ row.request = RequestOf[c] /\ row.view = call[c].view
      /\ \A i \in DOMAIN ids : \E row \in Found(c) : row.id = ids[i]
  <2>. DEFINE Row(i) == [id |-> ids[i], request |-> RequestOf[c], view |-> call[c].view]
  <2>1. Found(c) = {Row(i) : i \in DOMAIN ids}
    BY DEF Found
  <2>2. \A i : /\ Row(i).id = ids[i] /\ Row(i).request = RequestOf[c]
               /\ Row(i).view = call[c].view
    OBVIOUS
  <2>. HIDE DEF Row, ids
  <2>. QED  BY <2>1, <2>2
<1>4. \A i \in DOMAIN ids : /\ \A row \in conflicts : row.id # ids[i]
                            /\ \A j \in DOMAIN ids : i # j => ids[i] # ids[j]
  BY <1>1 DEF IdsAreFresh
<1>. HIDE DEF new, ids
<1>5. ASSUME NEW row \in conflicts'
      PROVE  \E run \in runs' : /\ \E i \in DOMAIN run.ids : run.ids[i] = row.id
                                /\ row.request = run.request /\ row.view = run.view
  <2>1. CASE row \in conflicts
    BY <1>1, <2>1 DEF RunsOwnTheirConflicts
  <2>2. CASE row \in Found(c)
    BY <1>1, <1>2, <1>3, <2>2
  <2>. QED  BY <1>1, <1>5, <2>1, <2>2
<1>6. ASSUME NEW run \in runs, NEW i \in DOMAIN run.ids, NEW j \in DOMAIN ids
      PROVE  run.ids[i] # ids[j]
  <2>1. PICK row \in conflicts : row.id = run.ids[i]
    BY <1>6 DEF RunsOwnTheirConflicts
  <2>. QED  BY <1>4, <1>6, <2>1
<1>7. ASSUME NEW run \in runs', NEW i \in DOMAIN run.ids
      PROVE  /\ \E row \in conflicts' : row.id = run.ids[i]
             /\ \A j \in DOMAIN run.ids : i # j => run.ids[i] # run.ids[j]
             /\ \A other \in runs' \ {run} :
                   \A j \in DOMAIN other.ids : run.ids[i] # other.ids[j]
  <2>1. CASE run \in runs
    <3>1. \A other \in runs' \ {run} : \A j \in DOMAIN other.ids : run.ids[i] # other.ids[j]
      BY <1>1, <1>2, <1>6, <1>7, <2>1 DEF RunsOwnTheirConflicts
    <3>. QED  BY <1>1, <1>7, <2>1, <3>1 DEF RunsOwnTheirConflicts
  <2>2. CASE run = new
    <3>1. i \in DOMAIN ids /\ run.ids = ids
      BY <1>2, <1>7, <2>2
    <3>2. \A other \in runs' \ {run} : \A j \in DOMAIN other.ids : run.ids[i] # other.ids[j]
      BY <1>1, <1>6, <2>2, <3>1
    <3>. QED  BY <1>1, <1>3, <1>4, <3>1, <3>2
  <2>. QED  BY <1>1, <1>7, <2>1, <2>2
<1>8. audits = EventsOf(conflicts, runs)
  BY DEF RunsOwnTheirConflicts, EventsOf
<1>9. Audited(c) = EventsOf(Found(c), {new})
  BY <1>2 DEF Audited, EventsOf
<1>10. audits' = EventsOf(conflicts', runs')
  <2>1. EventsOf(conflicts \cup Found(c), runs \cup {new})
           = EventsOf(conflicts, runs) \cup EventsOf(Found(c), {new})
    BY DEF EventsOf
  <2>. QED  BY <1>1, <1>8, <1>9, <2>1, Zenon
<1>. QED  BY <1>5, <1>7, <1>10 DEF RunsOwnTheirConflicts, EventsOf

\* The store and the audit events stay in step.
LEMMA StepRunsOwn ==
    TypeOK /\ IdsAreFresh /\ RunsOwnTheirConflicts /\ [Next]_vars => RunsOwnTheirConflicts'
<1>. SUFFICES ASSUME TypeOK, IdsAreFresh, RunsOwnTheirConflicts, [Next]_vars
              PROVE  RunsOwnTheirConflicts'
  OBVIOUS
<1>1. ASSUME conflicts' = conflicts, runs' = runs, audits' = audits
      PROVE  RunsOwnTheirConflicts'
  BY <1>1 DEF RunsOwnTheirConflicts
<1>2. ASSUME NEW c \in Call, InsertFinding(c)
      PROVE  RunsOwnTheirConflicts'
  BY <1>1, <1>2 DEF InsertFinding, store
<1>3. CASE Quiet
  BY <1>1, <1>3 DEF Quiet
<1>. QED  BY <1>2, <1>3, CommitOwns, StepsOfTheStore

-----------------------------------------------------------------------------
(* Theorems *)

StoreSound == Sound /\ IdsAreFresh /\ RunsOwnTheirConflicts

\* The empty store is in order.
LEMMA StoreInitially == Init => StoreSound
<1>. SUFFICES ASSUME Init
              PROVE  IdsAreFresh /\ RunsOwnTheirConflicts
  BY InitSound DEF StoreSound
<1>1. IdsAreFresh
  BY DEF Init, IdsAreFresh, Open, At
<1>2. RunsOwnTheirConflicts
  BY DEF Init, RunsOwnTheirConflicts
<1>. QED  BY <1>1, <1>2

\* And stays so.
LEMMA StoreAlways == Spec => []StoreSound
<1>1. StoreSound /\ [Next]_vars => StoreSound'
  BY StepSound, StepIdsAreFresh, StepRunsOwn DEF StoreSound, Sound
<1>. QED  BY <1>1, StoreInitially, PTL DEF Spec

\* The transaction of DetectConflicts is all or nothing: rows, run and audit
\* events are there together, and no row belongs to two results, although ids
\* are taken from a sequence that no rollback turns back.
THEOREM StoreIsOwned == Spec => []RunsOwnTheirConflicts
<1>1. StoreSound => RunsOwnTheirConflicts
  BY DEF StoreSound
<1>. QED  BY <1>1, StoreAlways, PTL

\* A stored result can always be loaded (ListByIDs), as the rows of a run are
\* in the table for ever.
THEOREM ReplaysAreComplete == Spec => []ReplayIsComplete
<1>1. StoreSound => ReplayIsComplete
  <2>. SUFFICES ASSUME StoreSound, NEW c \in Call, call[c].pc = "replay",
                       NEW i \in DOMAIN call[c].ids
                PROVE  \E row \in conflicts : row.id = call[c].ids[i]
    BY DEF ReplayIsComplete
  <2>1. PICK run \in StoredRuns(c) : run.ids = call[c].ids
    BY DEF StoreSound, Sound, HandlerSound
  <2>2. run \in runs
    BY DEF StoredRuns
  <2>. QED  BY <2>1, <2>2 DEF StoreSound, RunsOwnTheirConflicts
<1>. QED  BY <1>1, StoreAlways, PTL

-----------------------------------------------------------------------------
(* Progress *)

\* How far a handler has come.
Rank(pc) ==
    CASE pc = "idle"       -> 0  [] pc = "key"      -> 1  [] pc = "parcel" -> 2
      [] pc = "neighbours" -> 3  [] pc = "findings" -> 4  [] pc = "commit" -> 5
      [] pc = "ack"        -> 6  [] pc = "recheck"  -> 7  [] pc = "replay" -> 8
      [] pc = "done"       -> 9

\* A step of a call takes it further, or writes one more of the findings of the
\* boundaries it has read.
Advances(c) ==
    \/ call'[c] = call[c]
    \/ Rank(call'[c].pc) > Rank(call[c].pc)
    \/ /\ call[c].pc = "findings" /\ call'[c].pc = "findings"
       /\ call'[c].view = call[c].view
       /\ Len(call[c].ids) < Findings(c)
       /\ Len(call'[c].ids) = Len(call[c].ids) + 1

\* A handler moved to another place.
LEMMA Moved ==
    ASSUME TypeOK, NEW c \in Call, NEW h, call' = [call EXCEPT ![c] = h],
           Rank(h.pc) > Rank(call[c].pc)
    PROVE  \A d \in Call : Advances(d)
BY DEF TypeOK, Advances

\* A call never goes back: no failure, race or crash makes it look up its key,
\* read the parcels or write its run a second time.
CallsOnlyAdvance == [][\A c \in Call : Advances(c)]_vars

LEMMA StepAdvances == TypeOK /\ [Next]_vars => \A c \in Call : Advances(c)
<1>. SUFFICES ASSUME TypeOK, [Next]_vars  PROVE \A c \in Call : Advances(c)
  OBVIOUS
<1>1. ASSUME NEW c \in Call, NEW pc \in Stages, Rank(pc) > Rank(call[c].pc),
             call' = [call EXCEPT ![c].pc = pc]
      PROVE  \A d \in Call : Advances(d)
  <2>. DEFINE h == [call[c] EXCEPT !.pc = pc]
  <2>1. call' = [call EXCEPT ![c] = h] /\ h.pc = pc
    BY <1>1 DEF TypeOK
  <2>. HIDE DEF h
  <2>. QED  BY <1>1, <2>1, Moved
<1>2. ASSUME NEW c \in Call, NEW pc \in Stages, NEW view, NEW ids,
             Rank(pc) > Rank(call[c].pc), call' = [call EXCEPT ![c] = At(pc, view, ids)]
      PROVE  \A d \in Call : Advances(d)
  <2>1. At(pc, view, ids).pc = pc
    BY DEF At
  <2>. QED  BY <1>2, <2>1, Moved
<1>3. ASSUME NEW c \in Call, NEW code, NEW ids, call[c].pc # "done", Reply(c, code, ids)
      PROVE  \A d \in Call : Advances(d)
  <2>1. Done(code, ids).pc = "done"
    BY DEF Done
  <2>2. Rank("done") > Rank(call[c].pc)
    BY <1>3 DEF TypeOK, Stages, Rank
  <2>. QED  BY <1>3, <2>1, <2>2, Moved DEF Reply
<1>4. ASSUME NEW c \in Call, call[c].pc \in {"findings", "commit"}, Undo(c)
      PROVE  \A d \in Call : Advances(d)
  <2>1. "recheck" \in Stages /\ Rank("recheck") > Rank(call[c].pc)
    BY <1>4 DEF Rank, Stages
  <2>. QED  BY <1>2, <1>4, <2>1 DEF Undo
<1>5. ASSUME NEW c \in Call, call[c].pc \in {"key", "recheck"}, ReplayRun(c)
      PROVE  \A d \in Call : Advances(d)
  BY <1>2, <1>3, <1>5 DEF ReplayRun, Rank, Stages
<1>6. ASSUME NEW c \in Call, InsertFinding(c)
      PROVE  \A d \in Call : Advances(d)
  <2>1. /\ \A d \in Call \ {c} : call'[d] = call[d]
        /\ call'[c].pc = call[c].pc /\ call'[c].view = call[c].view
        /\ call'[c].ids = Append(call[c].ids, lastId + 1)
        /\ call[c].ids \in Seq(Nat) /\ lastId + 1 \in Nat
    BY <1>6 DEF InsertFinding, TypeOK
  <2>2. Len(call'[c].ids) = Len(call[c].ids) + 1
    BY <2>1
  <2>. QED  BY <1>6, <2>1, <2>2 DEF InsertFinding, Advances
<1>7. ASSUME NEW c \in Call, Send(c) \/ CheckKey(c) \/ LoadParcel(c) \/ LoadNeighbours(c)
      PROVE  \A d \in Call : Advances(d)
  BY <1>1, <1>2, <1>5, <1>7 DEF Send, CheckKey, LoadParcel, LoadNeighbours, Rank, Stages
<1>8. ASSUME NEW c \in Call, InsertRun(c) \/ Commit(c) \/ Rollback(c)
      PROVE  \A d \in Call : Advances(d)
  BY <1>1, <1>4, <1>8 DEF InsertRun, Commit, Rollback, Rank, Stages
<1>9. ASSUME NEW c \in Call, Acknowledge(c) \/ Recheck(c) \/ ListResults(c) \/ ReadFails(c)
      PROVE  \A d \in Call : Advances(d)
  BY <1>3, <1>5, <1>9 DEF Acknowledge, Recheck, ListResults, ReadFails
<1>10. ASSUME Crash
       PROVE  \A d \in Call : Advances(d)
  <2>. SUFFICES ASSUME NEW d \in Call  PROVE Advances(d)
    OBVIOUS
  <2>1. CASE call[d].pc \in {"idle", "done"}
    BY <1>10, <2>1 DEF Crash, Advances
  <2>2. CASE call[d].pc \notin {"idle", "done"}
    <3>1. call'[d].pc = "done"
      BY <1>10, <2>2 DEF Crash, Done
    <3>2. Rank("done") > Rank(call[d].pc)
      BY <2>2 DEF TypeOK, Stages, Rank
    <3>. QED  BY <3>1, <3>2 DEF Advances
  <2>. QED  BY <2>1, <2>2
<1>11. ASSUME call' = call
       PROVE  \A d \in Call : Advances(d)
  BY <1>11 DEF Advances
<1>. QED
  BY <1>6, <1>7, <1>8, <1>9, <1>10, <1>11
     DEF Next, Progress, EditBoundary, Finished, vars

\* What is not liveness in Answered, for any number of calls, findings, edits
\* and crashes: every step DetectConflicts takes for a call is one it will not
\* take again, or the insertion of the next of finitely many findings.
THEOREM CallsNeverGoBack == Spec => CallsOnlyAdvance
<1>1. TypeOK /\ [Next]_vars => [\A c \in Call : Advances(c)]_vars
  BY StepAdvances
<1>. QED  BY <1>1, TypeCorrect, PTL DEF Spec, CallsOnlyAdvance

-----------------------------------------------------------------------------
(* What a result is a result of *)

\* The subject's boundary is that of some moment up to now ...
SubjectReadBy(n, view, r) ==
    \E m \in 0 .. n : view[SubjectOf[r]] = VersionAfter(m, SubjectOf[r])

\* ... and all the neighbours' are those of one moment, not before it.
TwoReads(view, r) ==
    \E n \in 0 .. Len(edits) :
        /\ SubjectReadBy(n, view, r)
        /\ \A p \in ParcelId \ {SubjectOf[r]} : view[p] = VersionAfter(n, p)

\* A result set is that of two reads, the subject and then its neighbours at
\* once, and it has a conflict for every finding on these boundaries.
ResultsOfTwoReads ==
    \A run \in runs : /\ TwoReads(run.view, run.request)
                      /\ Len(run.ids) = FindingCount(run.request, run.view)

\* What a handler holds on its way there.
ReadSound(h, r) ==
    /\ h.pc = "neighbours" => SubjectReadBy(Len(edits), h.view, r)
    /\ h.pc \in {"findings", "commit"} => TwoReads(h.view, r)
    /\ h.pc = "commit" => Len(h.ids) = FindingCount(r, h.view)

ReadsSound == \A c \in Call : ReadSound(call[c], RequestOf[c])

\* Edits are only appended, so the versions of a moment stay what they were.
LEMMA PastIsPast ==
    ASSUME TypeOK, edits' = edits \/ \E q \in ParcelId : edits' = Append(edits, q)
    PROVE  /\ Len(edits) \in Nat /\ Len(edits') \in Nat /\ Len(edits) <= Len(edits')
           /\ \A n \in 0 .. Len(edits) : \A p : VersionAfter(n, p)' = VersionAfter(n, p)
<1>1. /\ Len(edits) \in Nat /\ Len(edits') \in Nat /\ Len(edits) <= Len(edits')
      /\ \A i \in 1 .. Len(edits) : edits'[i] = edits[i]
  <2>1. edits \in Seq(ParcelId)
    BY DEF TypeOK
  <2>2. CASE edits' = edits
    BY <2>1, <2>2
  <2>3. ASSUME NEW q \in ParcelId, edits' = Append(edits, q)
        PROVE  /\ Len(edits') = Len(edits) + 1
               /\ \A i \in 1 .. Len(edits) : edits'[i] = edits[i]
    BY <2>1, <2>3
  <2>. QED  BY <2>1, <2>2, <2>3
<1>2. ASSUME NEW n \in 0 .. Len(edits), NEW p
      PROVE  VersionAfter(n, p)' = VersionAfter(n, p)
  <2>1. {i \in 1 .. n : edits'[i] = p} = {i \in 1 .. n : edits[i] = p}
    BY <1>1
  <2>. QED  BY <2>1 DEF VersionAfter
<1>. QED  BY <1>1, <1>2

LEMMA ReadsKept ==
    ASSUME TypeOK, edits' = edits \/ \E q \in ParcelId : edits' = Append(edits, q)
    PROVE  \A view, r : /\ SubjectReadBy(Len(edits), view, r)
                              => SubjectReadBy(Len(edits), view, r)'
                        /\ TwoReads(view, r) => TwoReads(view, r)'
<1>. SUFFICES ASSUME NEW view, NEW r
              PROVE  /\ SubjectReadBy(Len(edits), view, r)
                           => SubjectReadBy(Len(edits), view, r)'
                     /\ TwoReads(view, r) => TwoReads(view, r)'
  OBVIOUS
<1>1. /\ Len(edits) \in Nat /\ Len(edits') \in Nat /\ Len(edits) <= Len(edits')
      /\ \A n \in 0 .. Len(edits) : \A p : VersionAfter(n, p)' = VersionAfter(n, p)
  BY PastIsPast
<1>2. ASSUME NEW n \in 0 .. Len(edits), SubjectReadBy(n, view, r)
      PROVE  /\ SubjectReadBy(n, view, r)'
             /\ SubjectReadBy(Len(edits), view, r)'
  <2>1. PICK m \in 0 .. n : view[SubjectOf[r]] = VersionAfter(m, SubjectOf[r])
    BY <1>2 DEF SubjectReadBy
  <2>2. m \in 0 .. Len(edits) /\ m \in 0 .. Len(edits')
    BY <1>1
  <2>3. view[SubjectOf[r]] = VersionAfter(m, SubjectOf[r])'
    BY <1>1, <2>1, <2>2
  <2>. QED  BY <2>2, <2>3 DEF SubjectReadBy
<1>3. SubjectReadBy(Len(edits), view, r) => SubjectReadBy(Len(edits), view, r)'
  BY <1>1, <1>2
<1>4. ASSUME TwoReads(view, r)  PROVE TwoReads(view, r)'
  <2>1. PICK n \in 0 .. Len(edits) :
          /\ SubjectReadBy(n, view, r)
          /\ \A p \in ParcelId \ {SubjectOf[r]} : view[p] = VersionAfter(n, p)
    BY <1>4 DEF TwoReads
  <2>2. n \in 0 .. Len(edits')
    BY <1>1
  <2>3. \A p \in ParcelId \ {SubjectOf[r]} : view[p] = VersionAfter(n, p)'
    BY <1>1, <2>1
  <2>. QED  BY <1>2, <2>1, <2>2, <2>3 DEF TwoReads
<1>. QED  BY <1>3, <1>4

\* A handler that a step leaves alone stays right about its reads.
LEMMA ReadSoundKept ==
    ASSUME TypeOK, edits' = edits \/ \E q \in ParcelId : edits' = Append(edits, q),
           NEW h, NEW r, ReadSound(h, r)
    PROVE  ReadSound(h, r)'
BY ReadsKept DEF ReadSound

\* What CheckKey, a failure or a crash make of a handler has read nothing.
LEMMA NothingRead ==
    ASSUME NEW h, NEW r, h.pc \notin {"neighbours", "findings", "commit"}
    PROVE  ReadSound(h, r)'
BY DEF ReadSound

\* The step of one handler that leaves the runs and the edits alone.
LEMMA HandlerReads ==
    ASSUME TypeOK, ReadsSound, NEW c \in Call, NEW h, call' = [call EXCEPT ![c] = h],
           edits' = edits, ReadSound(h, RequestOf[c])'
    PROVE  ReadsSound'
<1>1. \A d \in Call \ {c} : call'[d] = call[d]
  BY DEF TypeOK
<1>2. call'[c] = h
  BY DEF TypeOK
<1>3. ASSUME NEW d \in Call \ {c}  PROVE ReadSound(call[d], RequestOf[d])'
  BY <1>3, <1>1, ReadSoundKept DEF ReadsSound
<1>. QED  BY <1>1, <1>2, <1>3 DEF ReadsSound

\* Reading the parcel, and then its neighbours.
LEMMA ParcelRead ==
    ASSUME TypeOK, NEW view \in View, NEW r \in Request
    PROVE  SubjectReadBy(Len(edits), [view EXCEPT ![SubjectOf[r]] = Version(SubjectOf[r])], r)
<1>1. SubjectOf[r] \in ParcelId
  BY DetectionAssumption
<1>2. [view EXCEPT ![SubjectOf[r]] = Version(SubjectOf[r])][SubjectOf[r]] = Version(SubjectOf[r])
  BY <1>1 DEF View
<1>3. Len(edits) \in 0 .. Len(edits)
  BY DEF TypeOK
<1>. QED  BY <1>2, <1>3 DEF SubjectReadBy, Version

LEMMA NeighboursRead ==
    ASSUME TypeOK, NEW view \in View, NEW r \in Request, SubjectReadBy(Len(edits), view, r)
    PROVE  TwoReads([p \in ParcelId |-> IF p = SubjectOf[r] THEN view[p] ELSE Version(p)], r)
<1>. DEFINE seen == [p \in ParcelId |-> IF p = SubjectOf[r] THEN view[p] ELSE Version(p)]
<1>1. SubjectOf[r] \in ParcelId
  BY DetectionAssumption
<1>2. seen[SubjectOf[r]] = view[SubjectOf[r]]
  BY <1>1
<1>3. \A p \in ParcelId \ {SubjectOf[r]} : seen[p] = VersionAfter(Len(edits), p)
  BY DEF Version
<1>4. SubjectReadBy(Len(edits), seen, r)
  BY <1>2 DEF SubjectReadBy
<1>5. Len(edits) \in 0 .. Len(edits)
  BY DEF TypeOK
<1>. HIDE DEF seen
<1>6. TwoReads(seen, r)
  BY <1>3, <1>4, <1>5 DEF TwoReads
<1>. QED  BY <1>6 DEF seen

LEMMA StepReads ==
    TypeOK /\ ReadsSound /\ ResultsOfTwoReads /\ [Next]_vars => ReadsSound' /\ ResultsOfTwoReads'
<1>. SUFFICES ASSUME TypeOK, ReadsSound, ResultsOfTwoReads, [Next]_vars
              PROVE  ReadsSound' /\ ResultsOfTwoReads'
  OBVIOUS
<1>0. call \in [Call -> Handler] /\ \A c \in Call : RequestOf[c] \in Request
  BY DetectionAssumption DEF TypeOK, Handler
<1>a. ASSUME runs' = runs, edits' = edits \/ \E q \in ParcelId : edits' = Append(edits, q)
      PROVE  ResultsOfTwoReads'
  BY <1>a, ReadsKept DEF ResultsOfTwoReads
<1>h. ASSUME NEW c \in Call, NEW h, call' = [call EXCEPT ![c] = h],
             h.pc \notin {"neighbours", "findings", "commit"}, UNCHANGED <<edits, runs>>
      PROVE  ReadsSound' /\ ResultsOfTwoReads'
  BY <1>a, <1>h, HandlerReads, NothingRead
<1>d. ASSUME NEW c \in Call, NEW code, NEW ids, Reply(c, code, ids), UNCHANGED <<edits, runs>>
      PROVE  ReadsSound' /\ ResultsOfTwoReads'
  BY <1>d, <1>h DEF Reply, Done
<1>u. ASSUME NEW c \in Call, Undo(c), UNCHANGED <<edits, runs>>
      PROVE  ReadsSound' /\ ResultsOfTwoReads'
  BY <1>u, <1>h DEF Undo, At
<1>p. ASSUME NEW c \in Call, NEW pc, call' = [call EXCEPT ![c].pc = pc],
             pc \notin {"neighbours", "findings", "commit"}, UNCHANGED <<edits, runs>>
      PROVE  ReadsSound' /\ ResultsOfTwoReads'
  <2>. DEFINE h == [call[c] EXCEPT !.pc = pc]
  <2>1. call' = [call EXCEPT ![c] = h] /\ h.pc = pc
    BY <1>0, <1>p DEF Handler
  <2>. HIDE DEF h
  <2>. QED  BY <1>p, <1>h, <2>1
<1>r. ASSUME NEW c \in Call, ReplayRun(c), UNCHANGED <<edits, runs>>
      PROVE  ReadsSound' /\ ResultsOfTwoReads'
  <2>1. \/ \E ids : call' = [call EXCEPT ![c] = At("replay", Unread, ids)]
        \/ Reply(c, "conflict", <<>>)
    BY <1>r DEF ReplayRun
  <2>. QED  BY <1>d, <1>h, <1>r, <2>1 DEF At
<1>1. ASSUME NEW c \in Call, Send(c) \/ CheckKey(c)
      PROVE  ReadsSound' /\ ResultsOfTwoReads'
  BY <1>1, <1>p, <1>r DEF Send, CheckKey, store
<1>2. ASSUME NEW c \in Call, Acknowledge(c) \/ Recheck(c) \/ ListResults(c) \/ ReadFails(c)
      PROVE  ReadsSound' /\ ResultsOfTwoReads'
  BY <1>2, <1>d, <1>r DEF Acknowledge, Recheck, ListResults, ReadFails, store
<1>3. ASSUME NEW c \in Call, Rollback(c)
      PROVE  ReadsSound' /\ ResultsOfTwoReads'
  BY <1>3, <1>u DEF Rollback, store
<1>4. ASSUME NEW c \in Call, LoadParcel(c)
      PROVE  ReadsSound' /\ ResultsOfTwoReads'
  <2>. DEFINE subject == SubjectOf[RequestOf[c]]
              view == [call[c].view EXCEPT ![subject] = Version(subject)]
              h == At("neighbours", view, <<>>)
  <2>1. SubjectReadBy(Len(edits), view, RequestOf[c])
    BY <1>0, ParcelRead DEF Handler
  <2>2. call' = [call EXCEPT ![c] = h] /\ edits' = edits /\ runs' = runs
    BY <1>4 DEF LoadParcel, store
  <2>3. h.pc = "neighbours" /\ h.view = view
    BY DEF At
  <2>. HIDE DEF h
  <2>4. ReadSound(h, RequestOf[c])
    BY <2>1, <2>3 DEF ReadSound
  <2>. QED  BY <1>a, <2>2, <2>4, HandlerReads, ReadSoundKept
<1>5. ASSUME NEW c \in Call, LoadNeighbours(c)
      PROVE  ReadsSound' /\ ResultsOfTwoReads'
  <2>. DEFINE view == [p \in ParcelId |->
                IF p = SubjectOf[RequestOf[c]] THEN call[c].view[p] ELSE Version(p)]
              h == At("findings", view, <<>>)
  <2>1. SubjectReadBy(Len(edits), call[c].view, RequestOf[c])
    BY <1>5 DEF LoadNeighbours, ReadsSound, ReadSound
  <2>2. TwoReads(view, RequestOf[c])
    BY <1>0, <2>1, NeighboursRead DEF Handler
  <2>3. call' = [call EXCEPT ![c] = h] /\ edits' = edits /\ runs' = runs
    BY <1>5 DEF LoadNeighbours, store
  <2>4. h.pc = "findings" /\ h.view = view
    BY DEF At
  <2>. HIDE DEF h, view
  <2>5. ReadSound(h, RequestOf[c])
    BY <2>2, <2>4 DEF ReadSound
  <2>. QED  BY <1>a, <2>3, <2>5, HandlerReads, ReadSoundKept
<1>6. ASSUME NEW c \in Call, InsertFinding(c)
      PROVE  ReadsSound' /\ ResultsOfTwoReads'
  <2>. DEFINE h == [call[c] EXCEPT !.ids = Append(@, lastId + 1)]
  <2>1. /\ call' = [call EXCEPT ![c] = h] /\ edits' = edits /\ runs' = runs
        /\ h.pc = "findings" /\ call[c].pc = "findings" /\ h.view = call[c].view
    BY <1>0, <1>6 DEF InsertFinding, store, Handler
  <2>. HIDE DEF h
  <2>2. ReadSound(h, RequestOf[c])
    BY <2>1 DEF ReadsSound, ReadSound
  <2>. QED  BY <1>a, <2>1, <2>2, HandlerReads, ReadSoundKept
<1>7. ASSUME NEW c \in Call, InsertRun(c)
      PROVE  ReadsSound' /\ ResultsOfTwoReads'
  <2>. DEFINE h == [call[c] EXCEPT !.pc = "commit"]
  <2>1. CASE call' = [call EXCEPT ![c].pc = "commit"]
    <3>1. /\ call' = [call EXCEPT ![c] = h] /\ edits' = edits /\ runs' = runs
          /\ h.pc = "commit" /\ h.view = call[c].view /\ h.ids = call[c].ids
          /\ call[c].pc = "findings" /\ Len(call[c].ids) = Findings(c)
      BY <1>0, <1>7, <2>1 DEF InsertRun, store, Handler
    <3>. HIDE DEF h
    <3>2. ReadSound(h, RequestOf[c])
      BY <3>1 DEF ReadsSound, ReadSound, Findings
    <3>. QED  BY <1>a, <3>1, <3>2, HandlerReads, ReadSoundKept
  <2>. QED  BY <1>7, <1>u, <2>1 DEF InsertRun, store
<1>8. ASSUME NEW c \in Call, Commit(c)
      PROVE  ReadsSound' /\ ResultsOfTwoReads'
  <2>1. /\ edits' = edits /\ runs' = runs \cup {Run(c)} /\ call[c].pc = "commit"
        /\ \/ call' = [call EXCEPT ![c] = [call[c] EXCEPT !.pc = "ack"]]
           \/ call' = [call EXCEPT ![c] = At("recheck", Unread, <<>>)]
    BY <1>0, <1>8 DEF Commit, Undo, Handler
  <2>2. /\ [call[c] EXCEPT !.pc = "ack"].pc = "ack"
        /\ At("recheck", Unread, <<>>).pc = "recheck"
    BY <1>0 DEF At, Handler
  <2>3. ReadsSound'
    BY <2>1, <2>2, HandlerReads, NothingRead
  <2>4. /\ TwoReads(Run(c).view, Run(c).request)
        /\ Len(Run(c).ids) = FindingCount(Run(c).request, Run(c).view)
    BY <2>1 DEF ReadsSound, ReadSound, Run
  <2>5. \A run \in runs' : /\ TwoReads(run.view, run.request)
                           /\ Len(run.ids) = FindingCount(run.request, run.view)
    BY <2>1, <2>4 DEF ResultsOfTwoReads
  <2>6. ResultsOfTwoReads'
    BY <2>1, <2>5, ReadsKept DEF ResultsOfTwoReads
  <2>. QED  BY <2>3, <2>6
<1>9. CASE Crash
  <2>1. /\ edits' = edits /\ runs' = runs
        /\ \A c \in Call : call'[c] = call[c] \/ call'[c].pc = "done"
    BY <1>9 DEF Crash, Done, store
  <2>2. ASSUME NEW c \in Call  PROVE ReadSound(call[c], RequestOf[c])'
    <3>1. CASE call'[c] = call[c]
      BY <2>1, <3>1, ReadSoundKept DEF ReadsSound
    <3>2. CASE call'[c].pc = "done"
      BY <3>2 DEF ReadSound
    <3>. QED  BY <2>1, <3>1, <3>2
  <2>. QED  BY <1>a, <2>1, <2>2 DEF ReadsSound
<1>10. ASSUME runs' = runs, call' = call,
              edits' = edits \/ \E q \in ParcelId : edits' = Append(edits, q)
       PROVE  ReadsSound' /\ ResultsOfTwoReads'
  BY <1>a, <1>10, ReadSoundKept DEF ReadsSound
<1>11. CASE (\E p \in ParcelId : EditBoundary(p)) \/ Finished \/ UNCHANGED vars
  BY <1>10, <1>11 DEF EditBoundary, Finished, vars, store
<1>. QED
  BY <1>1, <1>2, <1>3, <1>4, <1>5, <1>6, <1>7, <1>8, <1>9, <1>11 DEF Next, Progress

\* What DetectConflicts guarantees in place of a snapshot, for any number of
\* edits in between: the subject's boundary is of one moment, the neighbours'
\* of one that is not earlier, and the run holds a conflict for every finding
\* on them, neither more nor fewer, however often the call was tried.
THEOREM ResultsAreOfTwoReads == Spec => []ResultsOfTwoReads
<1>1. Init => ReadsSound /\ ResultsOfTwoReads
  BY DEF Init, At, ReadsSound, ReadSound, ResultsOfTwoReads
<1>2. TypeOK /\ ReadsSound /\ ResultsOfTwoReads /\ [Next]_vars
         => ReadsSound' /\ ResultsOfTwoReads'
  BY StepReads
<1>. QED  BY <1>1, <1>2, TypeCorrect, PTL DEF Spec
=============================================================================
