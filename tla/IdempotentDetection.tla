------------------------ MODULE IdempotentDetection ------------------------
(***************************************************************************)
(* What an Idempotency-Key promises the client of POST /conflicts/detect.  *)
(*                                                                         *)
(* Every (actor, key) is a register that is written once, with the request *)
(* it was first used for and the ids of the conflicts found.  A call of    *)
(* the same request is answered with those ids, a call of another request  *)
(* with a conflict; any call may also be answered with an error or never   *)
(* be answered, which promises nothing.                                    *)
(***************************************************************************)
CONSTANTS Call, Actor, Key, Request, Result,
          ActorOf, KeyOf, RequestOf,   \* what every call asks for
          Empty                        \* the register no run has written

VARIABLES register,   \* the outcome recorded for every actor and key
          answer      \* what every call was told, "pending" before

abstractVars == <<register, answer>>

Mine(c) == <<ActorOf[c], KeyOf[c]>>

Init ==
    /\ register = [k \in Actor \X Key |-> Empty]
    /\ answer   = [c \in Call |-> [code |-> "pending"]]

\* The register of a call's key is written, with its request and any result.
Record(c) ==
    /\ register[Mine(c)] = Empty
    /\ LET outcome == register'[Mine(c)] IN
          /\ outcome \in [request : {RequestOf[c]}, ids : Result]
          /\ register' = [register EXCEPT ![Mine(c)] = outcome]
    /\ UNCHANGED answer

Ok(c) ==
    /\ register[Mine(c)] # Empty
    /\ register[Mine(c)].request = RequestOf[c]
    /\ answer' = [answer EXCEPT ![c] = [code |-> "ok", ids |-> register[Mine(c)].ids]]

Conflict(c) ==
    /\ register[Mine(c)] # Empty
    /\ register[Mine(c)].request # RequestOf[c]
    /\ answer' = [answer EXCEPT ![c] = [code |-> "conflict"]]

Error(c) == answer' = [answer EXCEPT ![c] = [code |-> "error"]]

Answer(c) ==
    /\ answer[c].code = "pending"
    /\ Ok(c) \/ Conflict(c) \/ Error(c)
    /\ UNCHANGED register

\* A crash leaves every open call unanswered; its connection just breaks.
Next == \E c \in Call : Record(c) \/ Answer(c)

Spec == Init /\ [][Next]_abstractVars
=============================================================================
