------------------------------ MODULE Session ------------------------------
(***************************************************************************)
(* Signed-in clients of instances that come and go (module Bootstrap): the *)
(* token a login issues, and what a request may do with it.  A request     *)
(* checks its token and then reads the account; only then does its handler *)
(* run, with the role the account had at that moment.                      *)
(***************************************************************************)
EXTENDS Bootstrap

CONSTANTS Client,
          TTL,        \* life time of a token
          MaxClock,   \* bound: time
          MaxEdits    \* bound: versions of a boundary

ASSUME SessionAssumption ==
    TTL \in Nat \ {0} /\ MaxClock \in Nat /\ MaxEdits \in Nat

VARIABLES
    clock,
    token,    \* per client what it has stored: account, its role then, expiry
    request   \* per client the request in flight

sessionVars == <<clock, token, request>>
vars == <<bootVars, sessionVars>>

NoToken == [user |-> "none", role |-> "none", expires |-> 0]

\* A request on an instance: the role it has been given, and, for the
\* properties, when it began and how many changes its account had seen.
NoRequest == [stage |-> "none", at |-> "none", role |-> "none", began |-> 0, since |-> 0]

Serving(i) == Stage(i, "serving")

\* An instance takes its requests with it.
CutOff(i) == request' = [c \in Client |-> IF request[c].at = i THEN NoRequest ELSE request[c]]

-----------------------------------------------------------------------------
Init ==
    /\ BootInit
    /\ clock = 0
    /\ token = [c \in Client |-> NoToken]
    /\ request = [c \in Client |-> NoRequest]

\* Login with the right password.  The token names the account and its role.
Login(c, n) ==
    /\ \E i \in Instance : Serving(i)
    /\ token[c] = NoToken
    /\ account[n].active
    /\ token' = [token EXCEPT ![c] = [user |-> n, role |-> account[n].role,
                                      expires |-> clock + TTL]]
    /\ UNCHANGED <<bootVars, clock, request>>

Send(c, i) ==
    /\ Serving(i)
    /\ token[c] # NoToken /\ request[c] = NoRequest
    /\ request' = [request EXCEPT ![c] =
                      [stage |-> "token", at |-> i, role |-> "none", began |-> clock,
                       since |-> Len(changes[token[c].user])]]
    /\ UNCHANGED <<bootVars, clock, token>>

\* 401: the client forgets its token.
Unauthorized(c) ==
    /\ request' = [request EXCEPT ![c] = NoRequest]
    /\ token' = [token EXCEPT ![c] = NoToken]

\* ParseWithClaims
CheckToken(c) ==
    /\ request[c].stage = "token"
    /\ IF clock < token[c].expires
       THEN request' = [request EXCEPT ![c].stage = "account"] /\ UNCHANGED token
       ELSE Unauthorized(c)
    /\ UNCHANGED <<bootVars, clock>>

\* Mutant of ActingRole: the role is the one in the token.
RoleOfToken(c) == token[c].role

\* Authorization follows the current account record.
ActingRole(c) == account[token[c].user].role

\* FindByID, of active accounts.  An error of the database is answered 401
\* just like an account that is missing or not active.
LoadAccount(c) ==
    /\ request[c].stage = "account"
    /\ \/ /\ account[token[c].user].active
          /\ request' = [request EXCEPT ![c].stage = "handler", ![c].role = ActingRole(c)]
          /\ UNCHANGED token
       \/ Unauthorized(c)
    /\ UNCHANGED <<bootVars, clock>>

\* BEFORE INSERT OR UPDATE OF boundary_geojson: the trigger fills the column.
Written(row) ==
    [geojson |-> row.geojson + 1, geom |-> IF trigger THEN row.geojson + 1 ELSE row.geom]

\* The handler behind the middleware, for an editor: a boundary is created or
\* changed.
EditParcel(c, p) ==
    /\ request[c].stage = "handler"
    /\ request[c].role \in EditorRoles
    /\ parcels[p].geojson < MaxEdits
    /\ parcels' = [parcels EXCEPT ![p] = Written(@)]
    /\ request' = [request EXCEPT ![c] = NoRequest]
    /\ UNCHANGED <<schema, account, server, changes, overlapped, strays, outages, clock, token>>

\* Any other end of a request: 403, an error, or nothing to write.
Leave(c) ==
    /\ request[c].stage = "handler"
    /\ request' = [request EXCEPT ![c] = NoRequest]
    /\ UNCHANGED <<bootVars, clock, token>>

Tick ==
    /\ clock < MaxClock
    /\ clock' = clock + 1
    /\ UNCHANGED <<bootVars, token, request>>

Next ==
    \/ \E i \in Instance : (Die(i) \/ Stop(i)) /\ CutOff(i) /\ UNCHANGED <<clock, token>>
    \/ \E i \in Instance : (Start(i) \/ BootStep(i) \/ Drain(i)) /\ UNCHANGED sessionVars
    \/ \E n \in Accounts : ChangeAccount(n) /\ UNCHANGED sessionVars
    \/ \E c \in Client :
          \/ \E n \in Accounts : Login(c, n)
          \/ \E i \in Instance : Send(c, i)
          \/ CheckToken(c) \/ LoadAccount(c) \/ Leave(c)
          \/ \E p \in ParcelId : EditParcel(c, p)
    \/ Tick

\* Containers are restarted, after a deliberate docker stop by whoever stopped
\* them; a start proceeds and a shutdown ends.
Fairness ==
    /\ \A i \in Deployed : WF_vars(Start(i) /\ UNCHANGED sessionVars)
    /\ \A i \in Instance :
        /\ WF_vars(BootStep(i) /\ UNCHANGED sessionVars)
        /\ WF_vars(Stop(i) /\ CutOff(i) /\ UNCHANGED <<clock, token>>)

Spec == Init /\ [][Next]_vars /\ Fairness

-----------------------------------------------------------------------------
(* Correctness *)

\* Authorization follows the current account record: a request in its handler
\* acts with a role its account had, being active, at some moment since the
\* request began, which was before its token expired; a demoted or deactivated
\* account's old token opens nothing to a later request.
AuthorityIsCurrent ==
    \A c \in Client : request[c].stage = "handler" =>
        LET user   == token[c].user
            During == {[role |-> user, active |-> TRUE] : k \in {0} \cap {request[c].since}}
                      \cup {changes[user][k] : k \in DOMAIN changes[user] \cap
                                                    (request[c].since .. Len(changes[user]))}
        IN  /\ [role |-> request[c].role, active |-> TRUE] \in During
            /\ request[c].began < token[c].expires
=============================================================================
