---------------------------- MODULE SessionProofs ----------------------------
(***************************************************************************)
(* Starts and sessions for any number of instances, accounts, parcels and  *)
(* clients, and any number of crashes, strays and changes from outside.    *)
(***************************************************************************)
EXTENDS Session, TLAPS

-----------------------------------------------------------------------------
(* Types *)

BootStages == {"off", "auto_migrate", "drop_constraint", "add_constraint", "add_column",
               "drop_trigger", "create_trigger", "backfill", "find", "create",
               "serving", "draining"}

AccountRow == [role : Roles, active : BOOLEAN]

ServerTypes ==
    server \in [Instance -> [stage : BootStages, seed : DOMAIN Seeds]]

AccountTypes ==
    /\ account \in [Accounts -> AccountRow \cup {NoAccount}]
    /\ changes \in [Accounts -> Seq(AccountRow)]

SchemaTypes ==
    /\ constraint \in {"absent", "legacy", "current"}
    /\ geomColumn \in BOOLEAN /\ trigger \in BOOLEAN /\ overlapped \in BOOLEAN
    /\ parcels \in [ParcelId -> [geojson : Nat, geom : Nat]]

\* A token names an account, and a request in flight carries one.
SessionTypes ==
    /\ clock \in Nat
    /\ token \in [Client -> [user : Accounts \cup {"none"}, role : Roles \cup {"none"}, expires : Nat]]
    /\ request \in [Client -> [stage : {"none", "token", "account", "handler"},
                               at : Instance \cup {"none"}, role : Roles \cup {"none"},
                               began : Nat, since : Nat]]
    /\ \A c \in Client : /\ token[c] # NoToken => token[c].user \in Accounts
                         /\ request[c] # NoRequest => request[c].stage # "none" /\ token[c] # NoToken

Types == ServerTypes /\ AccountTypes /\ SchemaTypes /\ SessionTypes

\* The accounts have names from the roles, and there is one.
LEMMA SeedsAreAccounts ==
    /\ 1 \in DOMAIN Seeds /\ DOMAIN Seeds = 1 .. Len(Seeds) /\ Len(Seeds) \in Nat
    /\ Accounts \subseteq Roles
    /\ \A k \in DOMAIN Seeds : Seeds[k] \in Accounts
    /\ NoAccount \notin AccountRow
<1>1. Seeds \in Seq(Roles) /\ Seeds # <<>>
  BY BootstrapAssumption
<1>2. 1 \in DOMAIN Seeds /\ DOMAIN Seeds = 1 .. Len(Seeds) /\ Len(Seeds) \in Nat
  BY <1>1
<1>3. \A k \in DOMAIN Seeds : Seeds[k] \in Roles
  BY <1>1
<1>4. NoAccount \notin AccountRow
  BY DEF NoAccount, AccountRow, Roles
<1>. QED  BY <1>2, <1>3, <1>4 DEF Accounts

\* A new database or an old one is well-formed, and nobody is signed in.
LEMMA TypesInitially == Init => Types
<1>. SUFFICES ASSUME Init  PROVE Types
  OBVIOUS
<1>. USE DEF Init, BootInit
<1>1. ServerTypes
  BY SeedsAreAccounts DEF ServerTypes, At, BootStages
<1>2. account \in [Accounts -> AccountRow \cup {NoAccount}]
  BY BootstrapAssumption DEF AccountRow
<1>3. changes \in [Accounts -> Seq(AccountRow)]
  BY <1>2
<1>4. SchemaTypes
  <2>1. parcels \in [ParcelId -> [geojson : Nat, geom : Nat]]
    <3>1. [geojson |-> 1, geom |-> NULL] \in [geojson : Nat, geom : Nat]
      BY DEF NULL
    <3>2. NoParcel \in [geojson : Nat, geom : Nat]
      BY DEF NoParcel, NULL
    <3>. QED  BY <3>1, <3>2
  <2>. QED  BY <2>1 DEF SchemaTypes
<1>5. SessionTypes
  BY DEF SessionTypes, NoToken, NoRequest
<1>. QED  BY <1>1, <1>2, <1>3, <1>4, <1>5 DEF Types, AccountTypes

\* The steps that take an instance from one stage to another leave everything
\* of the sessions alone but for the requests they cut off.
Instances(i) ==
    \/ (Die(i) \/ Stop(i)) /\ CutOff(i) /\ UNCHANGED <<clock, token>>
    \/ (Start(i) \/ BootStep(i) \/ Drain(i)) /\ UNCHANGED sessionVars

\* What a client does to the tables: at most it edits a parcel.
Clients(c) ==
    \/ \E n \in Accounts : Login(c, n)
    \/ \E i \in Instance : Send(c, i)
    \/ CheckToken(c) \/ LoadAccount(c) \/ Leave(c)
    \/ \E p \in ParcelId : EditParcel(c, p)

LEMMA StepsByActor ==
    ASSUME [Next]_vars
    PROVE  \/ \E i \in Instance : Instances(i)
           \/ \E n \in Accounts : ChangeAccount(n) /\ UNCHANGED sessionVars
           \/ \E c \in Client : Clients(c)
           \/ Tick
           \/ UNCHANGED vars
BY DEF Next, Instances, Clients

\* A step of an instance moves it to another stage, and no other instance.
LEMMA InstanceMoves ==
    ASSUME ServerTypes, NEW i \in Instance, Instances(i)
    PROVE  /\ ServerTypes'
           /\ \A j \in Instance \ {i} : server'[j] = server[j]
<1>. DEFINE Place == [stage : BootStages, seed : DOMAIN Seeds]
<1>1. ASSUME NEW place \in Place, server' = [server EXCEPT ![i] = place]
      PROVE  ServerTypes' /\ \A j \in Instance \ {i} : server'[j] = server[j]
  BY <1>1 DEF ServerTypes
<1>2. \A stage \in BootStages, k \in DOMAIN Seeds : At(stage, k) \in Place
  BY DEF At
<1>3. ASSUME NEW stage \in BootStages, Goto(i, stage)
      PROVE  ServerTypes' /\ \A j \in Instance \ {i} : server'[j] = server[j]
  BY <1>1, <1>2, <1>3, SeedsAreAccounts DEF Goto
<1>4. ASSUME Exit(i)
      PROVE  ServerTypes' /\ \A j \in Instance \ {i} : server'[j] = server[j]
  BY <1>3, <1>4 DEF Exit, BootStages
<1>5. server[i].seed \in DOMAIN Seeds
  BY DEF ServerTypes
<1>6. ASSUME Seeded(i)
      PROVE  ServerTypes' /\ \A j \in Instance \ {i} : server'[j] = server[j]
  <2>1. server[i].seed # Len(Seeds) => server[i].seed + 1 \in DOMAIN Seeds
    BY <1>5, SeedsAreAccounts
  <2>2. "serving" \in BootStages /\ "find" \in BootStages /\ 1 \in DOMAIN Seeds
    BY SeedsAreAccounts DEF BootStages
  <2>3. PICK place \in Place : server' = [server EXCEPT ![i] = place]
    BY <1>2, <1>6, <2>1, <2>2 DEF Seeded
  <2>. QED  BY <1>1, <2>3
<1>7. ASSUME FindSeed(i)
      PROVE  ServerTypes' /\ \A j \in Instance \ {i} : server'[j] = server[j]
  <2>1. CASE server' = [server EXCEPT ![i].stage = "create"]
    BY <2>1 DEF ServerTypes, BootStages
  <2>. QED  BY <1>6, <1>7, <2>1 DEF FindSeed
<1>8. ASSUME CreateSeed(i)
      PROVE  ServerTypes' /\ \A j \in Instance \ {i} : server'[j] = server[j]
  BY <1>4, <1>6, <1>8 DEF CreateSeed
<1>9. CASE FindSeed(i) \/ CreateSeed(i)
  BY <1>7, <1>8, <1>9
<1>10. CASE /\ ~(FindSeed(i) \/ CreateSeed(i))
            /\ Start(i) \/ BootStep(i) \/ Drain(i) \/ Die(i) \/ Stop(i)
  <2>1. Exit(i) \/ \E stage \in BootStages : Goto(i, stage)
    BY <1>10 DEF Start, BootStep, AutoMigrate, DropConstraint, AddConstraint, AddColumn,
                 DropTrigger, CreateTrigger, Backfill, Drain, Die, Stop, BootStages
  <2>. QED  BY <1>3, <1>4, <2>1
<1>. QED  BY <1>9, <1>10 DEF Instances

\* What the tables of a start may become.
LEMMA InstanceTypes ==
    ASSUME Types, NEW i \in Instance, Instances(i)
    PROVE  Types'
<1>1. ServerTypes'
  BY InstanceMoves DEF Types
<1>2. AccountTypes'
  <2>1. changes' = changes
    BY DEF Instances, Start, BootStep, AutoMigrate, DropConstraint, AddConstraint, AddColumn,
           DropTrigger, CreateTrigger, Backfill, FindSeed, CreateSeed, Drain, Die, Stop
  <2>2. \/ account' = account
        \/ account' = [account EXCEPT ![Seed(i)] = [role |-> Seed(i), active |-> TRUE]]
    BY DEF Instances, Start, BootStep, AutoMigrate, DropConstraint, AddConstraint, AddColumn,
           DropTrigger, CreateTrigger, Backfill, FindSeed, CreateSeed, Drain, Die, Stop
  <2>3. Seed(i) \in Roles
    BY SeedsAreAccounts DEF Seed, Types, ServerTypes
  <2>4. [role |-> Seed(i), active |-> TRUE] \in AccountRow
    BY <2>3 DEF AccountRow
  <2>. QED  BY <2>1, <2>2, <2>4 DEF Types, AccountTypes
<1>3. SchemaTypes'
  <2>1. overlapped' \in BOOLEAN
    BY DEF Types, SchemaTypes, Instances, Start, BootStep, AutoMigrate, DropConstraint, AddConstraint, AddColumn,
           DropTrigger, CreateTrigger, Backfill, FindSeed, CreateSeed, Drain, Die, Stop
  <2>2. /\ constraint' \in {constraint, "absent", "current"}
        /\ geomColumn' \in {geomColumn, TRUE} /\ trigger' \in {trigger, TRUE, FALSE}
        /\ parcels' = parcels \/ parcels' = [p \in ParcelId |-> Filled(parcels[p])]
    BY DEF Instances, Start, BootStep, AutoMigrate, DropConstraint, AddConstraint, AddColumn, schema,
           DropTrigger, TriggerDropped, CreateTrigger, Backfill, FindSeed, CreateSeed, Drain, Die, Stop
  <2>3. \A p \in ParcelId : Filled(parcels[p]) \in [geojson : Nat, geom : Nat]
    BY DEF Types, SchemaTypes, Filled
  <2>. QED  BY <2>1, <2>2, <2>3 DEF Types, SchemaTypes
<1>4. SessionTypes'
  <2>1. /\ clock' = clock /\ token' = token
        /\ request' = request \/ CutOff(i)
    BY DEF Instances, sessionVars
  <2>2. NoRequest \in [stage : {"none", "token", "account", "handler"},
                       at : Instance \cup {"none"}, role : Roles \cup {"none"},
                       began : Nat, since : Nat]
    BY DEF NoRequest
  <2>. QED  BY <2>1, <2>2 DEF Types, SessionTypes, CutOff
<1>. QED  BY <1>1, <1>2, <1>3, <1>4 DEF Types

LEMMA ClientTypes ==
    ASSUME Types, NEW c \in Client, Clients(c)
    PROVE  /\ Types'
           /\ UNCHANGED <<constraint, geomColumn, trigger, account, server, changes, overlapped, clock>>
<1>1. /\ UNCHANGED <<constraint, geomColumn, trigger, account, server, changes, overlapped, clock>>
      /\ parcels' = parcels \/ \E p \in ParcelId : EditParcel(c, p)
  BY DEF Clients, Login, Send, CheckToken, LoadAccount, Leave, EditParcel, bootVars, schema
<1>2. ServerTypes' /\ AccountTypes'
  BY <1>1 DEF Types, ServerTypes, AccountTypes
<1>3. SchemaTypes'
  <2>1. ASSUME NEW p \in ParcelId, EditParcel(c, p)
        PROVE  parcels' \in [ParcelId -> [geojson : Nat, geom : Nat]]
    <3>1. Written(parcels[p]) \in [geojson : Nat, geom : Nat]
      BY DEF Types, SchemaTypes, Written
    <3>. QED  BY <2>1, <3>1 DEF EditParcel, Types, SchemaTypes
  <2>. QED  BY <1>1, <2>1 DEF Types, SchemaTypes
<1>4. SessionTypes'
  <2>. USE DEF Types, SessionTypes
  <2>1. ASSUME NEW n \in Accounts, Login(c, n)  PROVE SessionTypes'
    <3>1. account[n] \in AccountRow
      BY <2>1 DEF Login, AccountTypes, NoAccount
    <3>2. clock + TTL \in Nat
      BY SessionAssumption
    <3>. QED  BY <2>1, <3>1, <3>2, <1>1 DEF Login, AccountRow
  <2>2. ASSUME NEW i \in Instance, Send(c, i)  PROVE SessionTypes'
    <3>1. token[c].user \in Accounts
      BY <2>2 DEF Send, NoToken
    <3>2. Len(changes[token[c].user]) \in Nat
      BY <3>1 DEF AccountTypes
    <3>. QED  BY <2>2, <3>2, <1>1 DEF Send
  <2>u. ASSUME Unauthorized(c)  PROVE SessionTypes'
    <3>1. NoToken \in [user : Accounts \cup {"none"}, role : Roles \cup {"none"}, expires : Nat]
      BY DEF NoToken
    <3>2. NoRequest \in [stage : {"none", "token", "account", "handler"},
                         at : Instance \cup {"none"}, role : Roles \cup {"none"},
                         began : Nat, since : Nat]
      BY DEF NoRequest
    <3>. QED  BY <2>u, <3>1, <3>2, <1>1 DEF Unauthorized
  <2>m. ASSUME token' = token, request[c].stage # "none",
               NEW stage \in {"account", "handler"}, NEW role \in Roles \cup {"none"},
               request' = [request EXCEPT ![c].stage = stage, ![c].role = role]
        PROVE  SessionTypes'
    <3>1. request[c] # NoRequest
      BY <2>m DEF NoRequest
    <3>2. /\ request' \in [Client -> [stage : {"none", "token", "account", "handler"},
                                      at : Instance \cup {"none"}, role : Roles \cup {"none"},
                                      began : Nat, since : Nat]]
          /\ request'[c].stage # "none"
          /\ \A d \in Client \ {c} : request'[d] = request[d]
      BY <2>m
    <3>. QED  BY <2>m, <3>1, <3>2, <1>1
  <2>3. ASSUME CheckToken(c)  PROVE SessionTypes'
    <3>1. CASE /\ request' = [request EXCEPT ![c].stage = "account"]
               /\ token' = token
      <4>1. request' = [request EXCEPT ![c].stage = "account", ![c].role = request[c].role]
        BY <3>1
      <4>. QED  BY <2>3, <2>m, <3>1, <4>1 DEF CheckToken
    <3>. QED  BY <2>3, <2>u, <3>1 DEF CheckToken
  <2>4. ASSUME LoadAccount(c)  PROVE SessionTypes'
    <3>1. token[c].user \in Accounts
      BY <2>4 DEF LoadAccount, NoRequest
    <3>2. account[token[c].user].active => account[token[c].user] \in AccountRow
      BY <3>1 DEF AccountTypes, NoAccount
    <3>3. CASE /\ account[token[c].user].active /\ token' = token
               /\ request' = [request EXCEPT ![c].stage = "handler", ![c].role = ActingRole(c)]
      <4>1. ActingRole(c) \in Roles
        BY <3>2, <3>3 DEF ActingRole, AccountRow
      <4>. QED  BY <2>4, <2>m, <3>3, <4>1 DEF LoadAccount
    <3>. QED  BY <2>4, <2>u, <3>3 DEF LoadAccount
  <2>5. ASSUME Leave(c)  PROVE SessionTypes'
    BY <2>5, <1>1 DEF Leave, NoRequest
  <2>6. ASSUME NEW p \in ParcelId, EditParcel(c, p)  PROVE SessionTypes'
    BY <2>6, <1>1 DEF EditParcel, NoRequest
  <2>. QED  BY <2>1, <2>2, <2>3, <2>4, <2>5, <2>6 DEF Clients
<1>. QED  BY <1>1, <1>2, <1>3, <1>4 DEF Types

\* What an operator leaves is an account.
LEMMA OperatorTypes ==
    ASSUME Types, NEW n \in Accounts, ChangeAccount(n), UNCHANGED sessionVars
    PROVE  Types'
<1>1. PICK changed \in OutsideStates :
        /\ account' = [account EXCEPT ![n] = changed]
        /\ changes' = [changes EXCEPT ![n] = Append(@, changed)]
  BY DEF ChangeAccount
<1>2. changed \in AccountRow
  BY BootstrapAssumption DEF AccountRow
<1>3. AccountTypes'
  BY <1>1, <1>2 DEF Types, AccountTypes
<1>4. ServerTypes' /\ SchemaTypes' /\ SessionTypes'
  BY DEF ChangeAccount, schema, sessionVars, Types, ServerTypes, SchemaTypes, SessionTypes
<1>. QED  BY <1>3, <1>4 DEF Types

LEMMA StepTypes == Types /\ [Next]_vars => Types'
<1>. SUFFICES ASSUME Types, [Next]_vars  PROVE Types'
  OBVIOUS
<1>1. CASE Tick \/ UNCHANGED vars
  <2>1. UNCHANGED <<bootVars, token, request>> /\ clock' \in {clock, clock + 1}
    BY <1>1 DEF Tick, vars, sessionVars
  <2>. QED
    BY <2>1 DEF Types, ServerTypes, AccountTypes, SchemaTypes, SessionTypes, bootVars, schema
<1>. QED  BY <1>1, StepsByActor, InstanceTypes, ClientTypes, OperatorTypes

-----------------------------------------------------------------------------
(* The accounts *)

\* An instance that seeds has found or created the accounts before the one it
\* is at, and one that serves or drains all of them.
SeededSoFar ==
    \A i \in Instance :
        /\ server[i].stage \in {"find", "create"} =>
              \A k \in DOMAIN Seeds : k < server[i].seed => account[Seeds[k]] # NoAccount
        /\ server[i].stage \in {"serving", "draining"} =>
              \A n \in Accounts : account[n] # NoAccount

\* Every account is as it was last left from outside, or as seeded.
AsLastLeft ==
    \A n \in Accounts :
        account[n] = IF changes[n] # <<>> THEN changes[n][Len(changes[n])]
                     ELSE IF account[n] = NoAccount THEN NoAccount
                     ELSE [role |-> n, active |-> TRUE]

\* No step removes an account.
AccountsStay == \A n \in Accounts : account[n] # NoAccount => account'[n] # NoAccount

\* A step that moves no instance and removes no account keeps what is seeded.
LEMMA SeededKept ==
    ASSUME SeededSoFar, server' = server, AccountsStay
    PROVE  SeededSoFar'
BY SeedsAreAccounts DEF SeededSoFar, AccountsStay

\* The account at hand is there, so the instance goes on to the next or serves.
LEMMA SeededAdvances ==
    ASSUME Types, SeededSoFar, NEW i \in Instance, Seeded(i), AccountsStay,
           server[i].stage \in {"find", "create"}, account'[Seed(i)] # NoAccount
    PROVE  SeededSoFar'
<1>. SUFFICES ASSUME NEW j \in Instance
              PROVE  /\ server'[j].stage \in {"find", "create"} =>
                           \A k \in DOMAIN Seeds : k < server'[j].seed => account'[Seeds[k]] # NoAccount
                     /\ server'[j].stage \in {"serving", "draining"} =>
                           \A n \in Accounts : account'[n] # NoAccount
  BY DEF SeededSoFar
<1>1. server[i].seed \in DOMAIN Seeds
  BY DEF Types, ServerTypes
<1>2. \A k \in DOMAIN Seeds : k <= server[i].seed => account'[Seeds[k]] # NoAccount
  BY <1>1, SeedsAreAccounts DEF SeededSoFar, AccountsStay, Seed
<1>3. CASE j = i /\ server[i].seed = Len(Seeds)
  <2>1. server'[i] = At("serving", 1)
    BY <1>3 DEF Seeded, Types, ServerTypes
  <2>2. \A n \in Accounts : account'[n] # NoAccount
    BY <1>2, <1>3, SeedsAreAccounts DEF Accounts
  <2>. QED  BY <1>3, <2>1, <2>2 DEF At
<1>4. CASE j = i /\ server[i].seed # Len(Seeds)
  <2>1. server'[i] = At("find", server[i].seed + 1)
    BY <1>4 DEF Seeded, Types, ServerTypes
  <2>. QED  BY <1>1, <1>2, <1>4, <2>1, SeedsAreAccounts DEF At
<1>5. CASE j # i
  <2>1. server'[j] = server[j]
    BY <1>5 DEF Seeded, Types, ServerTypes
  <2>. QED  BY <2>1, SeedsAreAccounts DEF SeededSoFar, AccountsStay
<1>. QED  BY <1>3, <1>4, <1>5

\* Every step of an instance keeps both.
LEMMA InstanceKeepsAccounts ==
    ASSUME Types, SeededSoFar, AsLastLeft, NEW i \in Instance, Instances(i)
    PROVE  SeededSoFar' /\ AsLastLeft' /\ AccountsStay
<1>1. changes' = changes
  BY DEF Instances, Start, BootStep, AutoMigrate, DropConstraint, AddConstraint, AddColumn,
         DropTrigger, CreateTrigger, Backfill, FindSeed, CreateSeed, Drain, Die, Stop
<1>2. Seed(i) \in Accounts
  BY SeedsAreAccounts DEF Seed, Types, ServerTypes
<1>3. ASSUME NEW stage, Goto(i, stage), account' = account,
             stage \in {"serving", "draining"} => server[i].stage = "serving",
             stage = "find" => server[i].stage = "backfill",
             stage # "create"
      PROVE  SeededSoFar' /\ AsLastLeft' /\ AccountsStay
  <2>1. /\ server'[i] = At(stage, 1)
        /\ \A j \in Instance \ {i} : server'[j] = server[j]
    BY <1>3 DEF Goto, Types, ServerTypes
  <2>2. SeededSoFar'
    BY <1>3, <2>1, SeedsAreAccounts DEF SeededSoFar, At
  <2>3. AsLastLeft'
    BY <1>1, <1>3 DEF AsLastLeft
  <2>. QED  BY <1>3, <2>2, <2>3 DEF AccountsStay
<1>4. CASE Start(i) \/ Die(i) \/ Drain(i) \/ Stop(i)
  BY <1>3, <1>4 DEF Start, Die, Drain, Stop, Exit, Stage
<1>5. CASE AutoMigrate(i) \/ DropConstraint(i) \/ AddConstraint(i) \/ AddColumn(i)
           \/ DropTrigger(i) \/ CreateTrigger(i)
  BY <1>3, <1>5 DEF AutoMigrate, DropConstraint, AddConstraint, AddColumn, DropTrigger,
                    CreateTrigger, Exit, Stage
<1>6. CASE Backfill(i)
  BY <1>3, <1>6 DEF Backfill, Stage
<1>7. CASE FindSeed(i)
  <2>1. AccountsStay /\ AsLastLeft'
    BY <1>1, <1>7 DEF FindSeed, AccountsStay, AsLastLeft
  <2>2. CASE NeedsSeed(i)
    <3>1. /\ server'[i].stage = "create" /\ server'[i].seed = server[i].seed
          /\ \A j \in Instance \ {i} : server'[j] = server[j]
          /\ server[i].stage = "find" /\ account' = account
      BY <1>7, <2>2 DEF FindSeed, Stage, Types, ServerTypes
    <3>. QED  BY <2>1, <3>1 DEF SeededSoFar
  <2>3. CASE ~NeedsSeed(i)
    BY <1>7, <2>1, <2>3, SeededAdvances DEF FindSeed, NeedsSeed, Stage
  <2>. QED  BY <2>1, <2>2, <2>3
<1>8. CASE CreateSeed(i)
  <2>1. CASE Exit(i) /\ account' = account
    BY <1>3, <2>1 DEF Exit
  <2>2. CASE /\ account[Seed(i)] = NoAccount /\ Seeded(i)
             /\ account' = [account EXCEPT ![Seed(i)] = [role |-> Seed(i), active |-> TRUE]]
    <3>1. changes[Seed(i)] = <<>>
      <4>1. ASSUME changes[Seed(i)] # <<>>  PROVE FALSE
        <5>1. changes[Seed(i)] \in Seq(AccountRow)
          BY <1>2 DEF Types, AccountTypes
        <5>2. changes[Seed(i)][Len(changes[Seed(i)])] \in AccountRow
          BY <4>1, <5>1
        <5>. QED  BY <1>2, <2>2, <4>1, <5>2, SeedsAreAccounts DEF AsLastLeft
      <4>. QED  BY <4>1
    <3>2. [role |-> Seed(i), active |-> TRUE] # NoAccount
      BY DEF NoAccount
    <3>3. AccountsStay /\ account'[Seed(i)] # NoAccount
      BY <1>2, <2>2, <3>2 DEF AccountsStay, Types, AccountTypes
    <3>4. AsLastLeft'
      BY <1>1, <1>2, <2>2, <3>1, <3>2 DEF AsLastLeft, Types, AccountTypes
    <3>. QED  BY <1>8, <2>2, <3>3, <3>4, SeededAdvances DEF CreateSeed, Stage
  <2>. QED  BY <1>8, <2>1, <2>2 DEF CreateSeed
<1>. QED  BY <1>4, <1>5, <1>6, <1>7, <1>8 DEF Instances, BootStep

\* And so does every other step.
LEMMA AccountsKept ==
    ASSUME Types, SeededSoFar, AsLastLeft, [Next]_vars
    PROVE  SeededSoFar' /\ AsLastLeft' /\ AccountsStay
<1>1. ASSUME UNCHANGED <<account, changes, server>>
      PROVE  SeededSoFar' /\ AsLastLeft' /\ AccountsStay
  <2>1. AccountsStay /\ AsLastLeft'
    BY <1>1 DEF AccountsStay, AsLastLeft
  <2>. QED  BY <1>1, <2>1, SeededKept
<1>2. ASSUME NEW n \in Accounts, ChangeAccount(n)
      PROVE  SeededSoFar' /\ AsLastLeft' /\ AccountsStay
  <2>1. PICK changed \in OutsideStates :
          /\ account' = [account EXCEPT ![n] = changed]
          /\ changes' = [changes EXCEPT ![n] = Append(@, changed)]
    BY <1>2 DEF ChangeAccount
  <2>2. changed \in AccountRow
    BY BootstrapAssumption DEF AccountRow
  <2>3. AccountsStay
    BY <2>1, <2>2, SeedsAreAccounts DEF AccountsStay, Types, AccountTypes
  <2>4. AsLastLeft'
    <3>. SUFFICES ASSUME NEW m \in Accounts
                  PROVE  account'[m] = IF changes'[m] # <<>> THEN changes'[m][Len(changes'[m])]
                                       ELSE IF account'[m] = NoAccount THEN NoAccount
                                       ELSE [role |-> m, active |-> TRUE]
      BY DEF AsLastLeft
    <3>1. CASE m = n
      <4>1. changes[n] \in Seq(AccountRow) /\ changes'[n] = Append(changes[n], changed)
        BY <2>1 DEF Types, AccountTypes
      <4>2. changes'[n] # <<>> /\ changes'[n][Len(changes'[n])] = changed
        BY <2>2, <4>1
      <4>. QED  BY <2>1, <3>1, <4>2 DEF Types, AccountTypes
    <3>2. CASE m # n
      BY <2>1, <3>2 DEF AsLastLeft, Types, AccountTypes
    <3>. QED  BY <3>1, <3>2
  <2>. QED  BY <1>2, <2>3, <2>4, SeededKept DEF ChangeAccount
<1>3. ASSUME Tick \/ UNCHANGED vars
      PROVE  SeededSoFar' /\ AsLastLeft' /\ AccountsStay
  BY <1>1, <1>3 DEF Tick, vars, bootVars
<1>4. ASSUME NEW c \in Client, Clients(c)
      PROVE  SeededSoFar' /\ AsLastLeft' /\ AccountsStay
  BY <1>1, <1>4, ClientTypes
<1>. QED  BY <1>2, <1>3, <1>4, InstanceKeepsAccounts, StepsByActor

LEMMA AccountsInitially == Init => SeededSoFar /\ AsLastLeft
<1>. SUFFICES ASSUME Init  PROVE SeededSoFar /\ AsLastLeft
  OBVIOUS
<1>1. SeededSoFar
  BY DEF Init, BootInit, SeededSoFar, At
<1>2. AsLastLeft
  BY DEF Init, BootInit, AsLastLeft
<1>. QED  BY <1>1, <1>2

-----------------------------------------------------------------------------
(* Requests *)

\* The rows of the account of user that count for a request that has seen
\* the first changes of it, as many as since.
During(user, since) ==
    {[role |-> user, active |-> TRUE] : k \in {0} \cap {since}}
    \cup {changes[user][k] : k \in DOMAIN changes[user] \cap (since .. Len(changes[user]))}

\* A request in flight is on an instance that has not stopped.  Past its token
\* check it began before its token expired, and past its look-up it has a
\* role its account had in the meantime.
RequestSound(c) ==
    request[c] # NoRequest =>
        /\ request[c].at \in Instance
        /\ server[request[c].at].stage \in {"serving", "draining"}
        /\ request[c].began <= clock
        /\ request[c].since <= Len(changes[token[c].user])
        /\ request[c].stage # "token" => request[c].began < token[c].expires
        /\ request[c].stage = "handler" =>
              [role |-> request[c].role, active |-> TRUE]
                 \in During(token[c].user, request[c].since)

RequestsSound == \A c \in Client : RequestSound(c)

\* More changes, and later ones, take nothing away from a request.
LEMMA RequestKept ==
    ASSUME Types, NEW c \in Client, RequestSound(c),
           request'[c] = request[c], token'[c] = token[c],
           request[c] # NoRequest =>
              server'[request[c].at].stage \in {"serving", "draining"},
           clock' \in {clock, clock + 1},
           \A n \in Accounts : \/ changes'[n] = changes[n]
                               \/ \E row : changes'[n] = Append(changes[n], row)
    PROVE  RequestSound(c)'
<1>. SUFFICES ASSUME request[c] # NoRequest  PROVE RequestSound(c)'
  BY DEF RequestSound, NoRequest
<1>. DEFINE user == token[c].user
            since == request[c].since
<1>1. user \in Accounts /\ since \in Nat /\ request[c].began \in Nat /\ clock \in Nat
  BY DEF Types, SessionTypes
<1>2. changes[user] \in Seq(AccountRow)
  BY <1>1 DEF Types, AccountTypes
<1>3. /\ Len(changes[user]) <= Len(changes'[user]) /\ Len(changes'[user]) \in Nat
      /\ \A k \in DOMAIN changes[user] :
            k \in DOMAIN changes'[user] /\ changes'[user][k] = changes[user][k]
  <2>1. CASE changes'[user] = changes[user]
    BY <1>2, <2>1
  <2>2. ASSUME NEW row, changes'[user] = Append(changes[user], row)
        PROVE  /\ Len(changes[user]) <= Len(changes'[user]) /\ Len(changes'[user]) \in Nat
               /\ \A k \in DOMAIN changes[user] :
                     k \in DOMAIN changes'[user] /\ changes'[user][k] = changes[user][k]
    <3>1. changes[user] \in Seq(AccountRow \cup {row})
      BY <1>2
    <3>. QED  BY <2>2, <3>1
  <2>. QED  BY <1>1, <2>1, <2>2
<1>4. During(user, since) \subseteq During(user, since)'
  <2>1. During(user, since)' = {[role |-> user, active |-> TRUE] : k \in {0} \cap {since}}
           \cup {changes'[user][k] : k \in DOMAIN changes'[user] \cap (since .. Len(changes'[user]))}
    BY DEF During
  <2>2. \A k \in DOMAIN changes[user] \cap (since .. Len(changes[user])) :
           /\ k \in DOMAIN changes'[user] \cap (since .. Len(changes'[user]))
           /\ changes'[user][k] = changes[user][k]
    BY <1>1, <1>2, <1>3
  <2>. QED  BY <2>1, <2>2 DEF During
<1>5. During(token[c].user, request[c].since)'
         = {[role |-> user, active |-> TRUE] : k \in {0} \cap {since}}
           \cup {changes'[user][k] : k \in DOMAIN changes'[user] \cap (since .. Len(changes'[user]))}
  BY DEF During
<1>6. During(user, since) \subseteq During(token[c].user, request[c].since)'
  BY <1>4, <1>5 DEF During
<1>7. request[c].since <= Len(changes'[user]) /\ request[c].began <= clock'
  <2>1. since <= Len(changes[user]) /\ request[c].began <= clock
    BY DEF RequestSound
  <2>2. Len(changes[user]) \in Nat
    BY <1>2
  <2>. QED  BY <1>1, <1>3, <2>1, <2>2
<1>. QED  BY <1>6, <1>7 DEF RequestSound

\* No step of an instance leaves a request behind on it.
LEMMA InstanceKeepsRequests ==
    ASSUME Types, RequestsSound, NEW i \in Instance, Instances(i)
    PROVE  RequestsSound'
<1>. SUFFICES ASSUME NEW c \in Client  PROVE RequestSound(c)'
  BY DEF RequestsSound
<1>1. /\ changes' = changes /\ clock' = clock /\ token' = token
      /\ \A j \in Instance \ {i} : server'[j] = server[j]
  BY InstanceMoves DEF Types, Instances, Start, BootStep, AutoMigrate, DropConstraint, AddConstraint,
         AddColumn, DropTrigger, CreateTrigger, Backfill, FindSeed, CreateSeed, Drain, Die,
         Stop, sessionVars
<1>2. CASE request'[c] = NoRequest
  BY <1>2 DEF RequestSound
<1>3. CASE request'[c] = request[c] /\ (request[c] # NoRequest => request[c].at # i)
  BY <1>1, <1>3, RequestKept DEF RequestsSound, RequestSound
<1>4. CASE CutOff(i)
  BY <1>2, <1>3, <1>4 DEF CutOff
<1>5. CASE (Start(i) \/ BootStep(i) \/ Drain(i)) /\ UNCHANGED sessionVars
  <2>1. request' = request
    BY <1>5 DEF sessionVars
  <2>2. CASE Drain(i)
    <3>1. server'[i].stage = "draining"
      BY <2>2 DEF Drain, Goto, At, Types, ServerTypes
    <3>. QED  BY <1>1, <2>1, <3>1, RequestKept DEF RequestsSound, RequestSound
  <2>3. CASE ~Drain(i)
    <3>1. server[i].stage \notin {"serving", "draining"}
      BY <1>5, <2>3 DEF Start, BootStep, AutoMigrate, DropConstraint, AddConstraint, AddColumn,
                        DropTrigger, CreateTrigger, Backfill, FindSeed, CreateSeed, Stage
    <3>. QED  BY <1>3, <2>1, <3>1 DEF RequestsSound, RequestSound
  <2>. QED  BY <2>2, <2>3
<1>. QED  BY <1>4, <1>5 DEF Instances

\* What a client's own request becomes.
LEMMA ClientKeepsRequests ==
    ASSUME Types, AsLastLeft, RequestsSound, NEW c \in Client, Clients(c)
    PROVE  RequestsSound'
<1>1. UNCHANGED <<account, changes, server, clock>>
  BY ClientTypes
<1>2. /\ \A d \in Client \ {c} : request'[d] = request[d] /\ token'[d] = token[d]
  BY DEF Clients, Login, Send, CheckToken, LoadAccount, Unauthorized, Leave, EditParcel,
         Types, SessionTypes
<1>3. ASSUME NEW d \in Client, d # c  PROVE RequestSound(d)'
  BY <1>1, <1>2, <1>3, RequestKept DEF RequestsSound, RequestSound
<1>. SUFFICES RequestSound(c)'
  BY <1>3 DEF RequestsSound
<1>4. CASE request'[c] = NoRequest
  BY <1>4 DEF RequestSound
<1>5. ASSUME NEW n \in Accounts, Login(c, n)  PROVE RequestSound(c)'
  <2>1. request[c] = NoRequest /\ request' = request
    BY <1>5 DEF Login, Types, SessionTypes
  <2>. QED  BY <1>4, <2>1
<1>6. ASSUME NEW i \in Instance, Send(c, i)  PROVE RequestSound(c)'
  <2>1. /\ request'[c] = [stage |-> "token", at |-> i, role |-> "none", began |-> clock,
                          since |-> Len(changes[token[c].user])]
        /\ server[i].stage = "serving" /\ token' = token
    BY <1>6 DEF Send, Serving, Stage, Types, SessionTypes
  <2>2. clock \in Nat /\ Len(changes[token[c].user]) \in Nat
    BY <1>6 DEF Send, Types, SessionTypes, AccountTypes
  <2>. QED  BY <1>1, <2>1, <2>2 DEF RequestSound
<1>7. CASE CheckToken(c)
  <2>1. CASE /\ request' = [request EXCEPT ![c].stage = "account"]
             /\ token' = token /\ clock < token[c].expires
    <3>1. /\ request'[c].stage = "account" /\ request'[c].at = request[c].at
          /\ request'[c].began = request[c].began /\ request'[c].since = request[c].since
          /\ request[c] # NoRequest
      BY <1>7, <2>1 DEF CheckToken, NoRequest, Types, SessionTypes
    <3>2. clock \in Nat /\ request[c].began \in Nat /\ token[c].expires \in Nat
      BY DEF Types, SessionTypes
    <3>3. /\ request[c].at \in Instance
          /\ server[request[c].at].stage \in {"serving", "draining"}
          /\ request[c].began <= clock
          /\ request[c].since <= Len(changes[token[c].user])
      BY <3>1 DEF RequestsSound, RequestSound
    <3>. QED  BY <1>1, <2>1, <3>1, <3>2, <3>3 DEF RequestSound
  <2>2. CASE Unauthorized(c)
    BY <1>4, <2>2 DEF Unauthorized, Types, SessionTypes
  <2>. QED  BY <1>7, <2>1, <2>2 DEF CheckToken
<1>8. CASE LoadAccount(c)
  <2>1. CASE /\ account[token[c].user].active /\ token' = token
             /\ request' = [request EXCEPT ![c].stage = "handler", ![c].role = ActingRole(c)]
    <3>. DEFINE user == token[c].user
                since == request[c].since
    <3>1. /\ request'[c].stage = "handler" /\ request'[c].at = request[c].at
          /\ request'[c].began = request[c].began /\ request'[c].since = since
          /\ request'[c].role = account[user].role
          /\ request[c] # NoRequest /\ request[c].stage = "account"
      BY <1>8, <2>1 DEF LoadAccount, NoRequest, ActingRole, Types, SessionTypes
    <3>2. user \in Accounts /\ since \in Nat
      BY <3>1 DEF Types, SessionTypes
    <3>3. /\ changes[user] \in Seq(AccountRow)
          /\ account[user] \in AccountRow \cup {NoAccount}
      BY <3>2 DEF Types, AccountTypes
    <3>4. account[user] = [role |-> account[user].role, active |-> TRUE]
      BY <2>1, <3>3 DEF AccountRow, NoAccount
    <3>5. /\ request[c].at \in Instance
          /\ server[request[c].at].stage \in {"serving", "draining"}
          /\ request[c].began <= clock /\ since <= Len(changes[user])
          /\ request[c].began < token[c].expires
      BY <3>1 DEF RequestsSound, RequestSound
    <3>6. account[user] \in During(user, since)
      <4>1. CASE changes[user] = <<>>
        <5>1. since = 0
          BY <3>2, <3>5, <4>1
        <5>2. account[user] # NoAccount
          BY <3>4 DEF NoAccount
        <5>3. account[user] = [role |-> user, active |-> TRUE]
          BY <3>2, <4>1, <5>2 DEF AsLastLeft
        <5>. QED  BY <5>1, <5>3 DEF During
      <4>2. CASE changes[user] # <<>>
        <5>1. account[user] = changes[user][Len(changes[user])]
          BY <3>2, <4>2 DEF AsLastLeft
        <5>2. Len(changes[user]) \in DOMAIN changes[user] \cap (since .. Len(changes[user]))
          BY <3>2, <3>3, <3>5, <4>2
        <5>. QED  BY <5>1, <5>2 DEF During
      <4>. QED  BY <4>1, <4>2
    <3>7. During(user, since)' = During(user, since)
      <4>1. user' = user /\ since' = since
        BY <2>1, <3>1
      <4>. QED  BY <1>1, <4>1 DEF During
    <3>. QED  BY <1>1, <2>1, <3>1, <3>4, <3>5, <3>6, <3>7 DEF RequestSound
  <2>2. CASE Unauthorized(c)
    BY <1>4, <2>2 DEF Unauthorized, Types, SessionTypes
  <2>. QED  BY <1>8, <2>1, <2>2 DEF LoadAccount
<1>9. CASE Leave(c) \/ \E p \in ParcelId : EditParcel(c, p)
  BY <1>4, <1>9 DEF Leave, EditParcel, Types, SessionTypes
<1>. QED  BY <1>5, <1>6, <1>7, <1>8, <1>9 DEF Clients

LEMMA RequestsKept ==
    ASSUME Types, AsLastLeft, RequestsSound, [Next]_vars
    PROVE  RequestsSound'
<1>1. ASSUME NEW n \in Accounts, ChangeAccount(n), UNCHANGED sessionVars
      PROVE  RequestsSound'
  <2>1. /\ server' = server /\ clock' = clock /\ request' = request /\ token' = token
        /\ \E row : changes' = [changes EXCEPT ![n] = Append(changes[n], row)]
    BY <1>1 DEF ChangeAccount, sessionVars
  <2>2. \A m \in Accounts : \/ changes'[m] = changes[m]
                            \/ \E row : changes'[m] = Append(changes[m], row)
    BY <2>1 DEF Types, AccountTypes
  <2>. QED  BY <2>1, <2>2, RequestKept DEF RequestsSound, RequestSound
<1>2. CASE Tick \/ UNCHANGED vars
  <2>1. UNCHANGED <<server, changes, token, request>> /\ clock' \in {clock, clock + 1}
    BY <1>2 DEF Tick, vars, bootVars, sessionVars
  <2>. QED  BY <2>1, RequestKept DEF RequestsSound, RequestSound
<1>. QED  BY <1>1, <1>2, InstanceKeepsRequests, ClientKeepsRequests, StepsByActor

-----------------------------------------------------------------------------
(* The migration *)

\* What the statements an instance has behind it have made of the schema.
Prepared(i) ==
    /\ server[i].stage = "add_constraint" => constraint = "absent"
    /\ server[i].stage \in {"add_column", "drop_trigger", "create_trigger", "backfill",
                            "find", "create", "serving", "draining"} => constraint = "current"
    /\ server[i].stage = "create_trigger" => ~trigger
    /\ server[i].stage \in {"backfill", "find", "create", "serving", "draining"} => trigger
    /\ server[i].stage \in {"find", "create", "serving", "draining"} =>
          \A p \in ParcelId : parcels[p].geom = parcels[p].geojson

\* As long as instances have not overlapped, the one that is alive finds the
\* schema as it has left it, and no row has an outdated geometry: it has that
\* of its GeoJSON or none.
MigrationSound ==
    ~overlapped =>
        /\ \A i, j \in Instance : Alive(i) /\ Alive(j) => i = j
        /\ \A i \in Instance : Prepared(i)
        /\ \A p \in ParcelId : parcels[p].geom \in {NULL, parcels[p].geojson}

\* Without an overlap, the instance that takes a step is the only one.
LEMMA Alone ==
    ASSUME MigrationSound, NEW i \in Instance, Instances(i), ~overlapped'
    PROVE  /\ ~overlapped
           /\ \A j \in Instance \ {i} : server[j].stage = "off"
<1>1. CASE Start(i)
  BY <1>1 DEF Start, Alive, Stage
<1>2. CASE ~Start(i)
  <2>1. Alive(i) /\ overlapped' = overlapped
    BY <1>2 DEF Instances, BootStep, AutoMigrate, DropConstraint, AddConstraint, AddColumn,
                DropTrigger, CreateTrigger, Backfill, FindSeed, CreateSeed, Drain, Die, Stop,
                Stage, Alive
  <2>. QED  BY <2>1 DEF MigrationSound, Alive
<1>. QED  BY <1>1, <1>2

\* The next statement of the only instance finds what it relies on.
LEMMA InstanceKeepsMigration ==
    ASSUME Types, MigrationSound, NEW i \in Instance, Instances(i)
    PROVE  MigrationSound'
<1>. SUFFICES ASSUME ~overlapped'
              PROVE  /\ \A j, k \in Instance : Alive(j)' /\ Alive(k)' => j = k
                     /\ \A j \in Instance : Prepared(j)'
                     /\ \A p \in ParcelId : parcels'[p].geom \in {NULL, parcels'[p].geojson}
  BY DEF MigrationSound
<1>1. /\ ~overlapped
      /\ \A j \in Instance \ {i} : server[j].stage = "off"
  BY Alone
<1>2. /\ Prepared(i)
      /\ \A p \in ParcelId : parcels[p].geom \in {NULL, parcels[p].geojson}
  BY <1>1 DEF MigrationSound
<1>3. \A j \in Instance \ {i} : server'[j].stage = "off"
  BY <1>1, InstanceMoves DEF Types
<1>4. \A j, k \in Instance : Alive(j)' /\ Alive(k)' => j = k
  BY <1>3 DEF Alive
<1>5. \A j \in Instance \ {i} : Prepared(j)'
  BY <1>3 DEF Prepared
<1>6. /\ Prepared(i)'
      /\ \A p \in ParcelId : parcels'[p].geom \in {NULL, parcels'[p].geojson}
  <2>. USE DEF Prepared
  <2>1. ASSUME NEW stage, Goto(i, stage)  PROVE server'[i].stage = stage
    BY <2>1 DEF Goto, At, Types, ServerTypes
  <2>2. ASSUME Seeded(i)  PROVE server'[i].stage \in {"find", "serving"}
    BY <2>2 DEF Seeded, At, Types, ServerTypes
  <2>3. CASE Start(i) \/ Die(i) \/ Stop(i)
    BY <1>2, <2>1, <2>3 DEF Start, Die, Stop, Exit
  <2>4. CASE Drain(i)
    BY <1>2, <2>1, <2>4 DEF Drain, Stage, schema
  <2>5. CASE AutoMigrate(i)
    BY <1>2, <2>1, <2>5 DEF AutoMigrate
  <2>6. CASE DropConstraint(i)
    BY <1>2, <2>1, <2>6 DEF DropConstraint
  <2>7. CASE AddConstraint(i)
    BY <1>2, <2>1, <2>7 DEF AddConstraint, Stage
  <2>8. CASE AddColumn(i)
    BY <1>2, <2>1, <2>8 DEF AddColumn, Stage
  <2>9. CASE DropTrigger(i)
    BY <1>2, <2>1, <2>9 DEF DropTrigger, TriggerDropped, Stage
  <2>10. CASE CreateTrigger(i)
    BY <1>2, <2>1, <2>10 DEF CreateTrigger, Stage
  <2>11. CASE Backfill(i)
    <3>1. ASSUME NEW p \in ParcelId
          PROVE  parcels'[p].geom = parcels'[p].geojson
      <4>1. parcels'[p] = Filled(parcels[p]) /\ parcels[p] \in [geojson : Nat, geom : Nat]
        BY <2>11 DEF Backfill, Types, SchemaTypes
      <4>. QED  BY <1>2, <4>1 DEF Filled
    <3>. QED  BY <1>2, <2>1, <2>11, <3>1 DEF Backfill, Stage, schema
  <2>12. CASE FindSeed(i)
    <3>1. server'[i].stage \in {"find", "create", "serving"}
      BY <2>2, <2>12 DEF FindSeed, Types, ServerTypes
    <3>. QED  BY <1>2, <2>12, <3>1 DEF FindSeed, Stage, schema
  <2>13. CASE CreateSeed(i)
    <3>1. server'[i].stage \in {"find", "off", "serving"}
      BY <2>1, <2>2, <2>13 DEF CreateSeed, Exit
    <3>. QED  BY <1>2, <2>13, <3>1 DEF CreateSeed, Stage, schema
  <2>. QED  BY <2>3, <2>4, <2>5, <2>6, <2>7, <2>8, <2>9, <2>10, <2>11, <2>12, <2>13
            DEF Instances, BootStep
<1>. QED  BY <1>4, <1>5, <1>6

\* An edit runs on an instance that serves or drains, so under the trigger.
LEMMA MigrationKept ==
    ASSUME Types, RequestsSound, MigrationSound, [Next]_vars
    PROVE  MigrationSound'
<1>1. ASSUME UNCHANGED <<constraint, trigger, parcels, server, overlapped>>
      PROVE  MigrationSound'
  BY <1>1 DEF MigrationSound, Prepared, Alive
<1>2. ASSUME NEW c \in Client, NEW p \in ParcelId, EditParcel(c, p)
      PROVE  MigrationSound'
  <2>1. /\ UNCHANGED <<constraint, trigger, server, overlapped>>
        /\ parcels' = [parcels EXCEPT ![p] = Written(parcels[p])]
    BY <1>2 DEF EditParcel, schema
  <2>. SUFFICES ASSUME ~overlapped  PROVE MigrationSound'
    BY <2>1 DEF MigrationSound
  <2>2. PICK i \in Instance : server[i].stage \in {"serving", "draining"}
    <3>1. request[c] # NoRequest
      BY <1>2 DEF EditParcel, NoRequest
    <3>2. RequestSound(c)
      BY DEF RequestsSound
    <3>. QED  BY <3>1, <3>2 DEF RequestSound
  <2>3. trigger /\ \A q \in ParcelId : parcels[q].geom = parcels[q].geojson
    BY <2>2 DEF MigrationSound, Prepared
  <2>4. \A q \in ParcelId : parcels'[q].geom = parcels'[q].geojson
    BY <2>1, <2>3 DEF Written, Types, SchemaTypes
  <2>. QED  BY <2>1, <2>3, <2>4 DEF MigrationSound, Prepared, Alive
<1>3. ASSUME NEW c \in Client, Clients(c)
      PROVE  MigrationSound'
  <2>1. parcels' = parcels \/ \E p \in ParcelId : EditParcel(c, p)
    BY <1>3 DEF Clients, Login, Send, CheckToken, LoadAccount, Leave, bootVars
  <2>. QED  BY <1>1, <1>2, <1>3, <2>1, ClientTypes
<1>4. CASE Tick \/ UNCHANGED vars \/ \E n \in Accounts : ChangeAccount(n)
  BY <1>1, <1>4 DEF Tick, ChangeAccount, vars, bootVars, schema
<1>. QED  BY <1>3, <1>4, InstanceKeepsMigration, StepsByActor

\* Without an overlap, the account an instance is about to create is missing.
SeedMissing ==
    ~overlapped => \A i \in Instance :
                      server[i].stage = "create" => account[Seed(i)] = NoAccount

LEMMA SeedMissingKept ==
    ASSUME Types, MigrationSound, SeedMissing, [Next]_vars
    PROVE  SeedMissing'
<1>1. ASSUME NEW i \in Instance, Instances(i)
      PROVE  SeedMissing'
  <2>. SUFFICES ASSUME ~overlapped', NEW j \in Instance, server'[j].stage = "create"
                PROVE  account'[Seed(j)'] = NoAccount
    BY DEF SeedMissing
  <2>1. j = i
    BY <1>1, Alone, InstanceMoves DEF Types
  <2>2. FindSeed(i) /\ NeedsSeed(i)
    <3>1. ASSUME NEW stage, Goto(i, stage)  PROVE server'[i].stage = stage
      BY <3>1 DEF Goto, At, Types, ServerTypes
    <3>2. ASSUME Seeded(i)  PROVE server'[i].stage # "create"
      BY <3>2 DEF Seeded, At, Types, ServerTypes
    <3>3. ~CreateSeed(i)
      BY <2>1, <3>1, <3>2 DEF CreateSeed, Exit
    <3>4. ~(Start(i) \/ Drain(i) \/ Die(i) \/ Stop(i))
      BY <2>1, <3>1 DEF Start, Drain, Die, Stop, Exit
    <3>5. ~(\/ AutoMigrate(i) \/ DropConstraint(i) \/ AddConstraint(i) \/ AddColumn(i)
            \/ DropTrigger(i) \/ CreateTrigger(i) \/ Backfill(i))
      BY <2>1, <3>1 DEF AutoMigrate, DropConstraint, AddConstraint, AddColumn,
                        DropTrigger, CreateTrigger, Backfill, Exit
    <3>. QED  BY <1>1, <2>1, <3>2, <3>3, <3>4, <3>5 DEF Instances, BootStep, FindSeed
  <2>3. account' = account /\ server'[i].seed = server[i].seed
    BY <2>2 DEF FindSeed, Types, ServerTypes
  <2>. QED  BY <2>1, <2>2, <2>3 DEF NeedsSeed, Seed
<1>2. ASSUME NEW n \in Accounts, ChangeAccount(n)
      PROVE  SeedMissing'
  <2>1. /\ server' = server /\ overlapped' = overlapped
        /\ \A m : m # n => account'[m] = account[m]
        /\ account[n] # NoAccount
    BY <1>2 DEF ChangeAccount, Types, AccountTypes
  <2>. QED  BY <2>1 DEF SeedMissing, Seed
<1>3. ASSUME UNCHANGED <<account, server, overlapped>>
      PROVE  SeedMissing'
  BY <1>3 DEF SeedMissing, Seed
<1>4. CASE Tick \/ UNCHANGED vars
  BY <1>3, <1>4 DEF Tick, vars, bootVars
<1>. QED  BY <1>1, <1>2, <1>3, <1>4, ClientTypes, StepsByActor

LEMMA MigrationInitially == Init => MigrationSound
BY DEF Init, BootInit, MigrationSound, Prepared, Alive, At, NoParcel, NULL

-----------------------------------------------------------------------------
(* Theorems *)

Sound == Types /\ SeededSoFar /\ AsLastLeft /\ RequestsSound /\ MigrationSound

LEMMA SoundAlways == Spec => []Sound
<1>1. Init => Sound
  BY TypesInitially, AccountsInitially, MigrationInitially
     DEF Sound, Init, RequestsSound, RequestSound
<1>2. Sound /\ [Next]_vars => Sound'
  BY StepTypes, AccountsKept, RequestsKept, MigrationKept DEF Sound
<1>. QED  BY <1>1, <1>2, PTL DEF Spec

\* For any number of instances, crashes, strays and changes from outside: an
\* instance that serves finds every seed account, and no start has touched an
\* account that was there (MigrateAndSeed).
THEOREM SeedsAreComplete == Spec => []SeedIsComplete
<1>1. Sound => SeedIsComplete
  BY DEF Sound, SeededSoFar, AsLastLeft, SeedIsComplete, Stage
<1>. QED  BY <1>1, SoundAlways, PTL

\* Unless two instances have overlapped, every spatial column mirrors its
\* GeoJSON while an instance serves, whatever statement of the migration a
\* crash has hit (MigrateAndSeed, migratePostGIS).
THEOREM ColumnsMirror == Spec => []Mirrors
<1>1. Sound => Mirrors
  BY DEF Sound, MigrationSound, Prepared, Mirrors, Stage
<1>. QED  BY <1>1, SoundAlways, PTL

\* A request acts with a role its account had, being active, since the request
\* began, which was before its token expired (AuthMiddleware,
\* AuthService.Parse).
THEOREM AuthorityIsAlwaysCurrent == Spec => []AuthorityIsCurrent
<1>1. Sound => AuthorityIsCurrent
  BY DEF Sound, RequestsSound, RequestSound, During, NoRequest, AuthorityIsCurrent
<1>. QED  BY <1>1, SoundAlways, PTL

\* A start that no other instance runs into is stopped by nothing but a crash:
\* whatever an earlier start has left behind, no statement of the migration
\* and of the seeding fails (MigrateAndSeed, migratePostGIS).
LoneStartsGetThrough ==
    [][\A i \in Instance : ~overlapped /\ BootStep(i) => Alive(i)']_vars

THEOREM LoneStartsNeverFail == Spec => LoneStartsGetThrough
<1>1. Init => SeedMissing
  BY DEF Init, BootInit, SeedMissing, At
<1>2. Sound /\ SeedMissing /\ [Next]_vars => SeedMissing'
  BY SeedMissingKept DEF Sound
<1>3. ASSUME Sound, SeedMissing, NEW i \in Instance, ~overlapped, BootStep(i)
      PROVE  Alive(i)'
  <2>1. ASSUME NEW stage, Goto(i, stage)  PROVE server'[i].stage = stage
    BY <1>3, <2>1 DEF Goto, At, Sound, Types, ServerTypes
  <2>2. ASSUME Seeded(i)  PROVE server'[i].stage # "off"
    BY <1>3, <2>2 DEF Seeded, At, Sound, Types, ServerTypes
  <2>3. Prepared(i)
    BY <1>3 DEF Sound, MigrationSound
  <2>4. ASSUME AddConstraint(i) \/ CreateTrigger(i)  PROVE server'[i].stage # "off"
    BY <2>1, <2>3, <2>4 DEF AddConstraint, CreateTrigger, Prepared, Stage
  <2>5. ASSUME CreateSeed(i)  PROVE server'[i].stage # "off"
    <3>1. account[Seed(i)] = NoAccount /\ RoleAllowed(Seed(i))
      BY <1>3, <2>3, <2>5 DEF CreateSeed, Stage, SeedMissing, Prepared, RoleAllowed
    <3>. QED  BY <2>2, <2>5, <3>1 DEF CreateSeed
  <2>6. ASSUME FindSeed(i)  PROVE server'[i].stage # "off"
    BY <1>3, <2>2, <2>6 DEF FindSeed, Sound, Types, ServerTypes
  <2>7. CASE \/ AutoMigrate(i) \/ DropConstraint(i) \/ AddColumn(i)
             \/ DropTrigger(i) \/ Backfill(i)
    BY <2>1, <2>7 DEF AutoMigrate, DropConstraint, AddColumn, DropTrigger, Backfill, Alive
  <2>. QED  BY <1>3, <2>4, <2>5, <2>6, <2>7 DEF BootStep, Alive
<1>4. Sound /\ SeedMissing
         => [\A i \in Instance : ~overlapped /\ BootStep(i) => Alive(i)']_vars
  BY <1>3
<1>. QED  BY <1>1, <1>2, <1>4, SoundAlways, PTL DEF Spec, LoneStartsGetThrough
=============================================================================
