----------------------------- MODULE Bootstrap -----------------------------
(***************************************************************************)
(* How an instance of the server comes up on a database that may be new,   *)
(* left by an older release, half migrated by a crashed start, or in use   *)
(* by another instance: migrate, seed the accounts, serve.  Every          *)
(* statement of the start commits by itself.  An instance whose statement  *)
(* fails exits; the one of the deployment is then started again (restart:  *)
(* unless-stopped in docker-compose.yml), a stray one is not.              *)
(***************************************************************************)
EXTENDS Naturals, Sequences, Vocabulary

CONSTANTS Instance,
          Deployed,     \* the instances that are started again
          Seeds,        \* the seeded accounts in order, each named by its role
          LegacyRoles,  \* what the role constraint of an old release allows
          OutsideStates, \* what an operator may leave an account as
          ParcelId,
          MaxStrays,    \* bound: starts of other instances
          MaxOutages,   \* bound: crashes and shutdowns
          MaxChanges    \* bound: changes made to accounts from outside

ASSUME BootstrapAssumption ==
    /\ Seeds \in Seq(Roles) /\ Seeds # <<>> /\ LegacyRoles \subseteq Roles
    /\ OutsideStates \subseteq [role : Roles, active : BOOLEAN]
    /\ Deployed \subseteq Instance
    /\ MaxStrays \in Nat /\ MaxOutages \in Nat /\ MaxChanges \in Nat

VARIABLES
    constraint,  \* user_role_allowed: "absent", "legacy" or "current"
    geomColumn,  \* land_parcels has boundary_geom
    trigger,     \* sync_land_parcel_geom is installed
    parcels,     \* per parcel its boundary_geojson and boundary_geom, as versions
    account,     \* the users table, by name
    server,      \* per instance where its main() is
    changes,     \* how every account was left from outside, latest last
    overlapped,  \* two instances were alive at the same time
    strays,
    outages

schema == <<constraint, geomColumn, trigger>>
bootVars == <<schema, parcels, account, server, changes, overlapped, strays, outages>>

Accounts == {Seeds[k] : k \in DOMAIN Seeds}

NoAccount == [role |-> "none", active |-> FALSE]

\* The spatial column of a row nobody has filled.
NULL == 0

\* A parcel that is not there has version 0.
NoParcel == [geojson |-> 0, geom |-> NULL]

At(stage, seed) == [stage |-> stage, seed |-> seed]

Alive(i) == server[i].stage # "off"

Stage(i, stage) == server[i].stage = stage

Goto(i, stage) == server' = [server EXCEPT ![i] = At(stage, 1)]

Exit(i) == Goto(i, "off")

-----------------------------------------------------------------------------
\* A new database, or one of a release before the roles and the spatial
\* columns, with some of the accounts, as somebody left them, and a parcel.
BootInit ==
    /\ \/ /\ constraint = "absent"
          /\ parcels = [p \in ParcelId |-> NoParcel]
          /\ account = [n \in Accounts |-> NoAccount]
       \/ /\ constraint = "legacy"
          /\ parcels = [p \in ParcelId |-> [geojson |-> 1, geom |-> NULL]]
          /\ account \in [Accounts -> {NoAccount} \cup {a \in OutsideStates : a.role \in LegacyRoles}]
    /\ geomColumn = FALSE /\ trigger = FALSE
    /\ server = [i \in Instance |-> At("off", 1)]
    /\ changes = [n \in Accounts |-> IF account[n] = NoAccount THEN <<>> ELSE <<account[n]>>]
    /\ overlapped = FALSE /\ strays = 0 /\ outages = 0

\* main up to its migration.  DBAutoMigrate is true, as by default and in
\* docker-compose.yml; without it MigrateAndSeed is skipped.
Start(i) ==
    /\ Stage(i, "off")
    /\ Goto(i, "auto_migrate")
    /\ IF i \in Deployed THEN UNCHANGED strays
                         ELSE strays < MaxStrays /\ strays' = strays + 1
    /\ overlapped' = (overlapped \/ \E j \in Instance : Alive(j))
    /\ UNCHANGED <<schema, parcels, account, changes, outages>>

\* AutoMigrate creates what is missing, the role constraint included.
AutoMigrate(i) ==
    /\ Stage(i, "auto_migrate")
    /\ constraint' = IF constraint = "absent" THEN "current" ELSE constraint
    /\ Goto(i, "drop_constraint")
    /\ UNCHANGED <<geomColumn, trigger, parcels, account, changes, overlapped, strays, outages>>

DropConstraint(i) ==
    /\ Stage(i, "drop_constraint")
    /\ constraint' = "absent"
    /\ Goto(i, "add_constraint")
    /\ UNCHANGED <<geomColumn, trigger, parcels, account, changes, overlapped, strays, outages>>

\* Fails if another instance has added it in between.
AddConstraint(i) ==
    /\ Stage(i, "add_constraint")
    /\ IF constraint = "absent" THEN constraint' = "current" /\ Goto(i, "add_column")
                                ELSE Exit(i) /\ UNCHANGED constraint
    /\ UNCHANGED <<geomColumn, trigger, parcels, account, changes, overlapped, strays, outages>>

AddColumn(i) ==
    /\ Stage(i, "add_column")
    /\ geomColumn' = TRUE
    /\ Goto(i, "drop_trigger")
    /\ UNCHANGED <<constraint, trigger, parcels, account, changes, overlapped, strays, outages>>

\* Mutant of TriggerDropped: the statement is left out.
TriggerKept == trigger

\* DROP TRIGGER IF EXISTS
TriggerDropped == FALSE

DropTrigger(i) ==
    /\ Stage(i, "drop_trigger")
    /\ trigger' = TriggerDropped
    /\ Goto(i, "create_trigger")
    /\ UNCHANGED <<constraint, geomColumn, parcels, account, changes, overlapped, strays, outages>>

\* CREATE TRIGGER fails if there is one.
CreateTrigger(i) ==
    /\ Stage(i, "create_trigger")
    /\ IF trigger THEN Exit(i) ELSE Goto(i, "backfill")
    /\ trigger' = TRUE
    /\ UNCHANGED <<constraint, geomColumn, parcels, account, changes, overlapped, strays, outages>>

\* Mutant of Filled: the rows that were there before are forgotten.
FilledNever(row) == row

\* The geometry of a row, computed if it has none.
Filled(row) == [row EXCEPT !.geom = IF @ = NULL THEN row.geojson ELSE @]

Backfill(i) ==
    /\ Stage(i, "backfill")
    /\ parcels' = [p \in ParcelId |-> Filled(parcels[p])]
    /\ Goto(i, "find")
    /\ UNCHANGED <<schema, account, changes, overlapped, strays, outages>>

Seed(i) == Seeds[server[i].seed]

\* The seeding of one account is done: the next one, or serve.
Seeded(i) ==
    server' = [server EXCEPT ![i] = IF server[i].seed = Len(Seeds) THEN At("serving", 1)
                                    ELSE At("find", server[i].seed + 1)]

\* Mutant of NeedsSeed: a database with an account is taken for seeded.
NeedsSeedWhenEmpty(i) == \A n \in Accounts : account[n] = NoAccount

NeedsSeed(i) == account[Seed(i)] = NoAccount

FindSeed(i) ==
    /\ Stage(i, "find")
    /\ IF NeedsSeed(i) THEN server' = [server EXCEPT ![i].stage = "create"] ELSE Seeded(i)
    /\ UNCHANGED <<schema, parcels, account, changes, overlapped, strays, outages>>

RoleAllowed(role) == constraint = "legacy" => role \in LegacyRoles

\* The unique index on the name and the role constraint decide.
CreateSeed(i) ==
    /\ Stage(i, "create")
    /\ IF account[Seed(i)] = NoAccount /\ RoleAllowed(Seed(i))
       THEN /\ account' = [account EXCEPT ![Seed(i)] = [role |-> Seed(i), active |-> TRUE]]
            /\ Seeded(i)
       ELSE Exit(i) /\ UNCHANGED account
    /\ UNCHANGED <<schema, parcels, changes, overlapped, strays, outages>>

BootStep(i) ==
    \/ AutoMigrate(i) \/ DropConstraint(i) \/ AddConstraint(i) \/ AddColumn(i)
    \/ DropTrigger(i) \/ CreateTrigger(i)  \/ Backfill(i)
    \/ FindSeed(i)    \/ CreateSeed(i)

\* The process ends: killed, or by os.Exit after a statement that failed.
Die(i) ==
    /\ Alive(i)
    /\ outages < MaxOutages
    /\ outages' = outages + 1
    /\ Exit(i)
    /\ UNCHANGED <<schema, parcels, account, changes, overlapped, strays>>

\* SIGTERM: no new requests.
Drain(i) ==
    /\ Stage(i, "serving")
    /\ outages < MaxOutages
    /\ outages' = outages + 1
    /\ Goto(i, "draining")
    /\ UNCHANGED <<schema, parcels, account, changes, overlapped, strays>>

\* The requests are over, or the shutdown timeout is.
Stop(i) ==
    /\ Stage(i, "draining")
    /\ Exit(i)
    /\ UNCHANGED <<schema, parcels, account, changes, overlapped, strays, outages>>

\* An operator changes an account in the database.
ChangeAccount(n) ==
    \E changed \in OutsideStates :
        /\ account[n] # NoAccount /\ account[n] # changed
        /\ Len(changes[n]) < MaxChanges
        /\ RoleAllowed(changed.role)
        /\ account' = [account EXCEPT ![n] = changed]
        /\ changes' = [changes EXCEPT ![n] = Append(@, changed)]
        /\ UNCHANGED <<schema, parcels, server, overlapped, strays, outages>>

-----------------------------------------------------------------------------
(* Correctness *)

\* Whatever crashed or raced before, an instance that serves finds all seed
\* accounts; and no start has ever touched an account that was there: each is
\* as it was last left from outside, deactivated ones included, or as seeded.
SeedIsComplete ==
    \A n \in Accounts :
        /\ (\E i \in Instance : Stage(i, "serving")) => account[n] # NoAccount
        /\ account[n] = IF changes[n] # <<>> THEN changes[n][Len(changes[n])]
                        ELSE IF account[n] = NoAccount THEN NoAccount
                        ELSE [role |-> n, active |-> TRUE]

\* While an instance serves, the spatial column of every parcel mirrors its
\* GeoJSON, through restarts, crashes between any two statements of the
\* migration and rows older than the column.  Two instances at once do not
\* keep this: between DROP and CREATE TRIGGER of one the other's update leaves
\* an old geometry that no backfill looks at.
Mirrors ==
    ~overlapped /\ (\E i \in Instance : Stage(i, "serving")) =>
        /\ constraint = "current" /\ trigger
        /\ \A p \in ParcelId : parcels[p].geom = parcels[p].geojson

\* Whatever is left behind by crashes and by instances that ran into each
\* other's statements, the service comes up (again).
ComesUp == []<>(\E i \in Instance : Stage(i, "serving"))
=============================================================================
