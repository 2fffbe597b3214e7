------------------------------- MODULE Startup -------------------------------
(***************************************************************************)
(* What a host does before it serves requests and starts its background    *)
(* service: Program.cs migrates the database and DataSeeder sees to the    *)
(* Qdrant collection.  Both read what is there and then add what is        *)
(* missing, in separate calls, while other hosts do the same; the call     *)
(* that comes second throws, nothing catches it, and the process ends.     *)
(***************************************************************************)
EXTENDS Integers

CONSTANTS
    Servers,         \* processes that run Presenter.API
    Migrations,      \* number of migrations in the assembly
    MaxFailedStarts  \* bound: crashes and failing calls

ASSUME StartupAssumption == Migrations \in Nat /\ MaxFailedStarts \in Nat

VARIABLES
    schema,       \* SQL Server: migrations in the history table
    collection,   \* Qdrant: collections of the configured name, 0 or 1
    stage,        \* stage[h]: where the startup of host h stands
    next,         \* next[h]: the migration host h applies next, from its own list
    lost,         \* history: startups of h that ended because another host was first
    failedStarts  \* crashes and failed calls so far, lost races apart

startupVars == <<schema, collection, stage, next, lost, failedStarts>>

StartupTypeOK ==
    /\ schema \in 0..Migrations
    /\ collection \in 0..1
    /\ stage \in [Servers -> {"down", "migrating", "checking", "creating", "serving"}]
    /\ next \in [Servers -> 1..(Migrations + 1)]
    /\ lost \in [Servers -> Nat]
    /\ failedStarts \in 0..MaxFailedStarts

StartupInit ==
    /\ schema \in 0..Migrations
    /\ collection \in 0..1
    /\ stage = [h \in Servers |-> "down"]
    /\ next = [h \in Servers |-> 1]
    /\ lost = [h \in Servers |-> 0]
    /\ failedStarts = 0

\* The exception leaves Main.
StartupThrows(h) ==
    /\ stage' = [stage EXCEPT ![h] = "down"]
    /\ lost' = [lost EXCEPT ![h] = @ + 1]

(***************************************************************************)
(* Database.Migrate: the pending migrations are listed once, then each is  *)
(* applied in a transaction of its own.  EF Core 8 takes no lock.          *)
(***************************************************************************)

\* Mutant of ListPending: every migration of the assembly is taken for pending.
ListPendingAll(h) ==
    /\ stage[h] = "down"
    /\ stage' = [stage EXCEPT ![h] = "migrating"]
    /\ next' = [next EXCEPT ![h] = 1]
    /\ UNCHANGED <<schema, collection, lost, failedStarts>>

ListPending(h) ==
    /\ stage[h] = "down"
    /\ stage' = [stage EXCEPT ![h] = "migrating"]
    /\ next' = [next EXCEPT ![h] = schema + 1]
    /\ UNCHANGED <<schema, collection, lost, failedStarts>>

\* Mutant of ApplyMigration: the list is not seen to end.
ApplyMigrationPastEnd(h) ==
    /\ stage[h] = "migrating"
    /\ next[h] <= Migrations + 1
    /\ IF schema < next[h]
         THEN /\ schema' = next[h]
              /\ next' = [next EXCEPT ![h] = @ + 1]
              /\ UNCHANGED <<stage, lost>>
         ELSE StartupThrows(h) /\ UNCHANGED <<schema, next>>
    /\ UNCHANGED <<collection, failedStarts>>

\* What a migration creates exists already if another host applied it.
ApplyMigration(h) ==
    /\ stage[h] = "migrating"
    /\ next[h] <= Migrations
    /\ IF schema < next[h]
         THEN /\ schema' = next[h]
              /\ next' = [next EXCEPT ![h] = @ + 1]
              /\ UNCHANGED <<stage, lost>>
         ELSE StartupThrows(h) /\ UNCHANGED <<schema, next>>
    /\ UNCHANGED <<collection, failedStarts>>

Migrated(h) ==
    /\ stage[h] = "migrating"
    /\ next[h] > Migrations
    /\ stage' = [stage EXCEPT ![h] = "checking"]
    /\ UNCHANGED <<schema, collection, next, lost, failedStarts>>

(***************************************************************************)
(* DataSeeder.SetupCollectionAsync.                                        *)
(***************************************************************************)

\* Mutant of CheckCollection: InitializeAsync is not awaited.
CheckCollectionUnawaited(h) ==
    /\ stage[h] = "checking"
    /\ \E then \in {"creating", "serving"} : stage' = [stage EXCEPT ![h] = then]
    /\ UNCHANGED <<schema, collection, next, lost, failedStarts>>

CheckCollection(h) ==
    /\ stage[h] = "checking"
    /\ stage' = [stage EXCEPT ![h] = IF collection = 1 THEN "serving" ELSE "creating"]
    /\ UNCHANGED <<schema, collection, next, lost, failedStarts>>

\* Mutant of CreateCollection: the create is tried again until it succeeds.
CreateCollectionRetrying(h) ==
    /\ stage[h] = "creating"
    /\ collection = 0
    /\ collection' = 1
    /\ stage' = [stage EXCEPT ![h] = "serving"]
    /\ UNCHANGED <<schema, next, lost, failedStarts>>

\* Qdrant refuses to create a collection that exists.
CreateCollection(h) ==
    /\ stage[h] = "creating"
    /\ collection' = 1
    /\ IF collection = 1
         THEN StartupThrows(h)
         ELSE stage' = [stage EXCEPT ![h] = "serving"] /\ UNCHANGED lost
    /\ UNCHANGED <<schema, next, failedStarts>>

\* The process dies or a call throws, before or after the call took effect.
Dies(h) ==
    /\ stage[h] # "down"
    /\ failedStarts < MaxFailedStarts
    /\ failedStarts' = failedStarts + 1
    /\ stage' = [stage EXCEPT ![h] = "down"]
    /\ \/ UNCHANGED <<schema, collection>>
       \/ /\ stage[h] = "migrating" /\ next[h] \in (schema + 1)..Migrations
          /\ schema' = next[h]
          /\ UNCHANGED collection
       \/ /\ stage[h] = "creating"
          /\ collection' = 1
          /\ UNCHANGED schema
    /\ UNCHANGED <<next, lost>>

Start(h) ==
    \/ ListPending(h) \/ ApplyMigration(h) \/ Migrated(h)
    \/ CheckCollection(h) \/ CreateCollection(h)

\* Nothing more happens when all hosts serve: what they do then is modelled by
\* ImportPipeline.
StartupNext == \E h \in Servers : Start(h) \/ Dies(h)

StartupSpec == StartupInit /\ [][StartupNext]_startupVars

\* A host that is down is started again by what deployed it, and calls return.
FairStartup == StartupSpec /\ \A h \in Servers : WF_startupVars(Start(h))

-----------------------------------------------------------------------------
(***************************************************************************)
(* What must hold.                                                         *)
(***************************************************************************)

\* A host that serves has every migration and the collection behind it, whoever
\* made them: the first upload, listing and upsert need them.
ServingIsReady == \A h \in Servers : stage[h] = "serving" => schema = Migrations /\ collection = 1

\* Each startup a host loses to a race goes back to a step that another host has
\* completed, and no step costs a host two startups.
Steps == schema + collection
LossesAreBounded == \A h \in Servers : lost[h] <= Steps

\* Races, crashes and half-done startups do not keep a host from serving.
EventuallyServing == \A h \in Servers : stage[h] = "down" ~> stage[h] = "serving"

-----------------------------------------------------------------------------
\* A host has lost no step that its list, or its check, still found missing; nobody
\* has got to the collection before the last migration.
ListedLosses ==
    \A h \in Servers :
        /\ next[h] <= schema + 1
        /\ schema < Migrations => lost[h] <= schema
        /\ stage[h] = "migrating" /\ next[h] <= Migrations => lost[h] < next[h]
        /\ stage[h] \in {"checking", "creating", "serving"} => schema = Migrations
        /\ stage[h] = "creating" => lost[h] <= Migrations

ReadyInv == StartupTypeOK /\ ServingIsReady /\ LossesAreBounded /\ ListedLosses
=============================================================================
