--------------------------- MODULE StoreBootstrap ---------------------------
(***************************************************************************)
(* StoreRuntime::open of memory-store: the choice of a backend, the        *)
(* fallback from Turso sync to the embedded database, and the migrations.  *)
(*                                                                         *)
(* Several openers - tasks of a process, or processes - open the same      *)
(* database file.  Every await of open is a place where another opener     *)
(* runs, the process dies or the call fails (SQLITE_BUSY, I/O); SQLite     *)
(* makes a single statement atomic, and nothing in open makes more than    *)
(* one statement so: a migration is a batch of statements without a        *)
(* transaction and, apart from it, the row that records it.                *)
(*                                                                         *)
(* A schema object <<v, k>> is what the k-th statement of migration v      *)
(* creates: every statement is CREATE ... IF NOT EXISTS, the first one of  *)
(* a migration creates its table.                                          *)
(*                                                                         *)
(* An operator named X_Something is X with a fault seeded in it; no other  *)
(* definition uses it.                                                     *)
(***************************************************************************)
EXTENDS Naturals

CONSTANTS
  Opener,        \* the tasks and processes that open the store
  LastVersion,   \* MIGRATIONS are the versions 0..LastVersion
  Statements,    \* the number of statements of each of them
  Config,        \* the environments an opener may find
  MaxFailures    \* bound: failed calls and crashes

Version == 0..LastVersion
Object  == UNION {{v} \X (1..Statements[v]) : v \in Version}

ASSUME LastVersionAssumption == LastVersion \in Nat
ASSUME StatementsAssumption == Statements \in [Version -> Nat \ {0}]
ASSUME ConfigAssumption ==
  Config \subseteq [sync_enabled : BOOLEAN, credentials : BOOLEAN,
                    turso_sync_required : BOOLEAN]
ASSUME MaxFailuresAssumption == MaxFailures \in Nat

VARIABLES
  objects,       \* the file: schema objects
  recorded,      \* the file: versions in _nodamem_migrations
  pc,            \* where the call of open stands
  config,        \* StoreRuntime.config of the opener
  database,      \* the kind of database it built
  version,       \* the migration it is at
  statement,     \* the statement of that migration it is at
  failures,      \* history: failures and crashes so far
  undisturbed    \* history: no other call of open ran during this one

file == <<objects, recorded>>
vars == <<file, pc, config, database, version, statement, failures, undisturbed>>

-----------------------------------------------------------------------------
(* StoreConfig::turso_sync_config and select_backend; incomplete           *)
(* credentials only log a warning.                                         *)
Backend(c) == IF c.sync_enabled /\ c.credentials THEN "Synced" ELSE "LocalOnly"

ShouldRunLocalMigrations_OnNewFile(p) ==
  Backend(config[p]) = "LocalOnly" /\ <<0, 1>> \notin objects
(* should_run_local_migrations looks at the backend that was selected, not *)
(* at the database that was built.                                         *)
ShouldRunLocalMigrations(p) == Backend(config[p]) = "LocalOnly"

Goto(p, label) == pc' = [pc EXCEPT ![p] = label]

(* The call of open is over and its locals are gone. *)
Leave(p, label) ==
  /\ Goto(p, label)
  /\ database' = [database EXCEPT ![p] = "none"]
  /\ version' = [version EXCEPT ![p] = 0]
  /\ statement' = [statement EXCEPT ![p] = 1]

Started == {"building", "connected", "checking", "executing", "recording"}

(* A call of open begins, in whatever environment its process has. *)
Start(p) ==
  /\ pc[p] \in {"closed", "failed"}
  /\ \E c \in Config : config' = [config EXCEPT ![p] = c]
  /\ Goto(p, "building")
  /\ undisturbed' = [q \in Opener |->
       IF q = p THEN \A r \in Opener \ {p} : pc[r] \notin Started
                ELSE undisturbed[q] /\ pc[q] \notin Started]
  /\ UNCHANGED <<file, database, version, statement, failures>>

BuildLocal(p) ==
  /\ pc[p] = "building"
  /\ Backend(config[p]) = "LocalOnly"
  /\ database' = [database EXCEPT ![p] = "local"]
  /\ Goto(p, "connected")
  /\ UNCHANGED <<file, config, version, statement, failures, undisturbed>>

(* The synced build works; the schema is managed outside, so what the      *)
(* replica brings is what the file had or the tables of the remote.        *)
BuildSynced(p) ==
  /\ pc[p] = "building"
  /\ Backend(config[p]) = "Synced"
  /\ database' = [database EXCEPT ![p] = "synced"]
  /\ objects' \in {objects, Object}
  /\ Goto(p, "connected")
  /\ UNCHANGED <<recorded, config, version, statement, failures, undisturbed>>

(* try_open_synced_database: the synced build fails.  If sync is required  *)
(* open fails, if not it goes on with a local database.                    *)
SyncedBuildFails(p) ==
  /\ pc[p] = "building"
  /\ Backend(config[p]) = "Synced"
  /\ failures < MaxFailures
  /\ failures' = failures + 1
  /\ IF config[p].turso_sync_required
     THEN Leave(p, "failed")
     ELSE /\ database' = [database EXCEPT ![p] = "local"]
          /\ Goto(p, "connected")
          /\ UNCHANGED <<version, statement>>
  /\ UNCHANGED <<file, config, undisturbed>>

SkipMigrations(p) ==
  /\ pc[p] = "connected"
  /\ ~ShouldRunLocalMigrations(p)
  /\ Goto(p, "open")
  /\ UNCHANGED <<file, config, database, version, statement, failures, undisturbed>>

RunMigrations(p) ==
  /\ pc[p] = "connected"
  /\ ShouldRunLocalMigrations(p)
  /\ Goto(p, "checking")
  /\ UNCHANGED <<file, config, database, version, statement, failures, undisturbed>>

-----------------------------------------------------------------------------
(* run_migrations *)

NextMigration_PastTheEnd(p) ==
  IF version[p] > LastVersion
  THEN Goto(p, "open") /\ UNCHANGED <<version, statement>>
  ELSE /\ Goto(p, "checking")
       /\ version' = [version EXCEPT ![p] = @ + 1]
       /\ statement' = [statement EXCEPT ![p] = 1]
(* The loop goes to the next migration; after the last, open returns. *)
NextMigration(p) ==
  IF version[p] = LastVersion
  THEN Goto(p, "open") /\ UNCHANGED <<version, statement>>
  ELSE /\ Goto(p, "checking")
       /\ version' = [version EXCEPT ![p] = @ + 1]
       /\ statement' = [statement EXCEPT ![p] = 1]

ShouldApply_Never0000(p) == version[p] # 0 /\ version[p] \notin recorded
ShouldApply_TableExists(p) == <<version[p], 1>> \notin objects
ShouldApply_Unchecked(p) == TRUE
ShouldApply(p) == version[p] = 0 \/ version[p] \notin recorded

(* migration_applied: the query fails without the table it reads. *)
CheckMigration(p) ==
  /\ pc[p] = "checking"
  /\ IF version[p] # 0 /\ <<0, 1>> \notin objects
     THEN Leave(p, "failed")
     ELSE /\ IF ShouldApply(p)
             THEN Goto(p, "executing") /\ UNCHANGED <<version, statement>>
             ELSE NextMigration(p)
          /\ UNCHANGED database
  /\ UNCHANGED <<file, config, failures, undisturbed>>

LastStatement_OffByOne(p) == statement[p] + 1 >= Statements[version[p]]
LastStatement(p) == statement[p] = Statements[version[p]]

(* execute_batch runs one more statement of the migration. *)
ExecuteStatement(p) ==
  /\ pc[p] = "executing"
  /\ objects' = objects \union {<<version[p], statement[p]>>}
  /\ IF ~LastStatement(p)
     THEN /\ statement' = [statement EXCEPT ![p] = @ + 1]
          /\ UNCHANGED <<pc, version>>
     ELSE IF version[p] = 0
     THEN NextMigration(p)
     ELSE Goto(p, "recording") /\ UNCHANGED <<version, statement>>
  /\ UNCHANGED <<recorded, config, database, failures, undisturbed>>

(* record_migration: a plain INSERT under a primary key, which fails when  *)
(* another opener has recorded the version since it was checked.           *)
RecordMigration(p) ==
  /\ pc[p] = "recording"
  /\ IF version[p] \in recorded
     THEN Leave(p, "failed") /\ UNCHANGED recorded
     ELSE /\ recorded' = recorded \union {version[p]}
          /\ NextMigration(p)
          /\ UNCHANGED database
  /\ UNCHANGED <<objects, config, failures, undisturbed>>

-----------------------------------------------------------------------------
(* An awaited call returns an error, and open returns it. *)
CallFails(p) ==
  /\ pc[p] \in Started
  /\ Backend(config[p]) = "Synced" => pc[p] # "building"
  /\ failures < MaxFailures
  /\ failures' = failures + 1
  /\ Leave(p, "failed")
  /\ UNCHANGED <<file, config, undisturbed>>

(* The process dies, in open or later; the file stays as it is. *)
Crash(p) ==
  /\ pc[p] \in Started \union {"open"}
  /\ failures < MaxFailures
  /\ failures' = failures + 1
  /\ Leave(p, "closed")
  /\ UNCHANGED <<file, config, undisturbed>>

(* The StoreRuntime is dropped. *)
Close(p) ==
  /\ pc[p] = "open"
  /\ Leave(p, "closed")
  /\ UNCHANGED <<file, config, failures, undisturbed>>

-----------------------------------------------------------------------------
Init ==
  /\ objects = {}
  /\ recorded = {}
  /\ pc = [p \in Opener |-> "closed"]
  /\ config \in [Opener -> Config]
  /\ database = [p \in Opener |-> "none"]
  /\ version = [p \in Opener |-> 0]
  /\ statement = [p \in Opener |-> 1]
  /\ failures = 0
  /\ undisturbed = [p \in Opener |-> FALSE]

(* The steps of open itself. *)
Open(p) ==
  \/ BuildLocal(p)
  \/ BuildSynced(p)
  \/ SkipMigrations(p)
  \/ RunMigrations(p)
  \/ CheckMigration(p)
  \/ ExecuteStatement(p)
  \/ RecordMigration(p)

Next == \E p \in Opener :
  \/ Start(p)
  \/ Open(p)
  \/ SyncedBuildFails(p)
  \/ CallFails(p)
  \/ Crash(p)
  \/ Close(p)

Spec == Init /\ [][Next]_vars

(* A call of open that has begun goes on: its futures are polled.  Nothing *)
(* in the code calls open again; that is asked of whoever runs the openers.*)
Fairness == \A p \in Opener : WF_vars(Open(p)) /\ WF_vars(Start(p))

FairSpec == Spec /\ Fairness

-----------------------------------------------------------------------------
(* Properties *)

TypeOK ==
  /\ objects \subseteq Object
  /\ recorded \subseteq 1..LastVersion
  /\ pc \in [Opener -> Started \union {"closed", "failed", "open"}]
  /\ config \in [Opener -> Config]
  /\ database \in [Opener -> {"none", "local", "synced"}]
  /\ version \in [Opener -> Version]
  /\ statement \in [Opener -> Nat]
  /\ \A p \in Opener : statement[p] \in 1..Statements[version[p]]
  /\ failures \in Nat
  /\ undisturbed \in [Opener -> BOOLEAN]

Installed(v) == \A k \in 1..Statements[v] : <<v, k>> \in objects

(* A recorded migration is installed in full: wherever a process died or   *)
(* failed in the middle of a batch, and whoever else ran the same batch at *)
(* the time, no later open skips a table, index or trigger that is missing.*)
RecordedInstalled == \A v \in recorded : Installed(v)

(* A store that was opened local-only has the whole schema.                *)
LocalOnlyServesSchema ==
  \A p \in Opener :
    pc[p] = "open" /\ Backend(config[p]) = "LocalOnly" =>
      \A v \in Version : Installed(v)

(* Only a race makes recording fail: an opener that runs with no other     *)
(* opener about never meets, on its way to the row, a row that an attempt  *)
(* before it left behind, whatever cut that attempt short.                 *)
RetryMeetsNoConflict ==
  \A p \in Opener :
    pc[p] = "recording" /\ undisturbed[p] => version[p] \notin recorded

SchemaOf == INSTANCE SchemaHistory WITH
  applied <- recorded,
  serving <- {p \in Opener : pc[p] = "open" /\ Backend(config[p]) = "LocalOnly"}

(* Opening keeps the promise of SchemaHistory.                             *)
SchemaApplied == SchemaOf!Spec

(* However the openers race and whatever crashes and failures there are in *)
(* between, an opener that keeps calling open gets its store once they     *)
(* stop: losing a race costs an attempt and never blocks the schema.       *)
OpenEventually == \A p \in Opener : []<>(pc[p] = "open")

(* README: a store whose remote initialization fails falls back to         *)
(* local-only mode, for which the local migrations run.  An open store on  *)
(* a local database has the nodes table.                                   *)
FallbackHasSchema ==
  \A p \in Opener : pc[p] = "open" /\ database[p] = "local" => <<1, 1>> \in objects
=============================================================================
