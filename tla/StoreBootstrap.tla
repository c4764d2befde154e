--------------------------- MODULE StoreBootstrap ---------------------------
(***************************************************************************)
(* The metrics store comes up (app/metrics_storage.py, get_engine): the    *)
(* first call in a process migrates a database of an earlier release and   *)
(* applies the schema, in many transactions, of which any may fail and     *)
(* between any two of which the process may die; threads of a process      *)
(* share a lock, processes on PostgreSQL an advisory lock.  On SQLite      *)
(* there is one process; pysqlite commits DDL at once, so that only the    *)
(* copy and swap of a rebuilt table are a transaction.                     *)
(*                                                                         *)
(* The rows of a table are abstracted to the projects they belong to:      *)
(* "unowned" before the column exists, "legacy" from its default, "P" for  *)
(* the rows of this release.  Of the columns, only those that migrations   *)
(* add are named; indexes are part of the step that creates them.          *)
(***************************************************************************)
EXTENDS Absent, Integers, Sequences, SequencesExt

CONSTANTS
  BootThread, Process,
  ProcessOf,          \* the process of each thread
  MaxFailures         \* bound: failed transactions and crashes

ASSUME BootAssumption ==
  /\ ProcessOf \in [BootThread -> Process]
  /\ MaxFailures \in Nat
  /\ None \notin BootThread

VARIABLES
  dialect,            \* "postgres" or "sqlite"
  tables,             \* the tables that exist
  columns, rows,      \* of each table
  rekeyed,            \* the tables with the primary key of this release
  aside,              \* the tables <table>__new that exist
  boot,               \* the local state of each thread
  engineLock,         \* who holds _engine_lock, by process
  advisoryLock,       \* which thread holds the PostgreSQL session lock
  initialized,        \* the processes with _initialized
  failures

database == <<dialect, tables, columns, rows, rekeyed, aside>>
bootVars == <<database, boot, engineLock, advisoryLock, initialized, failures>>

------------------------------------------------------------------------------
\* The schema of this release and the way to it

SourceKey == {"connection_id", "schema_name"}
ModelKey == {"model_version", "feature_schema_version"}
LoadSafety == <<"table_allowlist", "table_denylist", "max_tables_per_tick",
                "skip_tables_larger_than_gb", "statement_timeout_ms">>
Iceberg == <<"iceberg_namespace", "iceberg_warehouse", "iceberg_auth_token_encrypted">>
IcebergSafety == <<"iceberg_namespace_allowlist", "metadata_only_mode">>
Probe == {"last_probe_at", "last_probe_status", "last_probe_tables_found",
          "last_probe_error"}
ConnectionColumns == LoadSafety \o Iceberg \o <<"collection_mode">> \o IcebergSafety

\* The order of the CREATE statements.
Creation ==
  <<"metrics", "changepoints", "schema_snapshots", "schema_events",
    "anomaly_scores", "drift_reports", "llm_explanations", "telegram_throttle",
    "notifications", "users", "projects", "project_members", "connections",
    "collector_runs", "collector_run_tables", "failed_login_attempts",
    "password_reset_tokens", "project_invites", "project_notifications",
    "source_schema_snapshots">>
StoreTable == ToSet(Creation)
Rekeyable == {"anomaly_scores", "changepoints", "drift_reports", "llm_explanations"}
Tenanted == Rekeyable \cup {"metrics", "schema_events", "notifications",
                            "schema_snapshots", "telegram_throttle"}
Cache == {"schema_snapshots", "telegram_throttle"}

AddedTo(t) ==
  CASE t = "metrics"                 -> {"project_id"} \cup SourceKey
    [] t = "anomaly_scores"          -> {"project_id", "is_demo"} \cup SourceKey \cup ModelKey
    [] t = "llm_explanations"        -> {"project_id"} \cup SourceKey
    [] t = "users"                   -> {"is_admin"}
    [] t = "connections"             -> ToSet(ConnectionColumns) \cup Probe
    [] t \in Tenanted \ {"metrics", "anomaly_scores", "llm_explanations"} -> {"project_id"}
    [] OTHER                         -> {}

Added == [t \in StoreTable |-> AddedTo(t)]

Add(t, cs) == [do |-> "add", table |-> t, columns |-> cs]
AddEach(t, cs) == [i \in 1 .. Len(cs) |-> Add(t, {cs[i]})]
Do(what, t) == [do |-> what, table |-> t, columns |-> {}]
Rebuilds == <<Do("rebuild", "anomaly_scores"), Do("rebuild", "changepoints"),
              Do("rebuild", "drift_reports"), Do("rebuild", "llm_explanations")>>
InferenceColumns == <<Add("metrics", SourceKey), Add("anomaly_scores", Added["anomaly_scores"]),
                      Add("llm_explanations", Added["llm_explanations"])>>

\* Mutant: the tables are rebuilt before they have the columns to copy.
RebuildFirst == Rebuilds \o InferenceColumns

ToProjectKeys == InferenceColumns \o Rebuilds

Migrations ==
  <<Add("metrics", {"project_id"}), Add("schema_events", {"project_id"}),
    Add("notifications", {"project_id"}), Do("drop", "schema_snapshots"),
    Add("users", {"is_admin"}), Do("drop", "telegram_throttle")>>
  \o AddEach("connections", ConnectionColumns)
  \o <<Add("connections", Probe)>>
  \o ToProjectKeys
  \o <<Do("backfill", "project_members")>>

Plan == Migrations \o [i \in 1 .. Len(Creation) |-> Do("create", Creation[i])]

------------------------------------------------------------------------------
\* Initial states: a database of each earlier release

OldTables == [r \in {"empty", "first", "untenanted", "single owner"} |->
  CASE r = "empty"        -> {}
    [] r = "first"        -> {"metrics", "schema_events", "notifications"}
    [] r = "untenanted"   -> {"metrics", "changepoints", "schema_snapshots", "schema_events",
                              "anomaly_scores", "drift_reports", "llm_explanations",
                              "telegram_throttle", "notifications"}
    [] r = "single owner" -> StoreTable \ {"project_members", "project_invites",
                                      "project_notifications", "source_schema_snapshots"}]

\* What a release had of the added columns; all of them had projects once
\* they had users.
OldColumns(r, t) ==
  IF r = "single owner" /\ t \in Tenanted \ {"schema_snapshots"} THEN {"project_id"}
  ELSE IF r = "single owner" /\ t = "connections" THEN ToSet(LoadSafety) ELSE {}

NoBoot == [pc |-> "idle", step |-> 1, seen |-> {}, members |-> FALSE]

BootInit ==
  /\ dialect \in {"postgres", "sqlite"}
  /\ \E r \in DOMAIN OldTables :
       /\ tables = OldTables[r]
       /\ columns = [t \in StoreTable |-> OldColumns(r, t) \cap Added[t]]
       /\ rows = [t \in StoreTable |-> IF t \notin OldTables[r] THEN {}
                                  ELSE IF OldColumns(r, t) = {} /\ t \in Tenanted
                                  THEN {"unowned"} ELSE {"legacy"}]
       /\ rekeyed = IF r = "single owner" THEN {"changepoints", "drift_reports"} ELSE {}
  /\ aside = {}
  /\ boot = [b \in BootThread |-> NoBoot]
  /\ engineLock = [p \in Process |-> None]
  /\ advisoryLock = None
  /\ initialized = {}
  /\ failures = 0

------------------------------------------------------------------------------
\* get_engine: the locks

AtBoot(b, pc) == boot[b].pc = pc
SetPc(b, pc) == boot' = [boot EXCEPT ![b].pc = pc]
Step(b) == Plan[boot[b].step]

\* One process on SQLite.
Runs(p) == dialect = "postgres" \/ p = ProcessOf[CHOOSE b \in BootThread : TRUE]

Call(b) ==
  /\ AtBoot(b, "idle") /\ Runs(ProcessOf[b])
  /\ ProcessOf[b] \notin initialized
  /\ SetPc(b, "engine lock")
  /\ UNCHANGED <<database, engineLock, advisoryLock, initialized, failures>>

\* The second look, under the lock.
LockEngine(b) ==
  LET p == ProcessOf[b] IN
  /\ AtBoot(b, "engine lock")
  /\ engineLock[p] = None
  /\ IF p \in initialized
       THEN SetPc(b, "idle") /\ UNCHANGED engineLock
       ELSE /\ SetPc(b, "advisory lock")
            /\ engineLock' = [engineLock EXCEPT ![p] = b]
  /\ UNCHANGED <<database, advisoryLock, initialized, failures>>

Start(b) ==
  boot' = [boot EXCEPT ![b] = [NoBoot EXCEPT !.pc = "inspecting",
                                             !.members = "project_members" \in tables]]

LockStore(b) ==
  /\ AtBoot(b, "advisory lock")
  /\ IF dialect = "postgres" THEN advisoryLock = None /\ advisoryLock' = b
                             ELSE UNCHANGED advisoryLock
  /\ Start(b)
  /\ UNCHANGED <<database, engineLock, initialized, failures>>

\* The way out of both `with` and `finally`.
Release(b) ==
  /\ engineLock' = [engineLock EXCEPT ![ProcessOf[b]] = None]
  /\ advisoryLock' = IF advisoryLock = b THEN None ELSE advisoryLock

------------------------------------------------------------------------------
\* One step of the plan: what is there, then a transaction

\* Mutant: the process counts as initialized from the first step on.
AdvanceEarly(b) ==
  /\ initialized' = initialized \cup {ProcessOf[b]}
  /\ boot' = IF boot[b].step = Len(Plan)
               THEN [boot EXCEPT ![b].pc = "done"]
               ELSE [boot EXCEPT ![b].pc = "inspecting", ![b].step = @ + 1, ![b].seen = {}]

Advance(b) ==
  IF boot[b].step = Len(Plan)
    THEN /\ initialized' = initialized \cup {ProcessOf[b]}
         /\ boot' = [boot EXCEPT ![b].pc = "done"]
    ELSE /\ boot' = [boot EXCEPT ![b].pc = "inspecting", ![b].step = @ + 1, ![b].seen = {}]
         /\ UNCHANGED initialized

\* Whether the step has nothing to do.
Settled(s) ==
  CASE s.do = "add"      -> s.table \notin tables \/ s.columns \subseteq columns[s.table]
    [] s.do = "drop"     -> s.table \notin tables \/ "project_id" \in columns[s.table]
    [] s.do = "rebuild"  -> s.table \notin tables
                            \/ ("project_id" \in columns[s.table] /\ s.table \in rekeyed)
    [] s.do = "backfill" -> ~({"projects", "project_members"} \subseteq tables)
    [] s.do = "create"   -> FALSE

InspectStep(b) ==
  /\ AtBoot(b, "inspecting")
  /\ IF Settled(Step(b))
       THEN Advance(b)
       ELSE /\ boot' = [boot EXCEPT ![b].pc = "applying", ![b].seen = columns[Step(b).table]]
            /\ UNCHANGED initialized
  /\ UNCHANGED <<database, engineLock, advisoryLock, failures>>

\* The default of project_id gives the rows that have none to 'legacy'.
Owned(rs) == {IF r = "unowned" THEN "legacy" ELSE r : r \in rs}

\* PostgreSQL adds the columns of
\* a step in one transaction, SQLite one by one.
AddColumns(b, t, cs) ==
  /\ \E new \in SUBSET (cs \ boot[b].seen) :
       /\ new # {}
       /\ (dialect = "postgres") => new = cs \ boot[b].seen
       /\ columns' = [columns EXCEPT ![t] = @ \cup new]
       /\ rows' = [rows EXCEPT ![t] = IF "project_id" \in new THEN Owned(@) ELSE @]
       /\ IF cs \ (boot[b].seen \cup new) = {}
            THEN Advance(b)
            ELSE boot' = [boot EXCEPT ![b].seen = @ \cup new] /\ UNCHANGED initialized
  /\ UNCHANGED <<tables, rekeyed, aside>>

DropTable(b, t) ==
  /\ tables' = tables \ {t}
  /\ columns' = [columns EXCEPT ![t] = {}]
  /\ rows' = [rows EXCEPT ![t] = {}]
  /\ Advance(b)
  /\ UNCHANGED <<rekeyed, aside>>

\* The copy reads the columns of the new table when the old one was seen to
\* have a project, and a list of its own, which only two tables have right,
\* when it was not: then every row becomes legacy.
Copies(b, t) ==
  IF "project_id" \in boot[b].seen THEN Added[t] \subseteq columns[t]
                                   ELSE t \in {"changepoints", "drift_reports"}
CopyOf(b, t) == IF "project_id" \in boot[b].seen THEN rows[t]
                ELSE IF rows[t] = {} THEN {} ELSE {"legacy"}

\* <table>__new is made anew; it is empty until the copy.
SetAside(t) ==
  /\ aside' = aside \cup {t}
  /\ UNCHANGED <<tables, columns, rows, rekeyed, boot, initialized>>

\* Mutant: the old table is dropped in a transaction of its own.
DropThenSwap(b, t) ==
  /\ IF t \in tables
       THEN tables' = tables \ {t} /\ rows' = [rows EXCEPT ![t] = {}]
            /\ UNCHANGED <<aside, rekeyed, columns, boot, initialized>>
       ELSE /\ tables' = tables \cup {t}
            /\ aside' = aside \ {t}
            /\ rekeyed' = rekeyed \cup {t}
            /\ columns' = [columns EXCEPT ![t] = Added[t]]
            /\ rows' = [rows EXCEPT ![t] = Owned(@)]
            /\ Advance(b)

CopyAndSwap(b, t) ==
  /\ aside' = aside \ {t}
  /\ rekeyed' = rekeyed \cup {t}
  /\ columns' = [columns EXCEPT ![t] = Added[t]]
  /\ rows' = [rows EXCEPT ![t] = CopyOf(b, t)]
  /\ Advance(b)
  /\ UNCHANGED tables

RekeyInPlace(b, t) ==
  LET new == {"project_id"} \ boot[b].seen IN
  /\ columns' = [columns EXCEPT ![t] = @ \cup new]
  /\ rows' = [rows EXCEPT ![t] = IF new = {} THEN @ ELSE Owned(@)]
  /\ rekeyed' = rekeyed \cup {t}
  /\ Advance(b)
  /\ UNCHANGED <<tables, aside>>

Rebuild(b, t) ==
  \/ dialect = "postgres" /\ RekeyInPlace(b, t)
  \/ dialect = "sqlite" /\ t \notin aside /\ SetAside(t)
  \/ dialect = "sqlite" /\ t \in aside /\ CopyAndSwap(b, t)

Backfill(b) ==
  /\ rows' = [rows EXCEPT !["project_members"] = @ \cup rows["projects"]]
  /\ Advance(b)
  /\ UNCHANGED <<tables, columns, rekeyed, aside>>

\* IF NOT EXISTS: a table that is there stays as it is; the indexes want the
\* columns, whoever made it.  The optional statements of TimescaleDB go with
\* the table they are about.
Create(b, t) ==
  /\ tables' = tables \cup {t}
  /\ columns' = [columns EXCEPT ![t] = IF t \in tables THEN @ ELSE Added[t]]
  /\ rekeyed' = IF t \in Rekeyable \ tables THEN rekeyed \cup {t} ELSE rekeyed
  /\ Advance(b)
  /\ UNCHANGED <<rows, aside>>

\* Adding what is there, copying or indexing what is not, is an error.
Applicable(b) ==
  LET s == Step(b)
      t == s.table
      seen == boot[b].seen IN
  CASE s.do = "add"     -> t \in tables /\ (s.columns \ seen) \cap columns[t] = {}
    [] s.do = "rebuild" ->
         IF dialect = "sqlite" THEN t \in tables /\ Copies(b, t)
         ELSE /\ t \in tables /\ ({"project_id"} \ seen) \cap columns[t] = {}
              /\ Added[t] \subseteq columns[t] \cup {"project_id"}
    [] s.do = "create"  -> t \in tables \cap Tenanted => Added[t] \subseteq columns[t]
    [] OTHER            -> TRUE

Apply(b) ==
  LET s == Step(b) IN
  \/ s.do = "add" /\ AddColumns(b, s.table, s.columns)
  \/ s.do = "drop" /\ DropTable(b, s.table)
  \/ s.do = "rebuild" /\ Rebuild(b, s.table)
  \/ s.do = "backfill" /\ Backfill(b)
  \/ s.do = "create" /\ Create(b, s.table)

ApplyStep(b) ==
  /\ AtBoot(b, "applying")
  /\ Applicable(b)
  /\ Apply(b)
  /\ UNCHANGED <<dialect, engineLock, advisoryLock, failures>>

Return(b) ==
  /\ AtBoot(b, "done")
  /\ boot' = [boot EXCEPT ![b] = NoBoot]
  /\ Release(b)
  /\ UNCHANGED <<database, initialized, failures>>

------------------------------------------------------------------------------
\* Failures

\* The transaction is rolled back, the call raises, and the next call tries
\* again from the first step.  A step that cannot be applied always fails.
FailBoot(b) ==
  /\ boot' = [boot EXCEPT ![b] = NoBoot]
  /\ Release(b)
  /\ UNCHANGED <<database, initialized>>

BootFails(b) ==
  AtBoot(b, "applying") /\ failures < MaxFailures /\ FailBoot(b) /\ failures' = failures + 1
Refuse(b) == AtBoot(b, "applying") /\ ~Applicable(b) /\ FailBoot(b) /\ UNCHANGED failures

Crash(p) ==
  /\ failures < MaxFailures
  /\ failures' = failures + 1
  /\ boot' = [b \in BootThread |-> IF ProcessOf[b] = p THEN NoBoot ELSE boot[b]]
  /\ engineLock' = [engineLock EXCEPT ![p] = None]
  /\ advisoryLock' = IF advisoryLock # None /\ ProcessOf[advisoryLock] = p
                       THEN None ELSE advisoryLock
  /\ initialized' = initialized \ {p}
  /\ UNCHANGED database

\* A process that is up stores rows of its project, its owner's among them.
Use(p) ==
  /\ p \in initialized
  /\ rows' = [t \in StoreTable |-> rows[t] \cup {"P"}]
  /\ UNCHANGED <<dialect, tables, columns, rekeyed, aside, boot, engineLock,
                 advisoryLock, initialized, failures>>

BootStep(b) ==
  LockEngine(b) \/ LockStore(b) \/ InspectStep(b) \/ ApplyStep(b) \/ Return(b) \/ Refuse(b)

BootNext ==
  \/ \E b \in BootThread : Call(b) \/ BootStep(b) \/ BootFails(b)
  \/ \E p \in Process : Crash(p) \/ Use(p)

\* The calls are those of the start and of every request; a thread that waits
\* for a lock gets it when the others are done with it.
BootFairness ==
  \A b \in BootThread : WF_bootVars(Call(b)) /\ WF_bootVars(BootStep(b))

BootSpec == BootInit /\ [][BootNext]_bootVars /\ BootFairness

------------------------------------------------------------------------------
\* Properties

\* Whatever fails, dies or races, no row of a table that is not a cache is
\* lost, none of a project becomes another's, and none loses its owner
\* (_migrate_existing_schema and what it calls).
RowsSurvive ==
  [][\A t \in StoreTable \ Cache :
       /\ "P" \in rows[t] => "P" \in rows'[t]
       /\ rows[t] \cap {"unowned", "legacy"} # {} => rows'[t] \cap {"unowned", "legacy"} # {}
       /\ "unowned" \in rows'[t] => "unowned" \in rows[t]]_bootVars

\* A process serves only with the schema of this release complete, from
\* whatever release and whatever half-way state the database came
\* (get_engine); and when the table of members was there before its boot,
\* every project's owner is a member.
SchemaIsComplete ==
  /\ initialized # {} =>
       /\ tables = StoreTable /\ rekeyed = Rekeyable
       /\ columns = Added
       /\ \A t \in Tenanted : "unowned" \notin rows[t]
  /\ \A b \in BootThread :
       AtBoot(b, "done") /\ boot[b].members => rows["projects"] \subseteq rows["project_members"]

\* Once nothing fails any more, every process gets its store: no lock is left
\* taken and no half-way state stops the next boot (get_engine).
EveryProcessBoots == \A p \in Process : <>[](Runs(p) => p \in initialized)
=============================================================================
