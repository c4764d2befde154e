---------------------------- MODULE CollectorTick ----------------------------
(***************************************************************************)
(* The body of one collector tick: collect_for_connection from the point   *)
(* where its run row says `running` and its adapter is built, to its       *)
(* return.  The tick walks the connection's namespaces, lists and filters  *)
(* their tables, collects each one, logs one line per table, and closes    *)
(* its run with the totals.                                                *)
(*                                                                         *)
(* Metadata calls run in a worker thread with a budget of time             *)
(* (_run_with_timeout); every call on the monitored database may fail, and *)
(* with DbFaults so may every write to the metrics store.                  *)
(*                                                                         *)
(* Abstracted: metrics are counted, not computed; a table is a number, in  *)
(* the order of the table names; what the reports after the tick say.      *)
(***************************************************************************)
EXTENDS Naturals, FiniteSets, Sequences

CONSTANTS
  Table,        \* table names, in their sort order
  Catalog,      \* the tables of each namespace
  Large,        \* the tables over the connection's size threshold
  Configs,      \* connection rows to consider, see Config
  MaxMetrics,   \* bound on the metrics collected from one table
  DbFaults      \* whether writes to the metrics store may fail

NoCap == 1000   \* max_tables_per_tick is NULL (or negative)

\* The columns of the connection's row that steer a tick.
Config == [namespaces: Seq(DOMAIN Catalog),  \* _iceberg_namespaces_to_scan
           allow: SUBSET Table, deny: SUBSET Table, cap: Nat,
           sizeLimit: BOOLEAN,               \* Postgres with a threshold
           metadataOnly: BOOLEAN]

ASSUME ConstantsAssumption ==
  /\ Table \subseteq Nat /\ IsFiniteSet(Table)
  /\ Catalog \in [DOMAIN Catalog -> SUBSET Table]
  /\ Configs \subseteq Config
  /\ MaxMetrics \in Nat
  /\ DbFaults \in BOOLEAN

VARIABLES
  config,       \* conn_row, read once at the start of the tick
  pc,           \* the point the tick has reached
  ns,           \* index of the namespace at work
  drops,        \* `skipped`: filtered tables not yet logged
  todo,         \* `tables`: tables not yet collected
  table,        \* the table at work
  entry,        \* its result, still to be logged: [status, metrics]
  call,         \* the metadata call in the worker thread
  late,         \* the budget of that call is used up
  count,        \* tables_seen, tables_checked, tables_skipped, rows_saved
  verdict,      \* run_status and degraded
  names,        \* table_names
  log,          \* table collector_run_tables, this run's rows
  run,          \* table collector_runs, this run's row
  heavy,        \* table scans made, as <<namespace index, table>> (history)
  listed        \* namespaces whose listing arrived in time (history)

counters == <<count, verdict>>
store    == <<log, run>>
history  == <<heavy, listed>>
vars == <<config, pc, ns, drops, todo, table, entry, call, late, names,
          counters, store, history>>

(***************************************************************************)
(* _apply_table_filters: allowlist, then denylist, then the cap, which     *)
(* keeps the first tables in name order.  An empty list is no constraint.  *)
(***************************************************************************)
Wanted(c, tables) ==
  {t \in tables : (c.allow = {} \/ t \in c.allow) /\ t \notin c.deny}

\* Mutant: the cap is applied to what was listed, before the lists.
KeptClippedFirst(c, tables) ==
  Wanted(c, {t \in tables : Cardinality({u \in tables : u < t}) < c.cap})

\* Mutant: the denylist is not consulted.
KeptDenied(c, tables) ==
  {t \in tables : c.allow = {} \/ t \in c.allow}

Kept(c, tables) ==
  LET wanted == Wanted(c, tables)
  IN {t \in wanted : Cardinality({u \in wanted : u < t}) < c.cap}

First(S) == CHOOSE t \in S : \A u \in S : t <= u

(***************************************************************************)
(* The state.                                                              *)
(***************************************************************************)
Status == {"success", "skipped", "failed"}
Row    == [ns: Nat, table: Table, status: Status, metrics: Nat]
Count  == [total: Nat, checked: Nat, skipped: Nat, saved: Nat]
Zero   == [total |-> 0, checked |-> 0, skipped |-> 0, saved |-> 0]

Init ==
  /\ config \in Configs
  /\ pc = "namespace"
  /\ ns = 1
  /\ drops = {} /\ todo = {}
  /\ table \in Table /\ \A t \in Table : table <= t
  /\ entry = [status |-> "success", metrics |-> 0]
  /\ call = "none" /\ late = FALSE
  /\ count = Zero
  /\ verdict = "success"
  /\ names = {}
  /\ log = <<>>
  /\ run = [status |-> "running", count |-> Zero]
  /\ heavy = {} /\ listed = {}

(***************************************************************************)
(* _run_with_timeout.  The call runs in the only thread of a pool; after   *)
(* the budget the caller gets a TimeoutError, but leaving the pool's       *)
(* `with` block joins the thread, so the caller resumes only when the call *)
(* has ended.  A TimeoutError of the call itself (a socket's) looks the    *)
(* same to the caller.                                                     *)
(***************************************************************************)
Submit == call' = "running" /\ late' = FALSE
Collected == call' = "none" /\ late' = FALSE

WorkerEnds ==
  /\ call = "running"
  /\ call' \in {"ok", "error", "timeout"}
  /\ UNCHANGED <<config, pc, ns, drops, todo, table, entry, late, names,
                 counters, store, history>>

BudgetEnds ==
  /\ call = "running" /\ ~late
  /\ late' = TRUE
  /\ UNCHANGED <<config, pc, ns, drops, todo, table, entry, call, names,
                 counters, store, history>>

Outcome == IF late THEN "timeout" ELSE call

\* The caller is back from a call, with outcome o.
Back(o) == call \notin {"none", "running"} /\ Outcome = o

(***************************************************************************)
(* The tick.                                                               *)
(***************************************************************************)
\* Mutant: a tick that was cut short is not marked as failed.
AbortSoftly == pc' = "closing" /\ UNCHANGED verdict

\* An exception reaches the outer handler.
Abort == pc' = "closing" /\ verdict' = "failed"

\* save_run_table: one row, or an exception
Log(row) == log' = Append(log, row)
RowOf(t, status, metrics) ==
  [ns |-> ns, table |-> t, status |-> status, metrics |-> metrics]

ListTables ==
  /\ pc = "namespace"
  /\ IF ns <= Len(config.namespaces)
     THEN pc' = "listing" /\ Submit
     ELSE pc' = "closing" /\ UNCHANGED <<call, late>>
  /\ UNCHANGED <<config, ns, drops, todo, table, entry, names, counters,
                 store, history>>

\* Mutant: a namespace that timed out is tried again.
ListTriedAgain ==
  /\ pc = "listing" /\ Back("timeout")
  /\ Collected
  /\ pc' = "namespace"
  /\ UNCHANGED <<config, ns, drops, todo, table, entry, names, counters, store,
                 history>>

\* The namespace is left out of this tick.
ListTimedOut ==
  /\ pc = "listing" /\ Back("timeout")
  /\ Collected
  /\ pc' = "namespace" /\ ns' = ns + 1
  /\ UNCHANGED <<config, drops, todo, table, entry, names, counters, store,
                 history>>

ListFailed ==
  /\ pc = "listing" /\ Back("error")
  /\ Collected
  /\ Abort
  /\ UNCHANGED <<config, ns, drops, todo, table, entry, names, count, store,
                 history>>

ListReturned ==
  LET tables == Catalog[config.namespaces[ns]]
      kept   == Kept(config, tables)
  IN /\ pc = "listing" /\ Back("ok")
     /\ Collected
     /\ drops' = tables \ kept
     /\ todo' = kept
     /\ count' = [count EXCEPT !.total = @ + Cardinality(kept)
                                           + Cardinality(tables \ kept)]
     /\ listed' = listed \cup {ns}
     /\ pc' = "dropping"
     /\ UNCHANGED <<config, ns, table, entry, names, verdict, store, heavy>>

\* One filtered table is logged as skipped, with its reason.  The order of
\* these rows says nothing.
LogDropped ==
  /\ pc = "dropping"
  /\ IF drops = {}
     THEN /\ pc' = "tables"
          /\ UNCHANGED <<drops, count, log, verdict>>
     ELSE /\ count' = [count EXCEPT !.skipped = @ + 1]
          /\ \E t \in drops :
               \/ /\ Log(RowOf(t, "skipped", 0))
                  /\ drops' = drops \ {t}
                  /\ UNCHANGED <<pc, verdict>>
               \/ /\ DbFaults /\ Abort
                  /\ UNCHANGED <<drops, log>>
  /\ UNCHANGED <<config, ns, todo, table, entry, call, late, names, run,
                 history>>

\* The next table, or the next namespace.  In metadata_only mode the schema
\* is all that is collected.
NextTable ==
  /\ pc = "tables"
  /\ IF todo = {}
     THEN /\ pc' = "namespace" /\ ns' = ns + 1
          /\ UNCHANGED <<todo, table, names, call, late>>
     ELSE /\ table' = First(todo)
          /\ todo' = todo \ {First(todo)}
          /\ names' = names \cup {First(todo)}
          /\ ns' = ns
          /\ IF config.metadataOnly
             THEN pc' = "schema" /\ Submit
             ELSE /\ pc' = IF config.sizeLimit THEN "size" ELSE "scan"
                  /\ UNCHANGED <<call, late>>
  /\ entry' = [status |-> "success", metrics |-> 0]
  /\ UNCHANGED <<config, drops, counters, store, history>>

\* The cheap size check.  It is made outside of the handler that protects
\* one table from another: if table_stats raises, the whole tick ends.
CheckSize ==
  /\ pc = "size"
  /\ \/ /\ table \in Large
        /\ count' = [count EXCEPT !.skipped = @ + 1]
        /\ \/ /\ Log(RowOf(table, "skipped", 0))
              /\ pc' = "tables" /\ UNCHANGED verdict
           \/ DbFaults /\ Abort /\ UNCHANGED log
     \/ /\ table \notin Large
        /\ pc' = "scan"
        /\ UNCHANGED <<count, verdict, log>>
     \/ Abort /\ UNCHANGED <<count, log>>
  /\ UNCHANGED <<config, ns, drops, todo, table, entry, call, late, names,
                 run, history>>

\* Mutant: a failed table reports no metrics, stored or not.
FailForgets(metrics) ==
  /\ entry' = [status |-> "failed", metrics |-> 0]
  /\ verdict' = "warning"

\* The table failed: its run is degraded.
Fail(metrics) ==
  /\ entry' = [status |-> "failed", metrics |-> metrics]
  /\ verdict' = "warning"

\* MetricsCollector.collect, which turns most failures into fewer metrics (or
\* none), and save_metrics; then the schema.
Scan ==
  /\ pc = "scan"
  /\ heavy' = heavy \cup {<<ns, table>>}
  /\ \E n \in 0 .. MaxMetrics :
       \/ /\ entry' = [status |-> "success", metrics |-> n]
          /\ count' = [count EXCEPT !.saved = @ + n]
          /\ pc' = "schema" /\ Submit
          /\ UNCHANGED verdict
       \/ /\ n = 0 \/ DbFaults      \* collect or save_metrics raises
          /\ Fail(n)
          /\ pc' = "logging"
          /\ UNCHANGED <<count, call, late>>
  /\ UNCHANGED <<config, ns, drops, todo, table, names, store, listed>>

\* collect_table_schema has ended.  Its timeout is a skip in metadata_only
\* mode and a failure otherwise.
SchemaCollected ==
  /\ pc = "schema"
  /\ \/ /\ Back("ok")
        /\ UNCHANGED <<entry, verdict>>
     \/ /\ Back("timeout") /\ config.metadataOnly
        /\ entry' = [entry EXCEPT !.status = "skipped"]
        /\ UNCHANGED verdict
     \/ /\ \/ Back("timeout") /\ ~config.metadataOnly
           \/ Back("error")
        /\ Fail(entry.metrics)
  /\ Collected
  /\ pc' = "logging"
  /\ UNCHANGED <<config, ns, drops, todo, table, names, count, store,
                 history>>

\* Mutant: a table that is skipped late is taken back from the checked ones.
BumpBack(status) == IF status = "skipped"
                    THEN [count EXCEPT !.checked = @ - 1]
                    ELSE [count EXCEPT !.checked = @ + 1]

\* tables_skipped or tables_checked goes up
Bump(status) == IF status = "skipped"
                THEN [count EXCEPT !.skipped = @ + 1]
                ELSE [count EXCEPT !.checked = @ + 1]

LogTable ==
  /\ pc = "logging"
  /\ count' = Bump(entry.status)
  /\ \/ /\ Log(RowOf(table, entry.status, entry.metrics))
        /\ pc' = "tables" /\ UNCHANGED verdict
     \/ DbFaults /\ Abort /\ UNCHANGED log
  /\ UNCHANGED <<config, ns, drops, todo, table, entry, call, late, names,
                 run, history>>

\* The finally clause writes the totals; the reports follow only if the tick
\* did not fail and saved something.
Close ==
  /\ pc = "closing"
  /\ \/ /\ run' = [status |-> verdict, count |-> count]
        /\ pc' = IF verdict # "failed" /\ count.saved > 0
                 THEN "reporting" ELSE "done"
     \/ DbFaults /\ pc' = "done" /\ UNCHANGED run
  /\ UNCHANGED <<config, ns, drops, todo, table, entry, call, late, names,
                 counters, log, history>>

\* Alerts and the drift cache; what they raise is caught inside of them.
Report ==
  /\ pc = "reporting"
  /\ pc' = "done"
  /\ UNCHANGED <<config, ns, drops, todo, table, entry, call, late, names,
                 counters, store, history>>

Tick ==
  \/ ListTables \/ ListTimedOut \/ ListFailed \/ ListReturned
  \/ LogDropped \/ NextTable \/ CheckSize \/ Scan \/ SchemaCollected
  \/ LogTable \/ Close \/ Report

Next == Tick \/ WorkerEnds \/ BudgetEnds

Spec == Init /\ [][Next]_vars

\* The scheduler's thread runs, and time passes.
Fairness == WF_vars(Tick) /\ WF_vars(BudgetEnds)
FairSpec == Spec /\ Fairness

\* In addition, every metadata call ends, by its own socket timeout if need be.
CallsEndSpec == FairSpec /\ WF_vars(WorkerEnds)

(***************************************************************************)
(* Properties.                                                             *)
(***************************************************************************)
TypeOK ==
  /\ config \in Configs
  /\ pc \in {"namespace", "listing", "dropping", "tables", "size", "scan",
             "schema", "logging", "closing", "reporting", "done"}
  /\ ns \in Nat
  /\ drops \subseteq Table /\ todo \subseteq Table
  /\ table \in Table
  /\ entry \in [status: Status, metrics: Nat]
  /\ call \in {"none", "running", "ok", "error", "timeout"}
  /\ late \in BOOLEAN
  /\ count \in Count
  /\ verdict \in {"success", "warning", "failed"}
  /\ names \subseteq Table
  /\ log \in Seq(Row)
  /\ run \in [status: {"running", "success", "warning", "failed"},
              count: Count]
  /\ heavy \subseteq Nat \X Table
  /\ listed \subseteq Nat

Rows(status) == {i \in DOMAIN log : log[i].status \in status}
Completed    == run.status \in {"success", "warning"}

\* The metrics that rows of these kinds claim.
Claimed(status) ==
  LET sum[n \in 0 .. Len(log)] ==
        IF n = 0 THEN 0
        ELSE sum[n - 1] + IF log[n].status \in status THEN log[n].metrics ELSE 0
  IN sum[Len(log)]

\* The run page agrees with its rows: a run that was not cut short has listed
\* exactly what it checked and skipped, and logged each; it is `warning`
\* exactly when a table failed; and its metrics are between what good tables
\* claim and what all do (a failed table's may have been stored or not).
RunMatchesRows ==
  Completed =>
    /\ run.count.total = run.count.checked + run.count.skipped
    /\ run.count.total = Len(log)
    /\ run.count.skipped = Cardinality(Rows({"skipped"}))
    /\ run.status = "warning" <=> Rows({"failed"}) # {}
    /\ Claimed({"success"}) <= run.count.saved
    /\ run.count.saved <= Claimed(Status)

\* Every table of a namespace whose listing arrived has exactly one row, in
\* each pass over that namespace, even if another table failed or timed out.
EveryTableAccounted ==
  Completed =>
    \A i \in listed : \A t \in Catalog[config.namespaces[i]] :
      Cardinality({k \in DOMAIN log : log[k].ns = i /\ log[k].table = t}) = 1

\* No table scan that the owner has excluded: by the lists, by size, by
\* metadata_only, or by the cap, which takes the first wanted tables.
LoadIsBounded ==
  \A h \in heavy :
    LET tables == Catalog[config.namespaces[h[1]]] IN
    /\ ~config.metadataOnly
    /\ config.sizeLimit => h[2] \notin Large
    /\ h[2] \in Wanted(config, tables)
    /\ Cardinality({u \in Wanted(config, tables) : u < h[2]}) < config.cap

\* The cap clips the tables the owner wants, not the listing: in each pass
\* that was listed in time, the first wanted tables are all scanned.
WantedIsCollected ==
  Completed /\ ~config.metadataOnly =>
    \A i \in listed :
      LET wanted == Wanted(config, Catalog[config.namespaces[i]]) IN
      \A t \in wanted :
        Cardinality({u \in wanted : u < t}) < config.cap
          => <<i, t>> \in heavy \/ (config.sizeLimit /\ t \in Large)

\* The owner's settings are respected both ways.
ScopeIsRespected == LoadIsBounded /\ WantedIsCollected

\* A tick returns.
TickEnds == <>(pc = "done")

\* A metadata call that has used its budget up does not hold its tick.
BudgetFreesTick == late ~> ~late

\* What a run says of itself is what it did, and what its owner asked for.
RunAddsUp == TypeOK /\ RunMatchesRows /\ EveryTableAccounted /\ ScopeIsRespected
=============================================================================
