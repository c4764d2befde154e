---------------------------- MODULE MCCollection ----------------------------
(***************************************************************************)
(* Small instances of what runs without a browser: the tick of one         *)
(* connection, the jobs that visit every project, the metrics store as it  *)
(* comes up, its copy to another one, what the pages make of its contents, *)
(* whose database a read reaches, and what is measured of one table.  They *)
(* share no state: each behaviour exercises one of them, so that their     *)
(* states add up instead of multiplying.                                   *)
(***************************************************************************)
EXTENDS CollectorTick, GlobalJobs, MetricsStore, History, LiveReads, TableReads

CONSTANTS b1, b2, b3, p1, p2

VARIABLE focus

collectionVars == <<focus, vars, jobVars, bootVars, transferVars, historyVars,
                    readsVars, measureVars>>

MCProcessOf == [b \in {b1, b2, b3} |-> IF b = b3 THEN p2 ELSE p1]
MCKeyed == <<"connections">>
MCAppend == <<"metrics">>

\* No NULLs, many, and nothing but the row count.
MCMeasures ==
  {[rate |-> 0, distribution |-> "x"], [rate |-> 12, distribution |-> "y"],
   [rate |-> None, distribution |-> None]}

MCDialects == {"postgres", "mysql", "clickhouse", "iceberg"}

Row0(namespaces, allow, deny, cap, sizeLimit, metadataOnly) ==
  [namespaces |-> namespaces, allow |-> allow, deny |-> deny, cap |-> cap,
   sizeLimit |-> sizeLimit, metadataOnly |-> metadataOnly]

\* A Postgres schema, and an Iceberg catalog of two namespaces.
AllCatalogs == [n \in {"public", "prod", "staging"} |->
                  IF n = "staging" THEN {First(Table)} ELSE Table]

\* Every allowlist, denylist, cap and size limit on one namespace.
PostgresConfigs ==
  {Row0(<<"public">>, a, d, k, s, FALSE) :
     a \in SUBSET Table, d \in SUBSET Table, k \in {0, 1, 2, NoCap},
     s \in BOOLEAN}

\* No, one or two namespaces, or one of them listed twice by mistake.
IcebergConfigs ==
  {Row0(s, {}, d, k, FALSE, m) :
     s \in {<<>>, <<"prod">>, <<"prod", "staging">>, <<"staging", "staging">>},
     d \in {{}, {First(Table)}}, k \in {1, NoCap}, m \in BOOLEAN}

Both == PostgresConfigs \cup IcebergConfigs

\* The state of a component that the behaviour does not exercise is fixed.
JobsIdle ==
  /\ globalUp = TRUE /\ measured = [p \in Project |-> {}]
  /\ served = measured /\ alerted = {} /\ job = NoJob /\ needed = FALSE

CollectionInit ==
  /\ Init /\ BootInit /\ TransferInit /\ HistoryInit
  /\ ReadsInit /\ MeasureInit
  /\ focus \in {"tick", "jobs", "boot", "transfer", "trend", "drift", "verdicts",
               "reads", "measure"}
  /\ focus # "measure" => engine = "mysql"
  /\ focus # "tick" => config = Row0(<<"public">>, {}, {}, NoCap, FALSE, FALSE)
  /\ IF focus = "jobs" THEN JobsInit ELSE JobsIdle
  /\ focus # "boot" => (dialect = "sqlite" /\ tables = {})
  /\ telegram = (focus = "verdicts")

Pages == <<readsVars, measureVars>>
Stores == <<bootVars, transferVars>>
Others == <<focus, vars, jobVars, Stores, Pages>>

Ticking ==
  focus = "tick" /\ UNCHANGED <<focus, jobVars, Stores, historyVars, Pages>>
Working ==
  focus = "jobs" /\ UNCHANGED <<focus, vars, Stores, historyVars, Pages>>
Booting ==
  /\ focus = "boot"
  /\ UNCHANGED <<focus, vars, jobVars, transferVars, historyVars, Pages>>
Copying ==
  /\ focus = "transfer"
  /\ UNCHANGED <<focus, vars, jobVars, bootVars, historyVars, Pages>>
Reaching ==
  /\ focus = "reads"
  /\ UNCHANGED <<focus, vars, jobVars, Stores, historyVars, measureVars>>
Gauging ==
  /\ focus = "measure"
  /\ UNCHANGED <<focus, vars, jobVars, Stores, historyVars, readsVars>>

\* Every table of a tick is read, and the tick does not fail.
Smooth ==
  \A c \in Source :
    /\ ~tick'[c].degraded
    /\ lastRun'[c] # None => lastRun'[c].status # "failed"
    /\ tick'[c].pc = "collecting" => tick'[c].left \cup tick'[c].saved # {}

\* A long time, in which one connection ticks, promptly.
Trend ==
  /\ focus = "trend" /\ UNCHANGED Others
  /\ \/ Purge \/ TickNext(1)
     \/ /\ \A c \in Source : \/ tick[c].pc = "idle"
                             \/ tick[c].pc = "collecting" /\ tick[c].ts = now
        /\ Pass
  /\ UNCHANGED report

\* A short time, in which the ticks of two connections interleave.
Drifting ==
  /\ focus = "drift" /\ UNCHANGED Others
  /\ Pass \/ \E c \in Source : TickNext(c)
  /\ now' <= 3 /\ Cardinality(samples') <= 2 /\ Smooth
  /\ \A s \in samples' : s.distribution # None

\* Two moments, in which configuration and access change.
Judging ==
  /\ focus = "verdicts" /\ UNCHANGED <<Others, report>>
  /\ HistoryNext
  /\ now' <= 1 /\ Cardinality(samples') <= 2 /\ Smooth
  /\ tick'[2] = NoTick /\ 2 \in accessible'
  /\ bindings' = None \/ \A b \in bindings' : b.source = 1
  /\ \A v \in verdicts' : v.anomaly
  /\ \A s \in samples' : s.rate = 0

CollectionNext ==
  \/ Ticking /\ Next
  \/ Working /\ JobsNext
  \/ Booting /\ BootNext
  \/ Copying /\ TransferNext
  \/ Reaching /\ ReadsNext
  \/ Gauging /\ MeasureNext
  \/ Trend \/ Drifting \/ Judging

TickFairness == WF_collectionVars(Ticking /\ Tick) /\ WF_collectionVars(Ticking /\ BudgetEnds)

\* The fairness of CallsEndSpec and of the boot, each for the behaviours
\* that exercise it.
CollectionSpec ==
  /\ CollectionInit /\ [][CollectionNext]_collectionVars
  /\ TickFairness /\ WF_collectionVars(Ticking /\ WorkerEnds)
  /\ \A b \in BootThread : WF_collectionVars(Booting /\ Call(b))
  /\ \A b \in BootThread : WF_collectionVars(Booting /\ BootStep(b))

\* The fairness of FairSpec alone: a metadata call may never end.
StuckSpec == CollectionInit /\ [][CollectionNext]_collectionVars /\ TickFairness

TicksEnd == focus = "tick" => TickEnds
StoreComesUp == focus = "boot" => EveryProcessBoots
=============================================================================
