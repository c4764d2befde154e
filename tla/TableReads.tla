----------------------------- MODULE TableReads -----------------------------
(***************************************************************************)
(* What one connection's ticks measure of a table, by dialect (the         *)
(* adapters of app/db.py) and by collection mode                           *)
(* (collectors/metrics_collector.py), while the table changes between      *)
(* their queries, and what the table's page (app/dashboard.py) shows of    *)
(* it.  Queries may fail; the mode may be changed at any time.             *)
(*                                                                         *)
(* Abstracted: a row is the set of columns in which it is NULL; a rate is  *)
(* in percent, rounded down; sizes, dates, data types and distributions.   *)
(***************************************************************************)
EXTENDS Absent, Integers, FiniteSets, Sequences, FiniteSetsExt, Functions

CONSTANTS
  Tuple,        \* the rows that a table may have
  Column,       \* the columns that it may have
  Dialects,     \* those to consider
  Estimates,    \* the row counts that a planner may estimate
  MaxBatches,   \* bound: measurements saved
  MaxEntries    \* bound: delete entries beyond which none is by equality

ASSUME MeasureAssumption ==
  /\ IsFiniteSet(Tuple) /\ IsFiniteSet(Column)
  /\ Dialects \subseteq {"postgres", "mysql", "clickhouse", "iceberg"}
  /\ Estimates \subseteq Nat /\ {MaxBatches, MaxEntries} \subseteq Nat

VARIABLES
  engine,       \* the connection's dialect
  setting,      \* its collection_mode
  monitored,    \* the table, see Monitored; None when it is dropped
  measure,      \* the local state of the tick
  batches,      \* table metrics: what was saved of the table, oldest first
  shown         \* the local state of the page

measureVars == <<engine, setting, monitored, measure, batches, shown>>

Monitored == [columns: SUBSET Column,
              nulls: [Tuple -> SUBSET Column],
              live: SUBSET Tuple,
              deleted: SUBSET Tuple,          \* Iceberg: still in a data file
              entries: Nat,                   \* Iceberg: of its delete files
              equality: BOOLEAN,              \* Iceberg: some name no row, but values
              counted: BOOLEAN,               \* ClickHouse: its engine keeps total_rows
              estimate: Estimates,            \* n_live_tup, table_rows
              analyzed: [Column -> 0 .. 100] \cup {None}]   \* pg_stats

Mean(rates) == SumFunction(rates) \div Cardinality(DOMAIN rates)
Percent(n, d) == IF d = 0 THEN 0 ELSE (100 * n) \div d

\* The NULLs of a column in some rows.
NullsIn(t, rows, c) == Cardinality({r \in rows : c \in t.nulls[r]})
RateIn(t, rows, columns) ==
  Mean([c \in columns |-> Percent(NullsIn(t, rows, c), Cardinality(rows))])

(***************************************************************************)
(* The tick: table_stats, then the NULLs in the way of its mode, then      *)
(* save_metrics.                                                           *)
(***************************************************************************)
NoMeasure == [pc |-> "idle", mode |-> "full", rows |-> 0, columns |-> {},
              counts |-> None, rate |-> None, still |-> TRUE]
NoPage == [pc |-> "idle", rows |-> None, rate |-> None, badge |-> None,
           by |-> None, counts |-> None]

\* sample and approx are for Postgres
EffectiveMode == IF engine = "postgres" THEN setting ELSE "full"

BeginMeasure ==
  /\ measure.pc = "idle" /\ Len(batches) < MaxBatches
  /\ measure' = [NoMeasure EXCEPT !.pc = "stats", !.mode = EffectiveMode]
  /\ UNCHANGED <<engine, setting, monitored, batches, shown>>

\* table_stats.  Postgres keeps an estimate (n_live_tup), and so does MySQL
\* (table_rows); ClickHouse knows, but for engines whose total_rows is NULL.
PostgresRows(t) == t.estimate
MySqlRows(t) == t.estimate
ClickHouseRows(t) == IF t.counted THEN Cardinality(t.live) ELSE 0

\* Mutant: rows that delete files have deleted are counted.
RowsOfFiles(t) == Cardinality(t.live \cup t.deleted)

\* The records of a snapshot's files less the entries of its delete files,
\* which are as many as the deleted rows only if all are positional.
IcebergRows(t) ==
  LET records == Cardinality(t.live \cup t.deleted)
  IN IF t.entries <= records THEN records - t.entries ELSE 0

RowCount(t) ==
  CASE engine = "postgres"   -> PostgresRows(t)
    [] engine = "mysql"      -> MySqlRows(t)
    [] engine = "clickhouse" -> ClickHouseRows(t)
    [] engine = "iceberg"    -> IcebergRows(t)

\* A table that is not there, or cannot be read, leaves no metrics.
ReadStats ==
  /\ measure.pc = "stats"
  /\ IF monitored = None THEN measure' = NoMeasure
     ELSE \/ measure' = [measure EXCEPT !.rows = RowCount(monitored),
                                        !.pc = "columns"]
          \/ measure' = NoMeasure
  /\ UNCHANGED <<engine, setting, monitored, batches, shown>>

Measuring(pc, mode) == measure.pc = pc /\ measure.mode = mode

\* A NULL query that fails, or finds nothing, leaves the row count alone.
NothingFound ==
  /\ measure.pc \in {"columns", "counting"}
  /\ measure' = [measure EXCEPT !.pc = "saving"]
  /\ UNCHANGED <<engine, setting, monitored, batches, shown>>

\* SQL: the names of the columns first, then one query that counts.
ReadColumns ==
  /\ measure.pc = "columns" /\ measure.mode # "approx"
  /\ engine # "iceberg" /\ monitored # None
  /\ monitored.columns # {}
  /\ measure' = [measure EXCEPT !.columns = monitored.columns, !.pc = "counting"]
  /\ UNCHANGED <<engine, setting, monitored, batches, shown>>

Countable == monitored # None /\ measure.columns \subseteq monitored.columns

\* Mutant: the rate is of the rows that table_stats reported.
RateOfStats(t, rows, columns) ==
  Mean([c \in columns |-> Percent(NullsIn(t, rows, c), measure.rows)])

\* total and the NULLs are counted by the same statement
FullRate(t, rows, columns) == RateIn(t, rows, columns)

CountNulls ==
  /\ Measuring("counting", "full") /\ Countable
  /\ measure' = [measure EXCEPT
       !.pc = "saving",
       !.counts = [c \in measure.columns |-> NullsIn(monitored, monitored.live, c)],
       !.rate = FullRate(monitored, monitored.live, measure.columns)]
  /\ UNCHANGED <<engine, setting, monitored, batches, shown>>

\* Mutant: an empty sample has a rate, computed from what was not read.
SampleRateOfNothing(rows) ==
  IF rows = {} THEN Percent(Cardinality(monitored.live), measure.rows)
  ELSE RateIn(monitored, rows, measure.columns)

\* Of an empty sample nothing is said.
SampleRate(rows) ==
  IF rows = {} THEN None ELSE RateIn(monitored, rows, measure.columns)

\* TABLESAMPLE takes any pages.
SampleNulls ==
  /\ Measuring("counting", "sample") /\ Countable
  /\ \E rows \in SUBSET monitored.live :
       measure' = [measure EXCEPT !.pc = "saving", !.rate = SampleRate(rows)]
  /\ UNCHANGED <<engine, setting, monitored, batches, shown>>

\* The mean of the fractions that were found.
ApproxRate(fractions) == Mean(fractions)

\* pg_stats, of the last ANALYZE, for columns that still exist
ReadFractions ==
  /\ Measuring("columns", "approx")
  /\ monitored # None /\ monitored.analyzed # None /\ monitored.columns # {}
  /\ measure' = [measure EXCEPT !.pc = "saving",
       !.rate = ApproxRate(Restrict(monitored.analyzed, monitored.columns))]
  /\ UNCHANGED <<engine, setting, monitored, batches, shown>>

\* The manifests of one snapshot of an Iceberg table, in which the rows that
\* a delete file has deleted still count.
ReadManifests ==
  /\ measure.pc = "columns" /\ engine = "iceberg"
  /\ monitored # None /\ monitored.columns # {}
  /\ LET rows == monitored.live \cup monitored.deleted
     IN measure' = [measure EXCEPT !.pc = "saving",
          !.counts = [c \in monitored.columns |-> NullsIn(monitored, rows, c)],
          !.rate = RateIn(monitored, rows, monitored.columns)]
  /\ UNCHANGED <<engine, setting, monitored, batches, shown>>

\* Its metadata tells how many rows it has (history).
TellsRows(t) ==
  \/ engine = "clickhouse" /\ t.counted
  \/ engine = "iceberg" /\ ~t.equality

\* What the table is like (history).
Truth ==
  [rows |-> IF TellsRows(monitored) THEN Cardinality(monitored.live) ELSE None,
   rate |-> IF monitored.columns = {} THEN None
            ELSE RateIn(monitored, monitored.live, monitored.columns)]

\* A rate that is estimated carries its mode as a tag.
SaveBatch ==
  /\ measure.pc = "saving"
  /\ batches' = Append(batches,
       [rows |-> measure.rows, rate |-> measure.rate, counts |-> measure.counts,
        source |-> IF measure.mode = "full" THEN None ELSE measure.mode,
        truth |-> [by |-> measure.mode,
                   table |-> IF measure.still THEN Truth ELSE None]])
  /\ measure' = NoMeasure
  /\ UNCHANGED <<engine, setting, monitored, shown>>

(***************************************************************************)
(* The page of the table: the newest metric of each name, one by one.      *)
(***************************************************************************)
WithRate == {i \in DOMAIN batches : batches[i].rate # None}
WithCounts == {i \in DOMAIN batches : batches[i].counts # None}

\* Mutant: the badge is the mode that is set now.
BadgeOfSetting(batch) == IF setting = "full" THEN None ELSE setting

\* null_rate_source
BadgeOf(batch) == batch.source

OpenPage ==
  /\ shown.pc = "idle" /\ batches # <<>>
  /\ shown' = [NoPage EXCEPT !.pc = "rate", !.rows = batches[Len(batches)].rows]
  /\ UNCHANGED <<engine, setting, monitored, measure, batches>>

\* The rate comes with its tag.
ShowRate ==
  /\ shown.pc = "rate"
  /\ shown' = IF WithRate = {} THEN [shown EXCEPT !.pc = "counts"]
              ELSE LET batch == batches[Max(WithRate)]
                   IN [shown EXCEPT !.pc = "counts", !.rate = batch.rate,
                         !.badge = BadgeOf(batch), !.by = batch.truth.by]
  /\ UNCHANGED <<engine, setting, monitored, measure, batches>>

\* The newest counts of NULLs there are, for the columns that exist now (none,
\* if they cannot be read).
ShowCounts ==
  /\ shown.pc = "counts"
  /\ shown' = [shown EXCEPT !.pc = "shown",
       !.counts = IF WithCounts = {} \/ monitored = None THEN None
                  ELSE LET counts == batches[Max(WithCounts)].counts
                       IN Restrict(counts, DOMAIN counts \cap monitored.columns)]
  /\ UNCHANGED <<engine, setting, monitored, measure, batches>>

LeavePage ==
  /\ shown.pc = "shown"
  /\ shown' = NoPage
  /\ UNCHANGED <<engine, setting, monitored, measure, batches>>

(***************************************************************************)
(* The outside world: the table and its statistics, and the setting.       *)
(***************************************************************************)
Altered(table) ==
  /\ monitored' = table
  /\ measure' = IF measure.pc = "idle" THEN measure
                ELSE [measure EXCEPT !.still = FALSE]
  /\ UNCHANGED <<engine, setting, batches, shown>>

InsertRow ==
  /\ monitored # None
  /\ \E r \in Tuple \ (monitored.live \cup monitored.deleted) :
       \E nulls \in SUBSET monitored.columns :
         Altered([monitored EXCEPT !.live = @ \cup {r}, !.nulls[r] = nulls])

\* With Iceberg a positional delete file names the row.
DeleteRow ==
  /\ monitored # None
  /\ \E r \in monitored.live :
       Altered(IF engine = "iceberg"
               THEN [monitored EXCEPT !.live = @ \ {r}, !.deleted = @ \cup {r},
                                      !.entries = @ + 1]
               ELSE [monitored EXCEPT !.live = @ \ {r}, !.nulls[r] = {}])

\* One entry of values, which any number of rows may have.
DeleteEqual ==
  /\ monitored # None /\ engine = "iceberg" /\ monitored.entries < MaxEntries
  /\ \E equal \in SUBSET monitored.live :
       Altered([monitored EXCEPT !.live = @ \ equal, !.deleted = @ \cup equal,
                                 !.entries = @ + 1, !.equality = TRUE])

ChangeColumns ==
  /\ monitored # None
  /\ \E c \in monitored.columns :
       Altered([monitored EXCEPT !.columns = @ \ {c}])

Analyze ==
  /\ monitored # None /\ engine \in {"postgres", "mysql"}
  /\ \E n \in Estimates :
       Altered([monitored EXCEPT !.estimate = n,
         !.analyzed = IF engine = "mysql" THEN None
                      ELSE [c \in Column |->
                              Percent(NullsIn(monitored, monitored.live, c),
                                      Cardinality(monitored.live))]])

DropMonitored == monitored # None /\ Altered(None)

SetMode(mode) ==
  /\ setting' = mode
  /\ UNCHANGED <<engine, monitored, measure, batches, shown>>

MeasureInit ==
  /\ engine \in Dialects
  /\ setting = "full"
  /\ \E counted \in IF engine = "clickhouse" THEN BOOLEAN ELSE {FALSE} :
       monitored = [columns |-> Column, nulls |-> [r \in Tuple |-> {}],
                    live |-> {}, deleted |-> {}, entries |-> 0, equality |-> FALSE,
                    counted |-> counted,
                    estimate |-> CHOOSE n \in Estimates : TRUE,
                    analyzed |-> None]
  /\ measure = NoMeasure /\ batches = <<>> /\ shown = NoPage

MeasureNext ==
  \/ BeginMeasure \/ ReadStats \/ NothingFound \/ ReadColumns \/ CountNulls
  \/ SampleNulls \/ ReadFractions \/ ReadManifests \/ SaveBatch
  \/ OpenPage \/ ShowRate \/ ShowCounts \/ LeavePage
  \/ InsertRow \/ DeleteRow \/ DeleteEqual \/ ChangeColumns \/ Analyze \/ DropMonitored
  \/ \E mode \in {"full", "sample", "approx"} : SetMode(mode)

MeasureSpec == MeasureInit /\ [][MeasureNext]_measureVars

(***************************************************************************)
(* Properties.                                                             *)
(***************************************************************************)
\* Whatever changes between the queries of a tick, a rate is a rate.
RatesAreRates ==
  \A i \in DOMAIN batches : batches[i].rate # None => batches[i].rate \in 0 .. 100

\* Of a table that held still, ClickHouse gives the number of its rows if its
\* engine keeps it, Iceberg does if no delete was by equality, and a full count
\* by SQL gives its rate of NULLs.
StillTablesAreExact ==
  \A i \in DOMAIN batches :
    LET b == batches[i]
        t == b.truth.table
    IN t # None =>
         /\ t.rows # None => b.rows = t.rows
         /\ engine # "iceberg" /\ b.truth.by = "full" /\ b.rate # None
            => b.rate = t.rate

\* The page marks a rate as estimated exactly when it was, however the mode
\* was changed since, or during the tick.
BadgesAreTrue ==
  shown.rate # None => shown.badge = (IF shown.by = "full" THEN None ELSE shown.by)

\* What is measured and shown of a table can be believed.
MeasuresAreSound == RatesAreRates /\ StillTablesAreExact /\ BadgesAreTrue
=============================================================================
