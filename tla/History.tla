------------------------------- MODULE History -------------------------------
(***************************************************************************)
(* What ticks leave behind in the metrics store, and what the pages of a   *)
(* project make of it: the history page (app/metrics_storage.py,           *)
(* build_history_aggregate and its readers), the status on the overview    *)
(* (app/dashboard.py) and the cached report of distribution drift          *)
(* (ml/drift.py).  Time passes while ticks are under way, connections tick *)
(* at the same time, and old metrics are purged.                           *)
(*                                                                         *)
(* A moment is a number; PerDay of them make a day.  One saved batch of a  *)
(* table is one record: the row count is in each, the rate of NULLs (in    *)
(* percent) and the distribution only when their queries succeeded.  A     *)
(* table has one column; the numbers of a drift are reduced to whether two *)
(* distributions differ.                                                   *)
(***************************************************************************)
EXTENDS Absent, Integers, FiniteSets, FiniteSetsExt

CONSTANTS
  Source,         \* the project's connections, by number
  Observed,       \* table names; connections may have the same ones
  Version,        \* published models
  Measures,       \* what a tick may find in a table: [rate, distribution]
  Changes,        \* whether a tick may find a changed schema: subset of BOOLEAN
  PerDay,
  ShownDays,      \* 14 days in the daily trend
  WindowDays,     \* 30 days in the aggregates
  RetentionDays,  \* 90
  BaselineDays,   \* 7
  LastMoment,     \* bound: time stops
  MaxSamples      \* bound: batches saved

Problem == 10     \* _PROBLEM_NULL_RATE
Spike == 5        \* _NULL_SPIKE_DELTA

ASSUME HistoryAssumption ==
  /\ Source \subseteq Nat /\ IsFiniteSet(Source) /\ IsFiniteSet(Observed)
  /\ Changes \subseteq BOOLEAN
  /\ {PerDay, ShownDays, WindowDays, RetentionDays, BaselineDays} \subseteq Nat \ {0}
  /\ ShownDays < WindowDays /\ WindowDays <= RetentionDays
  /\ {LastMoment, MaxSamples} \subseteq Nat
  /\ None \notin Source

VARIABLES
  now,
  samples,        \* table metrics
  schemaChanges,  \* table schema_events: the moments
  verdicts,       \* table anomaly_scores
  bindings,       \* the inference configuration, None: it is invalid
  accessible,     \* the connections that check_access admits
  telegram,       \* the project has Telegram settings
  tick,           \* the tick of each connection
  lastRun,        \* the newest run of each connection
  report          \* table drift_reports, and when it was computed (history)

historyVars == <<now, samples, schemaChanges, verdicts, bindings, accessible,
                 telegram, tick, lastRun, report>>

------------------------------------------------------------------------------
\* The verdicts of an anomaly detector.  A score of the project's own
\* detector has neither a connection nor a version.

Legacy0 == [source |-> None, version |-> None]
Scored(v) == [source |-> v.source, version |-> v.version]
Key(v) == [v EXCEPT !.anomaly = FALSE]

\* save_anomaly_scores: an upsert
Stored(new) == {v \in verdicts : \A w \in new : Key(w) # Key(v)} \cup new

\* Mutant: the verdicts of the project's detector are read for every table.
CountedWithLegacy ==
  IF bindings = None THEN {} ELSE {v \in verdicts :
     \/ \E b \in bindings : /\ b.source \in accessible /\ b.table = v.table
                            /\ Scored(v) = [source |-> b.source, version |-> b.version]
     \/ Scored(v) = Legacy0}

\* Mutant: any version of a bound source is read.
CountedOfAnyVersion ==
  IF bindings = None THEN {} ELSE {v \in verdicts :
     \/ \E b \in bindings : /\ b.source \in accessible /\ b.table = v.table
                            /\ v.source = b.source
     \/ Scored(v) = Legacy0 /\ \A b \in bindings : b.table # v.table}

\* _active_scores_scope; an invalid configuration fails the page
Counted ==
  IF bindings = None THEN {} ELSE {v \in verdicts :
     \/ \E b \in bindings : /\ b.source \in accessible /\ b.table = v.table
                            /\ Scored(v) = [source |-> b.source, version |-> b.version]
     \/ Scored(v) = Legacy0 /\ \A b \in bindings : b.table # v.table}

------------------------------------------------------------------------------
\* The history page

Day(ts) == ts \div PerDay
Recent(S, days) == {s \in S : s.ts >= now - days * PerDay}

\* Mutant: the aggregates see no more days than the trend shows.
RowsShown == Recent(samples, ShownDays)

\* _fetch_history_metric_rows: every row when none is recent
HistoryRows ==
  IF Recent(samples, WindowDays) = {} THEN samples ELSE Recent(samples, WindowDays)

\* HistoryRows of one moment come in an arbitrary but fixed order.
Earlier(s, u) == s.ts < u.ts \/ (s.ts = u.ts /\ s.source < u.source)

\* The rates of a table, whichever connection it is of.
RatesOf(table, S) == {s \in S : s.table = table /\ s.rate # None}

\* Those with a previous one that is lower by the delta.
SpikesIn(S) ==
  {s \in S : /\ s.rate # None
             /\ \E p \in RatesOf(s.table, S) :
                  /\ Earlier(p, s) /\ s.rate - p.rate >= Spike
                  /\ \A q \in RatesOf(s.table, S) : Earlier(q, s) => ~Earlier(p, q)}

At(S, ts) == Cardinality({s \in S : s.ts = ts})
AnomaliesShown == {v \in Recent(Counted, WindowDays) : v.anomaly}
Problems == {s \in HistoryRows : s.rate # None /\ s.rate >= Problem}
Moments == {s.ts : s \in HistoryRows \cup AnomaliesShown}
Latest(S) == CHOOSE x \in S : \A y \in S : y <= x

\* The tables that a check counts: those with a row count
Checked(ts) == {s.table : s \in {r \in HistoryRows : r.ts = ts}}

DaysShown == {Day(ts) : ts \in Moments} \cap Day(now) - ShownDays .. Day(now)
OfDay(S, day) == Cardinality({s \in S : Day(s.ts) = day})
LastOf(day) == Latest({ts \in Moments : Day(ts) = day})

\* Mutant: of a day, the last check alone is shown.
DailyLastOnly(day) ==
  [problems |-> At(Problems, LastOf(day)), spikes |-> At(SpikesIn(HistoryRows), LastOf(day)),
   anomalies |-> At(AnomaliesShown, LastOf(day)),
   covered |-> Cardinality(Checked(LastOf(day)))]

\* get_history_daily: problems and coverage as of the day's last check, the
\* events of all of its checks
Daily(day) ==
  [problems |-> At(Problems, LastOf(day)), spikes |-> OfDay(SpikesIn(HistoryRows), day),
   anomalies |-> OfDay(AnomaliesShown, day),
   covered |-> Cardinality(Checked(LastOf(day)))]

\* get_history_runs: one line of the table of checks
Line(ts) ==
  [checked |-> Cardinality(Checked(ts)), problems |-> At(Problems, ts),
   spikes |-> At(SpikesIn(HistoryRows), ts), anomalies |-> At(AnomaliesShown, ts)]

\* Mutant: the rate before is looked for in any earlier check.
GrowthsSinceEver ==
  LET last == Latest(Moments)
      Pairs == {pair \in HistoryRows \X HistoryRows :
                  /\ pair[1].table = pair[2].table
                  /\ None \notin {pair[1].rate, pair[2].rate}
                  /\ pair[1].ts < last /\ pair[2].ts = last}
  IN {pair[2].rate - pair[1].rate : pair \in Pairs}

\* get_history_insights: the growth from the last but one check to the last,
\* of each table that is in both; of the rows of one table the last counts
Growths ==
  LET last == Latest(Moments)
      before == Latest(Moments \ {last})
      OfCheck(t, ts) == {s \in RatesOf(t, HistoryRows) : s.ts = ts}
      Final(S) == CHOOSE s \in S : \A q \in S : ~Earlier(s, q)
      Both == {t \in Observed : OfCheck(t, last) # {} /\ OfCheck(t, before) # {}}
  IN IF Cardinality(Moments) < 2 THEN {}
     ELSE {Final(OfCheck(t, last)).rate - Final(OfCheck(t, before)).rate : t \in Both}

------------------------------------------------------------------------------
\* The overview's status

NewestRuns == {lastRun[c] : c \in {d \in Source : lastRun[d] # None}}

\* _build_project_status
StatusShown ==
  LET newest == CHOOSE r \in NewestRuns : \A q \in NewestRuns : q.ts <= r.ts
      measured == \E s \in samples : s.rate # None
      Week(S) == {s \in S : s >= now - 7 * PerDay}
  IN CASE NewestRuns = {} \/ (~measured /\ newest.status # "error") -> "pending"
       [] OTHER ->
          IF newest.status = "error" THEN "error"
          ELSE IF \/ {v \in Recent(Counted, 7) : v.anomaly} # {}
                  \/ Week(schemaChanges) # {} THEN "warning"
          ELSE "ok"

------------------------------------------------------------------------------
\* The report of a drift

Snapshots(table) ==
  {s \in Recent(samples, BaselineDays) : s.table = table /\ s.distribution # None}
Oldest(S) == CHOOSE s \in S : \A q \in S : ~Earlier(q, s)
Newest(S) == CHOOSE s \in S : \A q \in S : ~Earlier(s, q)

\* Mutant: snapshots are compared in the order of their arrival alone.
ComputeAnyBase(table) ==
  LET S == {s \in samples : s.table = table /\ s.distribution # None}
  IN IF S = {} THEN None
     ELSE [base |-> Oldest(S), current |-> Newest(S), computed |-> now,
           severity |-> IF Oldest(S).ts = Newest(S).ts THEN "insufficient_data"
                        ELSE IF Oldest(S).distribution = Newest(S).distribution THEN "ok"
                        ELSE "drift"]

\* compute_drift: the oldest snapshot of the window against the newest
Compute(table) ==
  LET S == Snapshots(table)
  IN IF S = {} THEN None
     ELSE [base |-> Oldest(S), current |-> Newest(S), computed |-> now,
           severity |-> IF Oldest(S).ts = Newest(S).ts THEN "insufficient_data"
                        ELSE IF Oldest(S).distribution = Newest(S).distribution THEN "ok"
                        ELSE "drift"]

------------------------------------------------------------------------------
\* One tick: its batches are of the moment it began at

NoTick == [pc |-> "idle", ts |-> 0, left |-> {}, saved |-> {}, degraded |-> FALSE,
           computed |-> None]

HistoryInit ==
  /\ now = 0 /\ samples = {} /\ schemaChanges = {} /\ verdicts = {}
  /\ bindings = {} /\ accessible = Source /\ telegram \in BOOLEAN
  /\ tick = [c \in Source |-> NoTick]
  /\ lastRun = [c \in Source |-> None]
  /\ report = [t \in Observed |-> None]

Pass ==
  /\ now < LastMoment
  /\ now' = now + 1
  /\ UNCHANGED <<samples, schemaChanges, verdicts, bindings, accessible, telegram,
                 tick, lastRun, report>>

StartTick(c) ==
  /\ tick[c].pc = "idle" /\ Cardinality(samples) < MaxSamples
  /\ \E tables \in SUBSET Observed :
       tick' = [tick EXCEPT ![c] = [NoTick EXCEPT !.pc = "collecting", !.ts = now,
                                                  !.left = tables]]
  /\ lastRun' = [lastRun EXCEPT ![c] = [ts |-> now, status |-> "running"]]
  /\ UNCHANGED <<now, samples, schemaChanges, verdicts, bindings, accessible,
                 telegram, report>>

\* MetricsCollector.collect and save_metrics: what one table gave, in one
\* transaction, with the schema's event in another
Save(c, t) ==
  /\ tick[c].pc = "collecting" /\ t \in tick[c].left
  /\ Cardinality(samples) < MaxSamples
  /\ \E m \in Measures, changed \in Changes :
       /\ samples' = samples \cup
            {[ts |-> tick[c].ts, source |-> c, table |-> t, rate |-> m.rate,
              distribution |-> m.distribution]}
       /\ schemaChanges' = schemaChanges \cup IF changed THEN {now} ELSE {}
  /\ tick' = [tick EXCEPT ![c].left = @ \ {t}, ![c].saved = @ \cup {t}]
  /\ UNCHANGED <<now, verdicts, bindings, accessible, telegram, lastRun, report>>

\* Nothing is read of a table whose statistics fail; the tick goes on.
SaveFails(c, t) ==
  /\ tick[c].pc = "collecting" /\ t \in tick[c].left
  /\ tick' = [tick EXCEPT ![c].left = @ \ {t}, ![c].degraded = TRUE]
  /\ UNCHANGED <<now, samples, schemaChanges, verdicts, bindings, accessible,
                 telegram, lastRun, report>>

EndRun(c, status) == lastRun' = [lastRun EXCEPT ![c] = [ts |-> tick[c].ts, status |-> status]]

\* An exception outside of the tables' handler: no report is made.
Break(c) ==
  /\ tick[c].pc = "collecting"
  /\ EndRun(c, "failed")
  /\ tick' = [tick EXCEPT ![c] = NoTick]
  /\ UNCHANGED <<now, samples, schemaChanges, verdicts, bindings, accessible,
                 telegram, report>>

EndTick(c) ==
  /\ tick[c].pc = "collecting" /\ tick[c].left = {}
  /\ EndRun(c, IF tick[c].degraded THEN "warning" ELSE "success")
  /\ tick' = [tick EXCEPT ![c] = IF tick[c].saved = {} THEN NoTick
                                 ELSE [@ EXCEPT !.pc = "scoring"]]
  /\ UNCHANGED <<now, samples, schemaChanges, verdicts, bindings, accessible,
                 telegram, report>>

------------------------------------------------------------------------------
\* The reports after it: scores, then drift

ToDrift(c) == [tick[c] EXCEPT !.pc = "refreshing", !.left = tick[c].saved]

\* score_project gives the newest batch of a bound source a verdict, or fails.
ScorePublished(c) ==
  \E B \in SUBSET {b \in bindings : b.source \in accessible} :
    \E flagged \in SUBSET B :
      LET Of(b) == {s \in samples : s.source = b.source /\ s.table = b.table}
      IN /\ \A b \in B : Of(b) # {}
         /\ verdicts' = Stored({[ts |-> Newest(Of(b)).ts, table |-> b.table,
                                 source |-> b.source, version |-> b.version,
                                 anomaly |-> b \in flagged] : b \in B})

\* _maybe_notify_anomalies up to its loop
BeginScoring(c) ==
  /\ tick[c].pc = "scoring"
  /\ IF bindings = None
     THEN tick' = [tick EXCEPT ![c] = ToDrift(c)] /\ UNCHANGED verdicts
     ELSE LET served == {b.table : b \in bindings}
          IN /\ IF served \cap tick[c].saved # {}
                THEN ScorePublished(c) ELSE UNCHANGED verdicts
             /\ tick' = [tick EXCEPT ![c] =
                  IF telegram THEN [@ EXCEPT !.pc = "own", !.left = tick[c].saved \ served]
                  ELSE ToDrift(c)]
  /\ UNCHANGED <<now, samples, schemaChanges, bindings, accessible, telegram,
                 lastRun, report>>

\* score_table: each moment of the last day that has a rate and one before it
Scorable(t) ==
  LET aligned == {s.ts : s \in RatesOf(t, Recent(samples, 1))}
  IN {ts \in aligned : \E x \in aligned : x < ts}

\* One turn of the loop; without enough history, or on any error, the table
\* is passed over.
ScoreOwn(c, t) ==
  /\ tick[c].pc = "own" /\ t \in tick[c].left
  /\ \/ UNCHANGED verdicts
     \/ \E flagged \in SUBSET Scorable(t) :
          verdicts' = Stored({[ts |-> ts, table |-> t, source |-> None, version |-> None,
                               anomaly |-> ts \in flagged] : ts \in Scorable(t)})
  /\ tick' = [tick EXCEPT ![c].left = @ \ {t}]
  /\ UNCHANGED <<now, samples, schemaChanges, bindings, accessible, telegram,
                 lastRun, report>>

EndScoring(c) ==
  /\ tick[c].pc = "own" /\ tick[c].left = {}
  /\ tick' = [tick EXCEPT ![c] = ToDrift(c)]
  /\ UNCHANGED <<now, samples, schemaChanges, verdicts, bindings, accessible,
                 telegram, lastRun, report>>

\* _refresh_drift_cache: a table's report is computed from one reading of the
\* store and written in a later transaction.
Read(c, t) ==
  /\ tick[c].pc = "refreshing" /\ t \in tick[c].left /\ tick[c].computed = None
  /\ tick' = [tick EXCEPT ![c].computed = [table |-> t, value |-> Compute(t)],
                         ![c].left = @ \ {t}]
  /\ UNCHANGED <<now, samples, schemaChanges, verdicts, bindings, accessible,
                 telegram, lastRun, report>>

\* save_drift_reports: the table's rows are replaced
Replace(c) ==
  /\ tick[c].pc = "refreshing" /\ tick[c].computed # None
  /\ report' = [report EXCEPT ![tick[c].computed.table] = tick[c].computed.value]
  /\ tick' = [tick EXCEPT ![c].computed = None]
  /\ UNCHANGED <<now, samples, schemaChanges, verdicts, bindings, accessible,
                 telegram, lastRun>>

\* Done, or an error that ends the refresh where it is.
EndReports(c) ==
  /\ tick[c].pc = "refreshing"
  /\ tick' = [tick EXCEPT ![c] = NoTick]
  /\ UNCHANGED <<now, samples, schemaChanges, verdicts, bindings, accessible,
                 telegram, lastRun, report>>

------------------------------------------------------------------------------
\* What happens to the store and the configuration meanwhile

\* Mutant: metrics are kept as long as the trend is shown.
PurgeShown == samples' = Recent(samples, ShownDays)

\* purge_old
Purged == samples' = Recent(samples, RetentionDays)

Purge ==
  /\ Purged
  /\ UNCHANGED <<now, schemaChanges, verdicts, bindings, accessible, telegram, tick,
                 lastRun, report>>

\* An operator edits the configuration: a source has one binding at most.
Configure(B) ==
  /\ bindings' = B
  /\ UNCHANGED <<now, samples, schemaChanges, verdicts, accessible, telegram, tick,
                 lastRun, report>>

\* A connection goes, or its project loses it.
Revoke(c) ==
  /\ accessible' = accessible \ {c}
  /\ UNCHANGED <<now, samples, schemaChanges, verdicts, bindings, telegram, tick,
                 lastRun, report>>

\* An editor asks any version about the newest batch of a source.
Predict(c, t, v) ==
  LET S == {s \in samples : s.source = c /\ s.table = t}
  IN /\ c \in accessible /\ S # {}
     /\ \E anomaly \in BOOLEAN :
          verdicts' = Stored({[ts |-> Newest(S).ts, table |-> t, source |-> c,
                               version |-> v, anomaly |-> anomaly]})
     /\ UNCHANGED <<now, samples, schemaChanges, bindings, accessible, telegram, tick,
                    lastRun, report>>

Configurations ==
  {None} \cup {B \in SUBSET [source: Source, table: Observed, version: Version] :
                 \A b, d \in B : (b.source = d.source /\ b.table = d.table) => b = d}

TickNext(c) ==
  \/ StartTick(c)
  \/ \E t \in Observed : Save(c, t) \/ SaveFails(c, t) \/ ScoreOwn(c, t) \/ Read(c, t)
  \/ Break(c) \/ EndTick(c) \/ BeginScoring(c) \/ EndScoring(c)
  \/ Replace(c) \/ EndReports(c)

HistoryNext ==
  \/ Pass \/ Purge
  \/ \E c \in Source : TickNext(c) \/ Revoke(c)
  \/ \E B \in Configurations : Configure(B)
  \/ \E c \in Source, t \in Observed, v \in Version : Predict(c, t, v)

HistorySpec == HistoryInit /\ [][HistoryNext]_historyVars

------------------------------------------------------------------------------
\* Properties

\* No table goes unobserved for longer than the aggregates can see behind the
\* days that are shown.
Regular ==
  \A s \in samples :
    LET before == {p \in RatesOf(s.table, samples) : Earlier(p, s)}
    IN before # {} => s.ts - Newest(before).ts <= (WindowDays - ShownDays - 1) * PerDay

\* Batches arrive in the order of their moments.
InOrder ==
  \A s \in samples' \ samples, q \in samples : q.table = s.table => Earlier(q, s)

\* An event stays in the trend as long as its day is shown: neither the end
\* of the window, which cuts off what it is compared with, nor the purge, nor
\* a later check of the same day takes it away (get_history_daily).
EventsStay ==
  [][(Regular' /\ InOrder) =>
       \A day \in DaysShown \cap DaysShown' : Daily(day).spikes <= Daily(day).spikes']_historyVars

\* One observation of a source has one verdict on the pages, whatever
\* versions scored it, whether before or after it was bound, and whatever
\* the project's own detector said of it (_active_scores_scope).
VerdictsCountOnce ==
  \A v, w \in Counted :
    (v # w /\ v.ts = w.ts /\ v.table = w.table) =>
      (v.source # w.source /\ None \notin {v.source, w.source})

\* What the insights say of the growth since the check before agrees with the
\* table of checks: a growth by the delta is a spike of the last check.  Of
\* same-named tables that two connections read in the same second, the two
\* compare different pairs (get_history_insights).
InsightsAgree ==
  (Moments # {} /\ \A s, u \in HistoryRows : (s.ts = u.ts /\ s.table = u.table) => s = u) =>
    ((\E g \in Growths : g >= Spike) => Line(Latest(Moments)).spikes > 0)

\* A cached drift compares two snapshots of that table, the older one first,
\* which differ and were both of the last days when it was computed, however
\* ticks and their reports interleave (ml/drift.py).
DriftIsFounded ==
  \A t \in Observed :
    (report[t] # None /\ report[t].severity = "drift") =>
      /\ report[t].base.table = t /\ report[t].current.table = t
      /\ report[t].base.ts < report[t].current.ts
      /\ report[t].base.distribution # report[t].current.distribution
      /\ report[t].base.ts >= report[t].computed - BaselineDays * PerDay

\* The overview does not say that all is calm when the newest tick failed
\* (templates/overview.html knows a message for that).
CalmIsEarned ==
  StatusShown = "ok" =>
    \A r \in NewestRuns : r.status = "failed" => \E q \in NewestRuns : q.ts > r.ts \/ (q.ts = r.ts /\ q # r)

\* The pages of one project do not contradict each other or what was stored.
PagesAreConsistent == VerdictsCountOnce /\ InsightsAgree /\ DriftIsFounded
=============================================================================
