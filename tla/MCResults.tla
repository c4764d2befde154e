----------------------------- MODULE MCResults -----------------------------
(***************************************************************************)
(* What is made of the collected metrics: schema drift, change-points, the *)
(* alerts about them, the models that are fitted to the series, and the    *)
(* explanations of its anomalies.  Each behaviour exercises one of them    *)
(* (of the alerts one of the two jobs, of the models one kind), so that    *)
(* their states add up instead of multiplying.                             *)
(***************************************************************************)
EXTENDS SchemaHistory, Alerts, ChangepointStore, ModelFiles, Explanations

CONSTANTS k1, k2, w1, w2

VARIABLE focus

Focus == {"schema", "changepoints", "explanation"} \cup Kind \cup Model

Column(type, nullable) == [type |-> type, nullable |-> nullable]

\* A column that may change its type or its nullability, with or without
\* another one beside it.
MCSchema ==
  {[c \in {"x"} |-> Column("int", FALSE)], [c \in {"x"} |-> Column("int", TRUE)],
   [c \in {"x"} |-> Column("text", FALSE)],
   [c \in {"x", "y"} |-> Column(IF c = "x" THEN "text" ELSE "int", FALSE)]}

MCMinPoints == [m \in Model |-> 2]

\* A component that is not exercised begins in one of its initial states.
Quiet(f, choice) == focus # f => choice

ResultsInit ==
  /\ focus \in Focus
  /\ SchemaInit /\ AlertsInit /\ ChangepointInit /\ ModelInit /\ ExplainInit
  /\ Quiet("schema", \A k \in Collector : columnsOf[k] = [c \in {"x"} |-> Column("int", FALSE)])
  /\ measured \in IF focus = "schema_drift" THEN {Project, {}} ELSE {Project}
  /\ Quiet("explanation", live = {} /\ fed = {} /\ ~scored /\ ~apiKey)

\* Only one of the jobs runs.  Turns of the drift job are no longer than its
\* interval, its projects have one chat each and its messages fail in one way;
\* the other job needs less time.
AlertsStep ==
  /\ focus \in Kind /\ AlertsNext
  /\ \A k \in Kind \ {focus} : job'[k] = JobIdle
  /\ focus = "schema_drift" =>
       /\ longest' <= Interval
       /\ \A p \in Project : chats'[p] \subseteq {IF p = Legacy THEN "c" ELSE "d"}
       /\ \A i \in DOMAIN attempts' : attempts'[i].outcome \in {"sent", "timeout"}
  /\ focus = "changepoint" => drifts' = {} /\ now' < 4

\* Only models of one kind are asked for, detectors without change-points.  Of a
\* fault of the disk, a second change-point, an earlier one, and a fourth hour, at
\* which points and change-points expire, a behaviour has one; points are missing
\* from the first two hours.
ModelStep ==
  /\ focus \in Model /\ ModelNext
  /\ \A w \in Worker : worker'[w].model \in {None, focus}
  /\ focus = "anomaly" => shifts' = 0 /\ hour' < MaxHour
  /\ hour' > 2 => hour' \in series'
  /\ shifts' = 2 /\ shifts = 1 => shift'.at < shift.at
  /\ Cardinality({x \in 1 .. 3 : <<diskFaults' > 0, shifts' = 2, hour' = MaxHour>>[x]}) <= 1

ResultsNext ==
  /\ UNCHANGED focus
  /\ \/ /\ focus = "schema" /\ SchemaNext
        /\ UNCHANGED <<alertVars, changepointVars, modelVars, explainVars>>
     \/ AlertsStep /\ UNCHANGED <<schemaVars, changepointVars, modelVars, explainVars>>
     \/ /\ focus = "changepoints" /\ ChangepointNext
        /\ UNCHANGED <<schemaVars, alertVars, modelVars, explainVars>>
     \/ ModelStep /\ UNCHANGED <<schemaVars, alertVars, changepointVars, explainVars>>
     \/ /\ focus = "explanation" /\ ExplainNext
        /\ UNCHANGED <<schemaVars, alertVars, changepointVars, modelVars>>

\* SchemaFairness where SchemaHistory is exercised, and ExplainFairness.
ResultsSpec ==
  /\ ResultsInit
  /\ [][ResultsNext]_<<focus, schemaVars, alertVars, changepointVars, modelVars, explainVars>>
  /\ \A k \in Collector : WF_schemaVars(focus = "schema" /\ Collect(k))
  /\ ExplainFairness

\* EveryTableIsSeen, for the behaviours that exercise SchemaHistory.
TablesAreSeen == focus = "schema" => EveryTableIsSeen

\* What must happen in the end does: columns are noticed, requests answered.
ResultsArrive == TablesAreSeen /\ RequestsEnd
=============================================================================
