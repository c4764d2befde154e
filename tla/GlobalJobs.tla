----------------------------- MODULE GlobalJobs -----------------------------
(***************************************************************************)
(* The jobs of collectors/scheduler.py that are not about one connection:  *)
(* the global tick (collect_all_tables), the nightly retraining of         *)
(* forecasts and anomaly detectors, and the hourly search for              *)
(* change-points.  Each goes through many projects in one function call:   *)
(* what matters is how far it gets when something on the way fails.  The   *)
(* project "legacy" belongs to the global DATABASE_URL; every other one    *)
(* is known by the metrics that its connections have stored.               *)
(*                                                                         *)
(* Abstracted: what training, scoring and detection compute.  Jobs share   *)
(* no state here, so one of them runs at a time.                           *)
(***************************************************************************)
EXTENDS Absent, Integers, Sequences, FiniteSets, SequencesExt

CONSTANTS Project, Legacy, TableName, GlobalTables

ASSUME GlobalJobsAssumption ==
  /\ Legacy \in Project
  /\ GlobalTables \subseteq TableName
  /\ None \notin Project

VARIABLES
  globalUp,      \* the database of DATABASE_URL answers
  measured,      \* the tables each project has metrics of
  served,        \* those with a published model, or None: its configuration is invalid
  alerted,       \* the projects with Telegram settings that can be read
  job,           \* the job under way
  needed         \* history: the job asked a database that did not answer

jobVars == <<globalUp, measured, served, alerted, job, needed>>

Job == {"collect_all_tables", "retrain_forecasts", "retrain_anomaly_detectors",
        "detect_changepoints"}

\* The parts of a job, in order: those that use the global database, and
\* those that visit projects.
Stages(j) ==
  IF j = "collect_all_tables"
  THEN <<"collect", "sweep", "alert", "drift", "score">> ELSE <<j>>

IsGlobal(stage) == stage \in {"collect", "sweep", "drift", "score"}

NoJob == [name |-> None, stage |-> 1, ended |-> FALSE, left |-> {}, project |-> None,
         todo |-> {}, done |-> {}]

JobsInit ==
  /\ globalUp \in BOOLEAN
  /\ measured \in [Project -> SUBSET TableName]
  /\ served \in [Project -> SUBSET TableName \cup {None}]
  /\ alerted \in SUBSET Project
  /\ job = NoJob /\ needed = FALSE

Stage == Stages(job.name)[job.stage]

\* _iter_notification_projects and _iter_retrain_projects
Visits(stage) ==
  {Legacy} \cup IF stage \in {"alert", "detect_changepoints"} THEN alerted
                ELSE {p \in Project : measured[p] # {}}

UpOrDown ==
  /\ globalUp' = ~globalUp
  /\ UNCHANGED <<measured, served, alerted, job, needed>>

StartJob(j) ==
  /\ job.name = None \/ job.ended
  /\ job' = [NoJob EXCEPT !.name = j, !.left = Visits(Stages(j)[1])]
  /\ needed' = FALSE
  /\ UNCHANGED <<globalUp, measured, served, alerted>>

Running == job.name # None /\ ~job.ended

\* An exception that no handler of the job catches ends it.
Die == job' = [job EXCEPT !.ended = TRUE] /\ needed' = TRUE

Leave ==
  job' = IF job.stage = Len(Stages(job.name)) THEN [job EXCEPT !.ended = TRUE]
         ELSE [job EXCEPT !.stage = @ + 1, !.left = Visits(Stages(job.name)[job.stage + 1])]

\* Each of these parts begins by listing the tables of the global database;
\* a table that cannot be worked on is logged and skipped.
GlobalStage ==
  /\ Running /\ IsGlobal(Stage)
  /\ IF globalUp THEN Leave /\ UNCHANGED needed ELSE Die
  /\ UNCHANGED <<globalUp, measured, served, alerted>>

\* A tick that has stored no metrics does not score any.
NothingToScore ==
  /\ Running /\ Stage = "score"
  /\ Leave
  /\ UNCHANGED <<globalUp, measured, served, alerted, needed>>

Retrains == job.name = "retrain_anomaly_detectors"

Misconfigured(p) == Retrains /\ served[p] = None

Skipped(p) ==
  \/ measured[p] = {} /\ p # Legacy
  \/ Misconfigured(p)
  \/ Stage = "alert" /\ p \notin alerted

\* Tables with a published model are left to the inference service.
Own(p) ==
  IF Misconfigured(p) THEN {} ELSE IF Retrains THEN measured[p] \ served[p] ELSE measured[p]

Visiting(p) == Running /\ ~IsGlobal(Stage) /\ job.project = None /\ p \in job.left

PassOver(p) ==
  /\ Visiting(p)
  /\ Skipped(p) \/ (Own(p) = {} /\ measured[p] # {})
  /\ job' = [job EXCEPT !.left = @ \ {p}]
  /\ UNCHANGED <<globalUp, measured, served, alerted, needed>>

Enter(p) ==
  /\ Visiting(p) /\ ~Skipped(p) /\ Own(p) # {}
  /\ job' = [job EXCEPT !.left = @ \ {p}, !.project = p, !.todo = Own(p)]
  /\ UNCHANGED <<globalUp, measured, served, alerted, needed>>

\* A legacy project without metrics falls back on the tables of its database.
EnterUnmeasured(p) ==
  /\ Visiting(p) /\ ~Skipped(p) /\ measured[p] = {}
  /\ IF globalUp
     THEN /\ job' = [job EXCEPT !.left = @ \ {p}, !.project = p, !.todo = GlobalTables]
          /\ UNCHANGED needed
     ELSE Die
  /\ UNCHANGED <<globalUp, measured, served, alerted>>

\* Mutant: an error of the inference adapter is not caught.
GiveUp(r) == [r EXCEPT !.ended = TRUE]

Survive(r) == r

\* train_candidates or score_project raises.
CandidatesFail(p) ==
  /\ Visiting(p) /\ ~Skipped(p)
  /\ Retrains /\ served[p] \cap measured[p] # {}
  /\ job' = Survive(job)
  /\ UNCHANGED <<globalUp, measured, served, alerted, needed>>

\* Too little history, or an error, is counted and the next table is next.
WorkOn(t) ==
  /\ Running /\ t \in job.todo
  /\ job' = [job EXCEPT !.todo = @ \ {t}, !.done = @ \cup {<<Stage, job.project, t>>}]
  /\ UNCHANGED <<globalUp, measured, served, alerted, needed>>

FinishProject ==
  /\ Running /\ job.project # None /\ job.todo = {}
  /\ job' = [job EXCEPT !.project = None]
  /\ UNCHANGED <<globalUp, measured, served, alerted, needed>>

FinishStage ==
  /\ Running /\ ~IsGlobal(Stage) /\ job.project = None /\ job.left = {}
  /\ Leave
  /\ UNCHANGED <<globalUp, measured, served, alerted, needed>>

JobsNext ==
  \/ UpOrDown \/ GlobalStage \/ NothingToScore \/ FinishProject \/ FinishStage
  \/ \E j \in Job : StartJob(j)
  \/ \E p \in Project : PassOver(p) \/ Enter(p) \/ EnterUnmeasured(p) \/ CandidatesFail(p)
  \/ \E t \in TableName : WorkOn(t)

JobsSpec == JobsInit /\ [][JobsNext]_jobVars

------------------------------------------------------------------------------
\* Properties

JobsTypeOK ==
  /\ job.name \in Job \cup {None}
  /\ job.left \subseteq Project /\ job.project \in Project \cup {None}
  /\ job.todo \subseteq TableName

\* What a job owes: at each stage that visits projects, every table of every
\* project it is for.
Owes(j, s, p, t) ==
  /\ s \in ToSet(Stages(j)) /\ ~IsGlobal(s)
  /\ p \in Visits(s) /\ t \in measured[p]
  /\ s = "alert" => p \in alerted
  /\ j = "retrain_anomaly_detectors" => served[p] # None /\ t \notin served[p]

AllIsDone ==
  job.ended =>
    \A s \in ToSet(Stages(job.name)), p \in Project, t \in TableName :
      Owes(job.name, s, p, t) => <<s, p, t>> \in job.done

\* Projects are isolated: an invalid configuration, a failing training or a
\* failing service of one project costs the others nothing, as long as the
\* global database answers when it is asked (retrain_anomaly_detectors).
ProjectsAreIsolated == ~needed => AllIsDone

\* "Multi-tenant deploys often have no global DATABASE_URL - don't crash the
\* whole retrain job because of it."
TenantsAreRetrained ==
  job.name \in {"retrain_forecasts", "retrain_anomaly_detectors"} => AllIsDone

\* The jobs keep their types, and the projects apart.
JobsAreSound == JobsTypeOK /\ ProjectsAreIsolated
=============================================================================
