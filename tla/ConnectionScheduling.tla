------------------------ MODULE ConnectionScheduling ------------------------
(***************************************************************************)
(* The core of the program: database connections, the APScheduler jobs     *)
(* that collect them, the HTTP handlers that change both, the collector    *)
(* ticks that run in the scheduler's threads, the run log they write, and  *)
(* the start and the crash of the processes that hold all of this.         *)
(*                                                                         *)
(* A handler and a tick take one step per transaction on the metrics store *)
(* or per call on the scheduler: between two such steps every other thread *)
(* may run.  The job store is memory: it is lost with its process and is   *)
(* filled again from the connections table at boot.                        *)
(*                                                                         *)
(* Abstracted: what is collected (CollectorTick models one tick's body),   *)
(* who may call a handler (every request here passed the role checks), the *)
(* intervals (a registered job may fire at any moment).                    *)
(***************************************************************************)
EXTENDS Naturals, FiniteSets

CONSTANTS
  Conn,         \* connection ids: uuid4, so a deleted one never comes back
  Project,      \* project ids
  ProjectOf,    \* the project each connection belongs to
  Run,          \* run ids, one per tick (bounds the number of ticks)
  Handler,      \* HTTP worker threads (bounds the concurrent requests)
  FlaskDebug,   \* the FLASK_DEBUG environment variable: "unset", "0" or "1"
  DbFaults,     \* whether writes to the metrics store may fail
  MaxManual,    \* bound on the pending one-shot jobs of a connection
  MaxCrashes    \* bound on the number of crashes

ASSUME ConstantsAssumption ==
  /\ Conn # {}
  /\ ProjectOf \in [Conn -> Project]
  /\ FlaskDebug \in {"unset", "0", "1"}
  /\ DbFaults \in BOOLEAN
  /\ MaxManual \in Nat
  /\ MaxCrashes \in Nat

VARIABLES
  projects,     \* rows of table projects
  row,          \* table connections: row[c] is the state of c's row
  runs,         \* table collector_runs: the status of each run
  data,         \* projects with rows in the tables that have no foreign key
  proc,         \* how far each process has come in create_app
  stale,        \* rows that cleanup_stale_collector_runs has selected
  jobs,         \* interval jobs registered in each process's scheduler
  manual,       \* pending one-shot jobs of each process and connection
  tick,         \* the local state of each call of collect_for_connection
  request,      \* the local state of each HTTP worker thread
  crashes       \* number of crashes so far

dbVars   == <<projects, row, runs, data>>
schedVars == <<jobs, manual>>
bootVars == <<proc, stale, crashes>>
vars     == <<dbVars, schedVars, bootVars, tick, request>>

(***************************************************************************)
(* Processes.  `python -m app.app` builds the application in the main      *)
(* process; app.run(debug=...) then serves it there or, in debug mode,     *)
(* hands over to the reloader, which serves it from a child process.       *)
(***************************************************************************)
Proc == {"main", "child"}

\* os.environ.get("FLASK_DEBUG", "1") == "1", the argument of app.run
RunsReloader == FlaskDebug # "0"

\* app.debug while create_app runs: Flask derives it from the environment
\* variable alone, and app.run has not been called yet
DebugInFactory == FlaskDebug = "1"

\* Mutant: the scheduler is started in every process.
StartsSchedulerAlways(p) == TRUE

\* create_app starts the scheduler "if not app.debug or WERKZEUG_RUN_MAIN"
StartsScheduler(p) == ~DebugInFactory \/ p = "child"

WebProc == IF RunsReloader THEN "child" ELSE "main"

SchedulerRunning(p) == proc[p] = "serving" /\ StartsScheduler(p)
Serving == proc[WebProc] = "serving"

(***************************************************************************)
(* Rows.                                                                   *)
(***************************************************************************)
RowState == {"unborn", "active", "inactive", "gone"}
Closed   == {"success", "warning", "failed", "skipped"}
RunState == Closed \cup {"none", "running", "deleted"}

\* Mutant: rows are deleted softly, and lookups and keys still find them.
ExistsSoftly(c) == row[c] # "unborn"

Exists(c) == row[c] \in {"active", "inactive"}
Logged(r) == runs[r] \in Closed \cup {"running"}

\* Mutant: foreign keys are not enforced (no PRAGMA on SQLite).
DropNoRuns(C) == UNCHANGED runs

\* ON DELETE CASCADE from connections to collector_runs
DropRuns(C) ==
  runs' = [r \in Run |-> IF Logged(r) /\ tick[r].conn \in C
                         THEN "deleted" ELSE runs[r]]

(***************************************************************************)
(* Local states.                                                           *)
(***************************************************************************)
TickPC == {"unused", "fired", "fetched", "skipping", "opened", "collecting",
           "closing", "reporting", "done", "dead"}
InFlight == TickPC \ {"unused", "done", "dead"}

\* The points of a tick at which its run row has been inserted and not closed
Open == {"skipping", "opened", "collecting", "closing"}

Tick == [pc: TickPC, proc: Proc, conn: Conn, manual: BOOLEAN,
         born: RowState,      \* the row when the job fired (history)
         seen: RowState,      \* conn_row, as get_connection returned it
         outcome: Closed,     \* run_status and degraded, combined
         saved: BOOLEAN]      \* rows_saved > 0

Op == {"create", "toggle", "delete", "run_now", "delete_project"}
Request == [pc: {"idle", "looked_up", "written"}, op: Op, conn: Conn,
            seen: RowState]

AnyConn == CHOOSE c \in Conn : TRUE
Unused  == [pc |-> "unused", proc |-> "main", conn |-> AnyConn,
            manual |-> FALSE, born |-> "unborn", seen |-> "unborn",
            outcome |-> "success", saved |-> FALSE]
\* A call that has returned or died: its local variables are forgotten.
Ended(t, pc) == [t EXCEPT !.pc = pc, !.manual = FALSE, !.seen = "unborn",
                          !.outcome = "success"]
Idle    == [pc |-> "idle", op |-> "create", conn |-> AnyConn,
            seen |-> "unborn"]

Init ==
  /\ projects = Project
  /\ row = [c \in Conn |-> "unborn"]
  /\ runs = [r \in Run |-> "none"]
  /\ data = {}
  /\ proc = [p \in Proc |-> "down"]
  /\ stale = [p \in Proc |-> {}]
  /\ jobs = [p \in Proc |-> {}]
  /\ manual = [p \in Proc |-> [c \in Conn |-> 0]]
  /\ tick = [r \in Run |-> Unused]
  /\ request = [h \in Handler |-> Idle]
  /\ crashes = 0

(***************************************************************************)
(* Start of a process: create_app closes the runs a crashed process left   *)
(* behind (a SELECT, then a guarded UPDATE), then starts the scheduler and *)
(* registers a job for every active connection.  HTTP is served only after *)
(* create_app has returned.                                                *)
(***************************************************************************)
\* Mutant: create_app, and its sweep, is entered again in a live process.
MayStartAgain(p) == proc[p] \in {"down", "serving"} /\ p = WebProc

MayStart(p) ==
  /\ proc[p] = "down"
  /\ p = "child" => RunsReloader /\ proc["main"] = "serving"

BootSelectStale(p) ==
  /\ MayStart(p)
  /\ proc' = [proc EXCEPT ![p] = "cleaning"]
  /\ stale' = [stale EXCEPT ![p] = {r \in Run : runs[r] = "running"}]
  /\ UNCHANGED <<dbVars, schedVars, tick, request, crashes>>

\* Mutant: no sweep at start-up.
BootClosesNothing(p) ==
  /\ proc[p] = "cleaning"
  /\ proc' = [proc EXCEPT ![p] = "cleaned"]
  /\ stale' = [stale EXCEPT ![p] = {}]
  /\ UNCHANGED <<dbVars, schedVars, tick, request, crashes>>

BootCloseStale(p) ==
  /\ proc[p] = "cleaning"
  /\ proc' = [proc EXCEPT ![p] = "cleaned"]
  /\ stale' = [stale EXCEPT ![p] = {}]
  /\ \/ runs' = [r \in Run |-> IF r \in stale[p] /\ runs[r] = "running"
                               THEN "failed" ELSE runs[r]]
     \/ DbFaults /\ UNCHANGED runs          \* logged as a warning
  /\ UNCHANGED <<projects, row, data, schedVars, tick, request, crashes>>

\* Mutant: the registration query has lost its WHERE is_active = 1.
BootRegistersAll(p) ==
  /\ proc[p] = "cleaned"
  /\ proc' = [proc EXCEPT ![p] = "serving"]
  /\ jobs' = [jobs EXCEPT ![p] = {c \in Conn : Exists(c)}]
  /\ UNCHANGED <<dbVars, manual, stale, tick, request, crashes>>

\* Mutant: jobs are only added by handlers, never at start-up.
BootRegistersNone(p) ==
  /\ proc[p] = "cleaned"
  /\ proc' = [proc EXCEPT ![p] = "serving"]
  /\ UNCHANGED <<dbVars, schedVars, stale, tick, request, crashes>>

BootRegisterJobs(p) ==
  /\ proc[p] = "cleaned"
  /\ proc' = [proc EXCEPT ![p] = "serving"]
  /\ jobs' = [jobs EXCEPT ![p] = IF StartsScheduler(p)
                                 THEN {c \in Conn : row[c] = "active"}
                                 ELSE {}]
  /\ UNCHANGED <<dbVars, manual, stale, tick, request, crashes>>

\* The registration query fails: start_scheduler logs it and carries on.
BootRegisterFails(p) ==
  /\ DbFaults
  /\ proc[p] = "cleaned"
  /\ proc' = [proc EXCEPT ![p] = "serving"]
  /\ UNCHANGED <<dbVars, schedVars, stale, tick, request, crashes>>

\* A process stops (a reload, a redeploy, a kill): its threads, its job store
\* and, for the web process, its requests are lost.  The child does not
\* outlive the main process.
Crash(p) ==
  LET dead == IF p = "main" THEN Proc ELSE {"child"} IN
  /\ proc[p] # "down"
  /\ crashes < MaxCrashes
  /\ crashes' = crashes + 1
  /\ proc' = [q \in Proc |-> IF q \in dead THEN "down" ELSE proc[q]]
  /\ stale' = [q \in Proc |-> IF q \in dead THEN {} ELSE stale[q]]
  /\ jobs' = [q \in Proc |-> IF q \in dead THEN {} ELSE jobs[q]]
  /\ manual' = [q \in Proc |-> IF q \in dead THEN [c \in Conn |-> 0]
                                             ELSE manual[q]]
  /\ tick' = [r \in Run |->
                IF tick[r].proc \in dead /\ tick[r].pc \in InFlight
                THEN Ended(tick[r], "dead") ELSE tick[r]]
  /\ request' = [h \in Handler |-> IF WebProc \in dead THEN Idle
                                                       ELSE request[h]]
  /\ UNCHANGED dbVars

(***************************************************************************)
(* HTTP handlers.  Each looks the row up in one transaction, changes it in *)
(* another, and then calls the scheduler of its own process.               *)
(***************************************************************************)
MayHandle(h) == Serving /\ request[h].pc = "idle"

AddJob(p, c)    == jobs' = [jobs EXCEPT ![p] = @ \cup {c}]
RemoveJob(p, c) == jobs' = [jobs EXCEPT ![p] = @ \ {c}]

\* new_connection: the INSERT needs its project's row.  An active connection
\* gets its job next; an inactive one is finished.
CreateConnection(h, c, active) ==
  /\ MayHandle(h)
  /\ row[c] = "unborn"
  /\ ProjectOf[c] \in projects
  /\ row' = [row EXCEPT ![c] = IF active THEN "active" ELSE "inactive"]
  /\ request' = IF active
                THEN [request EXCEPT ![h] = [pc |-> "written",
                        op |-> "create", conn |-> c, seen |-> "active"]]
                ELSE request
  /\ UNCHANGED <<projects, runs, data, schedVars, bootVars, tick>>

\* toggle, delete, run_now and the deletion of a project start by reading the
\* row they are about; a missing one is a 404, and run_now rejects a
\* connection that is switched off.
LookUp(h, op, c) ==
  /\ MayHandle(h)
  /\ CASE op = "delete_project" -> ProjectOf[c] \in projects
       [] op = "run_now"        -> row[c] = "active"
       [] OTHER                 -> Exists(c)
  /\ request' = [request EXCEPT ![h] = [pc |-> "looked_up", op |-> op,
                                        conn |-> c, seen |-> row[c]]]
  /\ UNCHANGED <<dbVars, schedVars, bootVars, tick>>

At(h, pc, op) == request[h].pc = pc /\ request[h].op = op
Goto(h, pc)   == request' = [request EXCEPT ![h].pc = pc]
Respond(h)    == request' = [request EXCEPT ![h] = Idle]

\* set_connection_active(not conn["is_active"]): the value read, negated
ToggleRow(h) ==
  LET c == request[h].conn IN
  /\ At(h, "looked_up", "toggle")
  /\ row' = [row EXCEPT ![c] =
       IF ~Exists(c) THEN @
       ELSE IF request[h].seen = "active" THEN "inactive" ELSE "active"]
  /\ Goto(h, "written")
  /\ UNCHANGED <<projects, runs, data, schedVars, bootVars, tick>>

DeleteRow(h) ==
  LET c == request[h].conn IN
  /\ At(h, "looked_up", "delete")
  /\ row' = [row EXCEPT ![c] = IF Exists(c) THEN "gone" ELSE @]
  /\ DropRuns({c})
  /\ Goto(h, "written")
  /\ UNCHANGED <<projects, data, schedVars, bootVars, tick>>

\* The last step of create, toggle and delete: make the scheduler of this
\* process agree with what the handler has just written.
SyncJob(h) ==
  LET c == request[h].conn
      wanted == \/ request[h].op = "create"
                \/ /\ request[h].op = "toggle"
                   /\ request[h].seen = "inactive"
  IN /\ request[h].pc = "written"
     /\ IF wanted THEN AddJob(WebProc, c) ELSE RemoveJob(WebProc, c)
     /\ Respond(h)
     /\ UNCHANGED <<dbVars, manual, bootVars, tick>>

\* run_now: a one-shot job under an id of its own, so clicks add up
RunNow(h) ==
  LET c == request[h].conn IN
  /\ At(h, "looked_up", "run_now")
  /\ manual[WebProc][c] < MaxManual
  /\ manual' = [manual EXCEPT ![WebProc][c] = @ + 1]
  /\ Respond(h)
  /\ UNCHANGED <<dbVars, jobs, bootVars, tick>>

\* delete_project: the row, by cascade its connections and their runs, and
\* the project's rows in the tables without a foreign key, in one transaction.
\* The scheduler is not told.
DeleteProject(h) ==
  LET p == ProjectOf[request[h].conn]
      C == {c \in Conn : ProjectOf[c] = p}
  IN /\ At(h, "looked_up", "delete_project")
     /\ IF p \in projects
        THEN /\ projects' = projects \ {p}
             /\ row' = [c \in Conn |-> IF c \in C /\ Exists(c)
                                       THEN "gone" ELSE row[c]]
             /\ DropRuns(C)
             /\ data' = data \ {p}
        ELSE UNCHANGED dbVars
     /\ Respond(h)
     /\ UNCHANGED <<schedVars, bootVars, tick>>

(***************************************************************************)
(* The scheduler starts a tick.  _JOB_OPTS and run_now give every job id   *)
(* max_instances=1: an interval job does not start while its last run is   *)
(* still going; a one-shot job has an id of its own.                       *)
(***************************************************************************)
Running(p, c) == \E r \in Run : /\ tick[r].pc \in InFlight
                                /\ tick[r].proc = p
                                /\ tick[r].conn = c
                                /\ ~tick[r].manual

StartTick(r, p, c, byHand) ==
  /\ tick[r].pc = "unused"
  /\ tick' = [tick EXCEPT ![r] = [Unused EXCEPT
                !.pc = "fired", !.proc = p, !.conn = c,
                !.manual = byHand, !.born = row[c]]]

FireInterval(p, c, r) ==
  /\ SchedulerRunning(p)
  /\ c \in jobs[p]
  /\ ~Running(p, c)
  /\ StartTick(r, p, c, FALSE)
  /\ UNCHANGED <<dbVars, schedVars, bootVars, request>>

FireManual(p, c, r) ==
  /\ SchedulerRunning(p)
  /\ manual[p][c] > 0
  /\ manual' = [manual EXCEPT ![p][c] = @ - 1]
  /\ StartTick(r, p, c, TRUE)
  /\ UNCHANGED <<dbVars, jobs, bootVars, request>>

\* Mutant: a one-shot job is dropped twice.
MisfireUnguarded(p, c) ==
  /\ SchedulerRunning(p)
  /\ manual' = [manual EXCEPT ![p][c] = @ - 1]
  /\ UNCHANGED <<dbVars, jobs, bootVars, tick, request>>

\* A one-shot job more than misfire_grace_time late is dropped unrun.
Misfire(p, c) ==
  /\ SchedulerRunning(p)
  /\ manual[p][c] > 0
  /\ manual' = [manual EXCEPT ![p][c] = @ - 1]
  /\ UNCHANGED <<dbVars, jobs, bootVars, tick, request>>

(***************************************************************************)
(* collect_for_connection.                                                 *)
(***************************************************************************)
TickAt(r, pcs) == tick[r].pc \in pcs
Step(r, pc)    == tick' = [tick EXCEPT ![r].pc = pc]
Return(r)      == tick' = [tick EXCEPT ![r] = Ended(@, "done")]
ConnOf(r)      == tick[r].conn

\* Mutant: the closing write is an upsert, as _upsert_sql would make it.
UpsertRunStatus(r, status) == runs' = [runs EXCEPT ![r] = status]

\* UPDATE collector_runs ... WHERE id = :id, whatever the row's status is
SetRunStatus(r, status) ==
  runs' = [runs EXCEPT ![r] = IF Logged(r) THEN status ELSE @]

\* The row is read again: a deleted connection ends the tick.
TickFetch(r) ==
  /\ TickAt(r, {"fired"})
  /\ IF Exists(ConnOf(r))
     THEN tick' = [tick EXCEPT ![r].seen = row[ConnOf(r)],
                               ![r].pc = "fetched"]
     ELSE Return(r)
  /\ UNCHANGED <<dbVars, schedVars, bootVars, request>>

\* save_collector_run.  If the connection has been deleted since, the foreign
\* key refuses the row and the exception ends the tick.
TickOpen(r) ==
  /\ TickAt(r, {"fetched"})
  /\ \/ /\ Exists(ConnOf(r))
        /\ runs' = [runs EXCEPT ![r] = "running"]
        /\ Step(r, IF tick[r].seen = "active" THEN "opened" ELSE "skipping")
     \/ /\ ~Exists(ConnOf(r)) \/ DbFaults
        /\ Return(r)
        /\ UNCHANGED runs
  /\ UNCHANGED <<projects, row, data, schedVars, bootVars, request>>

\* A switched-off connection closes its run as skipped; a DSN or token that
\* does not decrypt, or an adapter that cannot be built, as failed.
TickRefuse(r) ==
  /\ TickAt(r, {"skipping", "opened"})
  /\ Return(r)
  /\ \/ SetRunStatus(r, IF tick[r].pc = "skipping" THEN "skipped"
                                                   ELSE "failed")
     \/ DbFaults /\ UNCHANGED runs
  /\ UNCHANGED <<projects, row, data, schedVars, bootVars, request>>

\* One table: its metrics are committed (or not: filtered out, too large,
\* metadata only, failed), then its line is added to the run log.  That line
\* needs the run's row; without it the exception reaches the outer handler.
TickSaveMetrics(r) ==
  /\ TickAt(r, {"opened", "collecting"})
  /\ tick' = [tick EXCEPT ![r].pc = "collecting", ![r].saved = TRUE]
  /\ data' = data \cup {ProjectOf[ConnOf(r)]}
  /\ UNCHANGED <<projects, row, runs, schedVars, bootVars, request>>

TickLogTable(r) ==
  /\ TickAt(r, {"opened", "collecting"})
  /\ \/ /\ Logged(r)
        /\ \E o \in {tick[r].outcome, "warning"} :
             tick' = [tick EXCEPT ![r].pc = "collecting", ![r].outcome = o]
     \/ /\ ~Logged(r) \/ DbFaults
        /\ tick' = [tick EXCEPT ![r].pc = "closing", ![r].outcome = "failed"]
  /\ UNCHANGED <<dbVars, schedVars, bootVars, request>>

\* list_tables or table_stats raises: the outer handler takes over.
TickAbort(r) ==
  /\ TickAt(r, {"opened", "collecting"})
  /\ tick' = [tick EXCEPT ![r].pc = "closing", ![r].outcome = "failed"]
  /\ UNCHANGED <<dbVars, schedVars, bootVars, request>>

\* The finally clause.  A tick that failed, or saved nothing, ends here.
TickClose(r) ==
  /\ TickAt(r, {"opened", "collecting", "closing"})
  /\ \/ /\ SetRunStatus(r, tick[r].outcome)
        /\ IF tick[r].outcome # "failed" /\ tick[r].saved
           THEN Step(r, "reporting") ELSE Return(r)
     \/ /\ DbFaults
        /\ Return(r)
        /\ UNCHANGED runs
  /\ UNCHANGED <<projects, row, data, schedVars, bootVars, request>>

\* _maybe_notify_anomalies and _refresh_drift_cache: rows that carry a project
\* id and no foreign key.
TickReport(r) ==
  /\ TickAt(r, {"reporting"})
  /\ Return(r)
  /\ \/ data' = data \cup {ProjectOf[ConnOf(r)]}
     \/ UNCHANGED data
  /\ UNCHANGED <<projects, row, runs, schedVars, bootVars, request>>

(***************************************************************************)
(* The specification.                                                      *)
(***************************************************************************)
Boot(p) == \/ BootSelectStale(p) \/ BootCloseStale(p)
           \/ BootRegisterJobs(p) \/ BootRegisterFails(p)

Handle(h) ==
  \/ ToggleRow(h) \/ DeleteRow(h) \/ SyncJob(h) \/ RunNow(h)
  \/ DeleteProject(h)

TickStep(r) ==
  \/ TickFetch(r) \/ TickOpen(r) \/ TickRefuse(r) \/ TickSaveMetrics(r)
  \/ TickLogTable(r) \/ TickAbort(r) \/ TickClose(r) \/ TickReport(r)

Next ==
  \/ \E p \in Proc : Boot(p) \/ Crash(p)
  \/ \E h \in Handler : Handle(h)
  \/ \E h \in Handler, c \in Conn, active \in BOOLEAN :
       CreateConnection(h, c, active)
  \/ \E h \in Handler, op \in Op \ {"create"}, c \in Conn : LookUp(h, op, c)
  \/ \E p \in Proc, c \in Conn, r \in Run :
       FireInterval(p, c, r) \/ FireManual(p, c, r)
  \/ \E p \in Proc, c \in Conn : Misfire(p, c)
  \/ \E r \in Run : TickStep(r)

Spec == Init /\ [][Next]_vars

\* Background work goes on: a started process finishes starting, the job
\* threads run, a request that was accepted is carried through, and a process
\* that stopped is started again (restart policy, operator).  Users are not
\* obliged to do anything and a job is not obliged to fire.
Fairness ==
  /\ \A p \in Proc : WF_vars(Boot(p))
  /\ \A h \in Handler : WF_vars(Handle(h))
  /\ \A r \in Run : WF_vars(TickStep(r))

FairSpec == Spec /\ Fairness

(***************************************************************************)
(* Properties.                                                             *)
(***************************************************************************)
TypeOK ==
  /\ projects \subseteq Project
  /\ row \in [Conn -> RowState]
  /\ runs \in [Run -> RunState]
  /\ data \subseteq Project
  /\ proc \in [Proc -> {"down", "cleaning", "cleaned", "serving"}]
  /\ stale \in [Proc -> SUBSET Run]
  /\ jobs \in [Proc -> SUBSET Conn]
  /\ manual \in [Proc -> [Conn -> Nat]]
  /\ tick \in [Run -> Tick]
  /\ request \in [Handler -> Request]
  /\ crashes \in Nat

\* A run in the log always belongs to a stored connection, although ticks,
\* deletions and cascades interleave: a tick that lost its connection between
\* get_connection and save_collector_run leaves no row behind.
RunsHaveOwners == \A r \in Run : Logged(r) => Exists(ConnOf(r))

\* A tick at work that has its row still in the log finds it `running`: the
\* boot-time sweep never closes the run of a live tick, so the tick's own
\* closing UPDATE, which has no guard on the status, rewrites nothing.
LiveRunsAreOpen ==
  \A r \in Run : TickAt(r, Open) /\ Logged(r) => runs[r] = "running"

\* A row that says `running` is either being worked on, or its process has
\* stopped and has not yet been through the sweep of create_app again.
RunningIsAccounted ==
  \A r \in Run : runs[r] = "running" =>
    \/ TickAt(r, Open)
    \/ TickAt(r, {"dead"}) /\ proc[tick[r].proc] \in {"down", "cleaning"}

\* A job that fires after its connection was deleted (the handler removes the
\* job after the row; deleting a project never does) changes nothing: no run
\* is logged and no metric is saved.
LateTickIsInert ==
  \A r \in Run : tick[r].born = "gone" => runs[r] = "none" /\ ~tick[r].saved

\* At most one process has a running scheduler, so nothing is collected twice.
OneScheduler ==
  \A p, q \in Proc : SchedulerRunning(p) /\ SchedulerRunning(q) => p = q

\* Between requests, the jobs of the serving process are exactly the active
\* connections of the projects that exist.
SchedulerInSync ==
  Serving /\ (\A h \in Handler : request[h].pc = "idle") =>
    \A c \in Conn : ProjectOf[c] \in projects =>
      (c \in jobs[WebProc] <=> row[c] = "active")

\* A project that has been deleted has no rows left in the tables which carry
\* a project id without a foreign key.
DeletedProjectIsPurged == data \subseteq projects

\* The run log keeps the promise of RunLog.
Log == INSTANCE RunLog WITH log <- runs
RunLogSpec == Log!Spec

\* Every run is closed in the end, by its tick or by the sweep of a restart.
RunsClose == \A r \in Run : runs[r] = "running" ~> runs[r] # "running"

\* A connection that stays active is scheduled in the end, whatever crashed
\* between the write of its row and the call on the scheduler.
ActiveGetsScheduled ==
  \A c \in Conn : row[c] = "active" ~>
                    (c \in jobs[WebProc] \/ row[c] # "active")

\* Deletions win over ticks, however late those are (scheduling_race).
DeletionsWin == TypeOK /\ RunsHaveOwners /\ LateTickIsInert

\* One process schedules, and it schedules what is active (scheduling_live).
JobsAreInSync == OneScheduler /\ SchedulerInSync

\* `running` in the log and a live tick are the same thing, up to the sweep of
\* a process that starts (scheduling_live).
RunsMatchProcesses == LiveRunsAreOpen /\ RunningIsAccounted
=============================================================================
