------------------- MODULE ConnectionScheduling_proofs -------------------
(***************************************************************************)
(* Theorems about ConnectionScheduling, for every value of its constants.  *)
(***************************************************************************)
EXTENDS ConnectionScheduling, TLAPS

(***************************************************************************)
(* Type correctness.                                                       *)
(***************************************************************************)
LEMMA AnyConnType == AnyConn \in Conn
  BY ConstantsAssumption DEF AnyConn

LEMMA UnusedType == Unused \in Tick
  BY AnyConnType DEF Unused, Tick, TickPC, Proc, RowState, Closed

LEMMA IdleType == Idle \in Request
  BY AnyConnType DEF Idle, Request, Op, RowState

LEMMA EndedType ==
  ASSUME NEW t \in Tick, NEW pc \in TickPC
  PROVE  Ended(t, pc) \in Tick
  BY DEF Ended, Tick, RowState, Closed

LEMMA WebProcType == WebProc \in Proc
  BY DEF WebProc, Proc

LEMMA InitType == Init => TypeOK
  BY UnusedType, IdleType DEF Init, TypeOK, RowState, RunState, Proc

LEMMA BootType ==
  ASSUME TypeOK, NEW p \in Proc, Boot(p)
  PROVE  TypeOK'
<1>1. CASE BootSelectStale(p)
  BY <1>1 DEF TypeOK, BootSelectStale, dbVars, schedVars
<1>2. CASE BootCloseStale(p)
  BY <1>2 DEF TypeOK, BootCloseStale, dbVars, schedVars, RunState, Closed
<1>3. CASE BootRegisterJobs(p)
  BY <1>3 DEF TypeOK, BootRegisterJobs, dbVars, schedVars
<1>4. CASE BootRegisterFails(p)
  BY <1>4 DEF TypeOK, BootRegisterFails, dbVars, schedVars
<1> QED
  BY <1>1, <1>2, <1>3, <1>4 DEF Boot

LEMMA CrashType ==
  ASSUME TypeOK, NEW p \in Proc, Crash(p)
  PROVE  TypeOK'
<1> DEFINE dead == IF p = "main" THEN Proc ELSE {"child"}
<1>1. proc' \in [Proc -> {"down", "cleaning", "cleaned", "serving"}]
  BY DEF TypeOK, Crash
<1>2. stale' \in [Proc -> SUBSET Run] /\ jobs' \in [Proc -> SUBSET Conn]
  BY DEF TypeOK, Crash
<1>3. manual' \in [Proc -> [Conn -> Nat]]
  BY DEF TypeOK, Crash
<1>4. tick' \in [Run -> Tick]
  <2>1. \A r \in Run : Ended(tick[r], "dead") \in Tick
    BY EndedType DEF TypeOK, TickPC
  <2>2. \A r \in Run : [tick[r] EXCEPT !.pc = "dead"] \in Tick
    BY DEF TypeOK, Tick, TickPC
  <2> QED BY <2>1, <2>2 DEF TypeOK, Crash
<1>5. request' \in [Handler -> Request]
  BY IdleType DEF TypeOK, Crash
<1>6. crashes' \in Nat
  BY DEF TypeOK, Crash
<1> QED
  BY <1>1, <1>2, <1>3, <1>4, <1>5, <1>6 DEF TypeOK, Crash, dbVars

LEMMA HandlerType ==
  ASSUME TypeOK, NEW h \in Handler,
         \/ Handle(h)
         \/ \E c \in Conn, active \in BOOLEAN : CreateConnection(h, c, active)
         \/ \E op \in Op \ {"create"}, c \in Conn : LookUp(h, op, c)
  PROVE  TypeOK'
<1> USE DEF dbVars, schedVars, bootVars
<1>a. request[h] \in Request /\ request[h].conn \in Conn
  BY DEF TypeOK, Request
<1>b. \A pc \in {"idle", "looked_up", "written"} :
         [request EXCEPT ![h].pc = pc] \in [Handler -> Request]
  BY <1>a DEF TypeOK, Request
<1>c. [request EXCEPT ![h] = Idle] \in [Handler -> Request]
  BY IdleType DEF TypeOK
<1>d. \A C : DropRuns(C) => runs' \in [Run -> RunState]
  BY DEF TypeOK, DropRuns, RunState
<1>1. CASE ToggleRow(h)
  <2>1. row' \in [Conn -> RowState]
    BY <1>1, <1>a DEF ToggleRow, TypeOK, RowState
  <2>2. request' \in [Handler -> Request]
    BY <1>1, <1>b DEF ToggleRow, Goto
  <2> QED BY <1>1, <2>1, <2>2 DEF ToggleRow, TypeOK
<1>2. CASE DeleteRow(h)
  <2>1. row' \in [Conn -> RowState]
    BY <1>2, <1>a DEF DeleteRow, TypeOK, RowState
  <2>2. request' \in [Handler -> Request] /\ runs' \in [Run -> RunState]
    BY <1>2, <1>b, <1>d DEF DeleteRow, Goto
  <2> QED BY <1>2, <2>1, <2>2 DEF DeleteRow, TypeOK
<1>3. CASE SyncJob(h)
  <2>1. jobs' \in [Proc -> SUBSET Conn]
    BY <1>3, <1>a, WebProcType DEF SyncJob, AddJob, RemoveJob, TypeOK
  <2>2. request' \in [Handler -> Request]
    BY <1>3, <1>c DEF SyncJob, Respond
  <2> QED BY <1>3, <2>1, <2>2 DEF SyncJob, TypeOK
<1>4. CASE RunNow(h)
  <2>1. manual' \in [Proc -> [Conn -> Nat]]
    BY <1>4, <1>a, WebProcType DEF RunNow, TypeOK
  <2>2. request' \in [Handler -> Request]
    BY <1>4, <1>c DEF RunNow, Respond
  <2> QED BY <1>4, <2>1, <2>2 DEF RunNow, TypeOK
<1>5. CASE DeleteProject(h)
  <2>1. row' \in [Conn -> RowState]
    BY <1>5 DEF DeleteProject, TypeOK, RowState
  <2>2. runs' \in [Run -> RunState]
    BY <1>5, <1>d DEF DeleteProject, TypeOK
  <2>3. request' \in [Handler -> Request]
    BY <1>5, <1>c DEF DeleteProject, Respond
  <2>4. projects' \subseteq Project /\ data' \subseteq Project
    BY <1>5 DEF DeleteProject, TypeOK
  <2> QED BY <1>5, <2>1, <2>2, <2>3, <2>4 DEF DeleteProject, TypeOK
<1>6. ASSUME NEW c \in Conn, NEW active \in BOOLEAN,
             CreateConnection(h, c, active)
      PROVE  TypeOK'
  <2>1. [pc |-> "written", op |-> "create", conn |-> c, seen |-> "active"]
          \in Request
    BY DEF Request, Op, RowState
  <2>2. request' \in [Handler -> Request]
    BY <1>6, <2>1 DEF CreateConnection, TypeOK
  <2>3. row' \in [Conn -> RowState]
    BY <1>6 DEF CreateConnection, TypeOK, RowState
  <2> QED BY <1>6, <2>2, <2>3 DEF CreateConnection, TypeOK
<1>7. ASSUME NEW op \in Op \ {"create"}, NEW c \in Conn, LookUp(h, op, c)
      PROVE  TypeOK'
  <2>1. [pc |-> "looked_up", op |-> op, conn |-> c, seen |-> row[c]]
          \in Request
    BY DEF Request, TypeOK
  <2>2. request' \in [Handler -> Request]
    BY <1>7, <2>1 DEF LookUp, TypeOK
  <2> QED BY <1>7, <2>2 DEF LookUp, TypeOK
<1> QED
  BY <1>1, <1>2, <1>3, <1>4, <1>5, <1>6, <1>7 DEF Handle

LEMMA FireType ==
  ASSUME TypeOK, NEW p \in Proc, NEW c \in Conn,
         \/ \E r \in Run : FireInterval(p, c, r) \/ FireManual(p, c, r)
         \/ Misfire(p, c)
  PROVE  TypeOK'
<1> USE DEF dbVars, schedVars, bootVars
<1>1. ASSUME NEW r \in Run, NEW byHand \in BOOLEAN, StartTick(r, p, c, byHand)
      PROVE  tick' \in [Run -> Tick]
  <2>1. [Unused EXCEPT !.pc = "fired", !.proc = p, !.conn = c,
                       !.manual = byHand, !.born = row[c]] \in Tick
    BY UnusedType DEF Tick, TickPC, TypeOK
  <2> QED BY <1>1, <2>1 DEF StartTick, TypeOK
<1>2. manual[p][c] > 0 /\ manual' = [manual EXCEPT ![p][c] = @ - 1]
        => manual' \in [Proc -> [Conn -> Nat]]
  BY DEF TypeOK
<1>3. ASSUME NEW r \in Run, FireInterval(p, c, r)
      PROVE  TypeOK'
  BY <1>1, <1>3 DEF FireInterval, TypeOK
<1>4. ASSUME NEW r \in Run, FireManual(p, c, r)
      PROVE  TypeOK'
  BY <1>1, <1>2, <1>4 DEF FireManual, TypeOK
<1>5. CASE Misfire(p, c)
  BY <1>2, <1>5 DEF Misfire, TypeOK
<1> QED
  BY <1>3, <1>4, <1>5

LEMMA TickStepType ==
  ASSUME TypeOK, NEW r \in Run, TickStep(r)
  PROVE  TypeOK'
<1> USE DEF dbVars, schedVars, bootVars
<1>a. tick[r] \in Tick /\ ConnOf(r) \in Conn
  BY DEF TypeOK, Tick, ConnOf
<1>b. \A pc \in TickPC : Step(r, pc) => tick' \in [Run -> Tick]
  <2> SUFFICES ASSUME NEW pc \in TickPC
               PROVE  [tick EXCEPT ![r].pc = pc] \in [Run -> Tick]
    BY DEF Step
  <2>1. [tick[r] EXCEPT !.pc = pc] \in Tick
    BY <1>a DEF Tick
  <2> QED BY <2>1 DEF TypeOK
<1>c. Return(r) => tick' \in [Run -> Tick]
  <2>1. Ended(tick[r], "done") \in Tick
    BY <1>a, EndedType DEF TickPC
  <2> QED BY <2>1 DEF Return, TypeOK
<1>d. \A s \in Closed : SetRunStatus(r, s) => runs' \in [Run -> RunState]
  BY DEF SetRunStatus, TypeOK, RunState
<1>e. \A pc \in TickPC, o \in Closed :
         [tick EXCEPT ![r].pc = pc, ![r].outcome = o] \in [Run -> Tick]
  BY <1>a DEF TypeOK, Tick
<1>f. data \cup {ProjectOf[ConnOf(r)]} \subseteq Project
  BY <1>a, ConstantsAssumption DEF TypeOK
<1>1. CASE TickFetch(r)
  <2>1. row[ConnOf(r)] \in RowState
    BY <1>a DEF TypeOK
  <2>2. [tick EXCEPT ![r].seen = row[ConnOf(r)], ![r].pc = "fetched"]
          \in [Run -> Tick]
    BY <1>a, <2>1 DEF TypeOK, Tick, TickPC
  <2>3. tick' \in [Run -> Tick]
    BY <1>1, <1>c, <2>2 DEF TickFetch
  <2> QED BY <1>1, <2>3 DEF TickFetch, TypeOK
<1>2. CASE TickOpen(r)
  <2>1. tick' \in [Run -> Tick]
    BY <1>2, <1>b, <1>c DEF TickOpen, TickPC
  <2>2. runs' \in [Run -> RunState]
    BY <1>2 DEF TickOpen, TypeOK, RunState
  <2> QED BY <1>2, <2>1, <2>2 DEF TickOpen, TypeOK
<1>3. CASE TickRefuse(r)
  <2>1. runs' \in [Run -> RunState]
    BY <1>3, <1>d DEF TickRefuse, TypeOK, Closed
  <2> QED BY <1>3, <1>c, <2>1 DEF TickRefuse, TypeOK
<1>4. CASE TickSaveMetrics(r)
  <2> DEFINE t == [tick[r] EXCEPT !.pc = "collecting", !.saved = TRUE]
  <2>1. t \in Tick
    BY <1>a DEF Tick, TickPC
  <2>2. tick' = [tick EXCEPT ![r] = t]
    BY <1>4 DEF TickSaveMetrics, TypeOK
  <2> HIDE DEF t
  <2>3. tick' \in [Run -> Tick]
    BY <2>1, <2>2 DEF TypeOK
  <2> QED BY <1>4, <2>3, <1>f DEF TickSaveMetrics, TypeOK
<1>5. CASE TickLogTable(r)
  <2>1. tick[r].outcome \in Closed
    BY <1>a DEF Tick
  <2>2. PICK pc \in {"collecting", "closing"},
             o \in {tick[r].outcome, "warning", "failed"} :
          tick' = [tick EXCEPT ![r].pc = pc, ![r].outcome = o]
    BY <1>5 DEF TickLogTable
  <2>3. pc \in TickPC /\ o \in Closed
    BY <2>1 DEF TickPC, Closed
  <2>4. tick' \in [Run -> Tick]
    BY <1>e, <2>2, <2>3
  <2> QED BY <1>5, <2>4 DEF TickLogTable, TypeOK
<1>6. CASE TickAbort(r)
  BY <1>6, <1>e DEF TickAbort, TypeOK, TickPC, Closed
<1>7. CASE TickClose(r)
  <2>1. tick[r].outcome \in Closed
    BY <1>a DEF Tick
  <2>2. tick' \in [Run -> Tick]
    BY <1>7, <1>b, <1>c DEF TickClose, TickPC
  <2>3. runs' \in [Run -> RunState]
    BY <1>7, <1>d, <2>1 DEF TickClose, TypeOK
  <2> QED BY <1>7, <2>2, <2>3 DEF TickClose, TypeOK
<1>8. CASE TickReport(r)
  BY <1>8, <1>c, <1>f DEF TickReport, TypeOK
<1> QED
  BY <1>1, <1>2, <1>3, <1>4, <1>5, <1>6, <1>7, <1>8 DEF TickStep

LEMMA NextType == TypeOK /\ [Next]_vars => TypeOK'
<1> SUFFICES ASSUME TypeOK, [Next]_vars PROVE TypeOK'
  OBVIOUS
<1>1. CASE UNCHANGED vars
  BY <1>1 DEF TypeOK, vars, dbVars, schedVars, bootVars
<1>2. CASE Next
  BY <1>2, BootType, CrashType, HandlerType, FireType, TickStepType DEF Next
<1> QED
  BY <1>1, <1>2

\* Every reachable state is well typed: the stored rows, the job stores, and
\* the local state of every request and tick.
THEOREM TypeCorrect == Spec => []TypeOK
  BY InitType, NextType, PTL DEF Spec

(***************************************************************************)
(* The inductive invariant.                                                *)
(***************************************************************************)

\* The run of a tick that has not got to save_collector_run is not in the log.
NotYetLogged ==
  \A r \in Run : TickAt(r, {"unused", "fired", "fetched"}) => runs[r] = "none"

\* A tick is inert from the start if its connection was gone when it fired.
LateTickStops ==
  \A r \in Run : tick[r].born = "gone" =>
    /\ row[ConnOf(r)] = "gone"
    /\ TickAt(r, {"fired", "done", "dead"})
    /\ runs[r] = "none"
    /\ ~tick[r].saved

\* The child lives inside the main process's lifetime, and only in debug mode.
ChildNeedsMain ==
  /\ proc["main"] # "serving" => proc["child"] = "down"
  /\ ~RunsReloader => proc["child"] = "down"

\* A tick runs in a thread of a running scheduler.
TicksHaveScheduler ==
  \A r \in Run : TickAt(r, InFlight) => SchedulerRunning(tick[r].proc)

\* What a sweep is still to close includes what its process left behind.
SweepIsComplete ==
  \A r \in Run : runs[r] = "running" /\ TickAt(r, {"dead"})
                    /\ proc[tick[r].proc] = "cleaning"
                  => r \in stale[tick[r].proc]

IInv ==
  /\ TypeOK
  /\ NotYetLogged
  /\ RunsHaveOwners
  /\ LateTickStops
  /\ ChildNeedsMain
  /\ TicksHaveScheduler
  /\ FlaskDebug # "unset" => LiveRunsAreOpen
  /\ ~DbFaults => RunningIsAccounted /\ SweepIsComplete

LEMMA InitInv == Init => IInv
<1> SUFFICES ASSUME Init PROVE IInv
  OBVIOUS
<1>1. TypeOK
  BY InitType
<1>2. \A r \in Run : tick[r] = Unused /\ runs[r] = "none"
  BY DEF Init
<1>3. Unused.pc = "unused" /\ Unused.born = "unborn"
  BY DEF Unused
<1>4. \A p \in Proc : proc[p] = "down"
  BY DEF Init
<1> QED
  BY <1>1, <1>2, <1>3, <1>4
  DEF IInv, NotYetLogged, RunsHaveOwners, LateTickStops, ChildNeedsMain,
      TicksHaveScheduler, LiveRunsAreOpen, RunningIsAccounted, SweepIsComplete,
      TickAt, Logged, Closed, InFlight, Open, TickPC, Proc

(***************************************************************************)
(* While a process sweeps, no tick is in flight: the only scheduler is the *)
(* one that this process has yet to start, or that of its child.           *)
(***************************************************************************)
LEMMA NoTickDuringSweep ==
  ASSUME IInv, FlaskDebug # "unset", NEW p \in Proc, proc[p] = "cleaning",
         NEW r \in Run
  PROVE  ~TickAt(r, InFlight)
<1> SUFFICES ASSUME SchedulerRunning(tick[r].proc) PROVE FALSE
  BY DEF IInv, TicksHaveScheduler
<1>1. tick[r].proc \in Proc
  BY DEF IInv, TypeOK, Tick
<1>2. CASE FlaskDebug = "1"
  BY <1>1, <1>2 DEF SchedulerRunning, StartsScheduler, DebugInFactory, IInv,
                    ChildNeedsMain, Proc
<1>3. CASE FlaskDebug = "0"
  BY <1>1, <1>3 DEF SchedulerRunning, StartsScheduler, DebugInFactory, IInv,
                    ChildNeedsMain, Proc, RunsReloader
<1> QED
  BY <1>2, <1>3, ConstantsAssumption

LEMMA BootInv ==
  ASSUME IInv, NEW p \in Proc, Boot(p)
  PROVE  IInv'
<1> USE DEF dbVars, schedVars
<1>1. TypeOK'
  BY BootType DEF IInv
<1>2. UNCHANGED <<row, tick>>
  BY DEF Boot, BootSelectStale, BootCloseStale, BootRegisterJobs,
         BootRegisterFails
<1>3. \A r \in Run : runs'[r] = runs[r]
         \/ /\ BootCloseStale(p)
            /\ r \in stale[p] /\ runs[r] = "running" /\ runs'[r] = "failed"
  BY DEF Boot, BootSelectStale, BootCloseStale, BootRegisterJobs,
         BootRegisterFails, IInv, TypeOK
<1>4. \A q \in Proc \ {p} : proc'[q] = proc[q] /\ stale'[q] = stale[q]
  BY DEF Boot, BootSelectStale, BootCloseStale, BootRegisterJobs,
         BootRegisterFails, IInv, TypeOK
<1>5. /\ p = "child" /\ proc[p] = "down" => RunsReloader /\ proc["main"] = "serving"
      /\ proc[p] # "serving"
      /\ proc'[p] # "down"
      /\ proc[p] # "down" => proc'[p] # "cleaning"
  BY DEF Boot, BootSelectStale, BootCloseStale, BootRegisterJobs,
         BootRegisterFails, IInv, TypeOK, MayStart
<1>6. NotYetLogged'
  BY <1>2, <1>3 DEF IInv, NotYetLogged, TickAt
<1>7. RunsHaveOwners'
  BY <1>2, <1>3 DEF IInv, RunsHaveOwners, Logged, Exists, ConnOf, Closed
<1>8. LateTickStops'
  BY <1>2, <1>3 DEF IInv, LateTickStops, TickAt, ConnOf
<1>9. ChildNeedsMain'
  BY <1>4, <1>5 DEF IInv, ChildNeedsMain, Proc
<1>10. TicksHaveScheduler'
  BY <1>2, <1>4, <1>5
  DEF IInv, TicksHaveScheduler, TickAt, SchedulerRunning, TypeOK, Tick
<1>11. (FlaskDebug # "unset" => LiveRunsAreOpen)'
  <2> SUFFICES ASSUME FlaskDebug # "unset", NEW r \in Run,
                      TickAt(r, Open), Logged(r)'
               PROVE  runs'[r] = "running"
    BY <1>2 DEF LiveRunsAreOpen, TickAt
  <2>1. TickAt(r, InFlight)
    BY DEF TickAt, Open, InFlight, TickPC
  <2>2. ~(BootCloseStale(p) /\ proc[p] = "cleaning")
    BY <2>1, NoTickDuringSweep
  <2>3. runs'[r] = runs[r]
    BY <1>3, <2>2 DEF BootCloseStale
  <2> QED BY <2>3 DEF IInv, LiveRunsAreOpen, Logged
<1>12. (~DbFaults => RunningIsAccounted /\ SweepIsComplete)'
  <2> SUFFICES ASSUME ~DbFaults, NEW r \in Run, runs'[r] = "running"
               PROVE  /\ \/ TickAt(r, Open)
                         \/ TickAt(r, {"dead"})
                            /\ proc'[tick[r].proc] \in {"down", "cleaning"}
                      /\ TickAt(r, {"dead"}) /\ proc'[tick[r].proc] = "cleaning"
                            => r \in stale'[tick[r].proc]
    BY <1>2 DEF RunningIsAccounted, SweepIsComplete, TickAt
  <2>1. runs[r] = "running" /\ tick[r].proc \in Proc
    BY <1>3 DEF IInv, TypeOK, Tick
  <2>2. /\ \/ TickAt(r, Open)
           \/ TickAt(r, {"dead"}) /\ proc[tick[r].proc] \in {"down", "cleaning"}
        /\ TickAt(r, {"dead"}) /\ proc[tick[r].proc] = "cleaning"
              => r \in stale[tick[r].proc]
    BY <2>1 DEF IInv, RunningIsAccounted, SweepIsComplete
  <2>3. CASE tick[r].proc # p
    BY <1>4, <2>1, <2>2, <2>3
  <2>4. CASE tick[r].proc = p /\ ~TickAt(r, {"dead"})
    BY <2>2, <2>4
  <2>5. CASE tick[r].proc = p /\ TickAt(r, {"dead"})
    <3>1. proc[p] \in {"down", "cleaning"}
      BY <2>2, <2>5 DEF TickAt, Open
    <3>2. CASE BootSelectStale(p)
      BY <2>1, <2>5, <3>2 DEF BootSelectStale, IInv, TypeOK
    <3>3. CASE BootCloseStale(p)
      <4>1. r \in stale[p]
        BY <2>2, <2>5, <3>3 DEF BootCloseStale
      <4>2. runs'[r] = "failed"
        BY <2>1, <3>3, <4>1 DEF BootCloseStale
      <4> QED BY <4>2
    <3>4. ~BootRegisterJobs(p) /\ ~BootRegisterFails(p)
      BY <3>1 DEF BootRegisterJobs, BootRegisterFails
    <3> QED BY <3>2, <3>3, <3>4 DEF Boot
  <2> QED BY <2>3, <2>4, <2>5
<1> QED
  BY <1>1, <1>6, <1>7, <1>8, <1>9, <1>10, <1>11, <1>12 DEF IInv

LEMMA CrashInv ==
  ASSUME IInv, NEW p \in Proc, Crash(p)
  PROVE  IInv'
<1> DEFINE dead == IF p = "main" THEN Proc ELSE {"child"}
<1>1. TypeOK'
  BY CrashType DEF IInv
<1>2. UNCHANGED <<row, runs>>
  BY DEF Crash, dbVars
<1>3. \A q \in Proc : proc'[q] = IF q \in dead THEN "down" ELSE proc[q]
  BY DEF Crash
<1>4. \A r \in Run :
        /\ tick'[r].conn = tick[r].conn /\ tick'[r].proc = tick[r].proc
        /\ tick'[r].born = tick[r].born /\ tick'[r].saved = tick[r].saved
        /\ IF tick[r].proc \in dead /\ TickAt(r, InFlight)
           THEN tick'[r].pc = "dead" ELSE tick'[r].pc = tick[r].pc
  BY DEF Crash, TickAt, Ended, IInv, TypeOK, Tick
<1>5. \A q \in Proc \ dead : stale'[q] = stale[q]
  BY DEF Crash
<1>6. NotYetLogged'
  BY <1>2, <1>4 DEF IInv, NotYetLogged, TickAt
<1>7. RunsHaveOwners'
  BY <1>2, <1>4 DEF IInv, RunsHaveOwners, Logged, Exists, ConnOf
<1>8. LateTickStops'
  BY <1>2, <1>4 DEF IInv, LateTickStops, TickAt, ConnOf
<1>9. ChildNeedsMain'
  BY <1>3 DEF IInv, ChildNeedsMain, Proc
<1>10. TicksHaveScheduler'
  <2> SUFFICES ASSUME NEW r \in Run, TickAt(r, InFlight)'
               PROVE  SchedulerRunning(tick[r].proc)'
    BY <1>4 DEF TicksHaveScheduler
  <2>1. TickAt(r, InFlight) /\ tick[r].proc \notin dead
    BY <1>4 DEF TickAt, InFlight
  <2> QED BY <1>3, <1>4, <2>1
          DEF IInv, TicksHaveScheduler, SchedulerRunning, TypeOK, Tick
<1>11. (FlaskDebug # "unset" => LiveRunsAreOpen)'
  BY <1>2, <1>4 DEF IInv, LiveRunsAreOpen, TickAt, Logged, Open
<1>12. (~DbFaults => RunningIsAccounted /\ SweepIsComplete)'
  <2> SUFFICES ASSUME ~DbFaults, NEW r \in Run, runs[r] = "running"
               PROVE  /\ \/ TickAt(r, Open)'
                         \/ TickAt(r, {"dead"})'
                            /\ proc'[tick[r].proc] \in {"down", "cleaning"}
                      /\ TickAt(r, {"dead"})' /\ proc'[tick[r].proc] = "cleaning"
                            => r \in stale'[tick[r].proc]
    BY <1>2, <1>4 DEF RunningIsAccounted, SweepIsComplete
  <2>1. tick[r].proc \in Proc
    BY DEF IInv, TypeOK, Tick
  <2>2. /\ \/ TickAt(r, Open)
           \/ TickAt(r, {"dead"}) /\ proc[tick[r].proc] \in {"down", "cleaning"}
        /\ TickAt(r, {"dead"}) /\ proc[tick[r].proc] = "cleaning"
              => r \in stale[tick[r].proc]
    BY DEF IInv, RunningIsAccounted, SweepIsComplete
  <2>3. TickAt(r, Open) => TickAt(r, InFlight)
    BY DEF TickAt, Open, InFlight, TickPC
  <2>4. CASE tick[r].proc \in dead
    BY <1>3, <1>4, <2>1, <2>2, <2>3, <2>4 DEF TickAt
  <2>5. CASE tick[r].proc \notin dead
    BY <1>3, <1>4, <1>5, <2>1, <2>2, <2>5 DEF TickAt
  <2> QED BY <2>4, <2>5
<1> QED
  BY <1>1, <1>6, <1>7, <1>8, <1>9, <1>10, <1>11, <1>12 DEF IInv

(***************************************************************************)
(* Requests.  They touch rows, and runs only by the cascade.               *)
(***************************************************************************)
Requests(h) ==
  \/ Handle(h)
  \/ \E c \in Conn, active \in BOOLEAN : CreateConnection(h, c, active)
  \/ \E op \in Op \ {"create"}, c \in Conn : LookUp(h, op, c)

\* A row that goes takes its runs along; a row that stays keeps them; a row
\* that has gone stays gone.
LEMMA RequestEffect ==
  ASSUME TypeOK, NEW h \in Handler, Requests(h)
  PROVE  /\ UNCHANGED <<tick, proc, stale>>
         /\ \A c \in Conn : row[c] = "gone" => row'[c] = "gone"
         /\ \E C : /\ DropRuns(C) \/ (C = {} /\ UNCHANGED runs)
                  /\ \A c \in Conn \ C : Exists(c) => Exists(c)'
<1> USE DEF dbVars, schedVars, bootVars
<1>1. CASE ToggleRow(h)
  <2>1. \A c \in Conn : /\ row[c] = "gone" => row'[c] = "gone"
                        /\ Exists(c) => Exists(c)'
    BY <1>1 DEF ToggleRow, TypeOK, Request, Exists
  <2> QED BY <1>1, <2>1 DEF ToggleRow
<1>2. CASE DeleteRow(h)
  <2>1. \A c \in Conn : row[c] = "gone" => row'[c] = "gone"
    BY <1>2 DEF DeleteRow, TypeOK, Request, Exists
  <2>2. \A c \in Conn \ {request[h].conn} : Exists(c) => Exists(c)'
    BY <1>2 DEF DeleteRow, TypeOK, Request, Exists
  <2> QED BY <1>2, <2>1, <2>2 DEF DeleteRow
<1>3. CASE SyncJob(h)
  BY <1>3 DEF SyncJob, Exists
<1>4. CASE RunNow(h)
  BY <1>4 DEF RunNow, Exists
<1>5. CASE DeleteProject(h)
  <2> DEFINE C == {c \in Conn : ProjectOf[c] = ProjectOf[request[h].conn]}
  <2>1. CASE ProjectOf[request[h].conn] \in projects
    <3>1. DropRuns(C)
      BY <1>5, <2>1 DEF DeleteProject
    <3>2. row' = [c \in Conn |-> IF c \in C /\ Exists(c)
                                 THEN "gone" ELSE row[c]]
      BY <1>5, <2>1 DEF DeleteProject
    <3>3. \A c \in Conn \ C : Exists(c) => Exists(c)'
      BY <3>2 DEF Exists
    <3>4. \A c \in Conn : row[c] = "gone" => row'[c] = "gone"
      BY <3>2
    <3> QED BY <1>5, <3>1, <3>3, <3>4 DEF DeleteProject
  <2>2. CASE ProjectOf[request[h].conn] \notin projects
    BY <1>5, <2>2 DEF DeleteProject, Exists
  <2> QED BY <2>1, <2>2
<1>6. ASSUME NEW c \in Conn, NEW active \in BOOLEAN,
             CreateConnection(h, c, active)
      PROVE  /\ UNCHANGED <<tick, proc, stale, runs>>
             /\ \A d \in Conn : row[d] = "gone" => row'[d] = "gone"
             /\ \A d \in Conn : Exists(d) => Exists(d)'
  BY <1>6 DEF CreateConnection, TypeOK, Exists
<1>7. ASSUME NEW op \in Op \ {"create"}, NEW c \in Conn, LookUp(h, op, c)
      PROVE  UNCHANGED <<tick, proc, stale, runs, row>>
  BY <1>7 DEF LookUp
<1>8. CASE \E c \in Conn, active \in BOOLEAN : CreateConnection(h, c, active)
  BY <1>6, <1>8
<1>9. CASE \E op \in Op \ {"create"}, c \in Conn : LookUp(h, op, c)
  BY <1>7, <1>9 DEF Exists
<1> QED
  BY <1>1, <1>2, <1>3, <1>4, <1>5, <1>8, <1>9 DEF Handle, Requests

LEMMA RequestInv ==
  ASSUME IInv, NEW h \in Handler, Requests(h)
  PROVE  IInv'
<1>a. TypeOK
  BY DEF IInv
<1>1. TypeOK'
  BY <1>a, HandlerType DEF Requests
<1>2. UNCHANGED <<tick, proc, stale>>
  BY <1>a, RequestEffect
<1>3. \A c \in Conn : row[c] = "gone" => row'[c] = "gone"
  BY <1>a, RequestEffect
<1>4. PICK C : /\ DropRuns(C) \/ (C = {} /\ UNCHANGED runs)
               /\ \A c \in Conn \ C : Exists(c) => Exists(c)'
  BY <1>a, RequestEffect
<1>5. \A r \in Run : ConnOf(r) \in Conn
  BY <1>a DEF TypeOK, Tick, ConnOf
<1>6. \A r \in Run :
        \/ runs'[r] = runs[r] /\ (Logged(r) => ConnOf(r) \notin C)
        \/ Logged(r) /\ runs'[r] = "deleted"
  <2>1. CASE DropRuns(C)
    BY <2>1 DEF DropRuns, ConnOf
  <2>2. CASE C = {} /\ UNCHANGED runs
    BY <2>2
  <2> QED BY <1>4, <2>1, <2>2
<1>7. NotYetLogged'
  BY <1>2, <1>6 DEF IInv, NotYetLogged, TickAt, Logged, Closed
<1>8. RunsHaveOwners'
  <2> SUFFICES ASSUME NEW r \in Run, Logged(r)' PROVE Exists(ConnOf(r))'
    BY DEF RunsHaveOwners
  <2>1. Logged(r) /\ ConnOf(r) \notin C
    BY <1>6 DEF Logged, Closed
  <2>2. Exists(ConnOf(r))
    BY <2>1 DEF IInv, RunsHaveOwners
  <2>3. ConnOf(r)' = ConnOf(r)
    BY <1>2 DEF ConnOf
  <2> QED BY <1>4, <1>5, <2>1, <2>2, <2>3 DEF Exists
<1>9. LateTickStops'
  BY <1>2, <1>3, <1>5, <1>6
  DEF IInv, LateTickStops, TickAt, ConnOf, Logged, Closed
<1>10. ChildNeedsMain' /\ TicksHaveScheduler'
  BY <1>2 DEF IInv, ChildNeedsMain, TicksHaveScheduler, TickAt, SchedulerRunning
<1>11. (FlaskDebug # "unset" => LiveRunsAreOpen)'
  BY <1>2, <1>6 DEF IInv, LiveRunsAreOpen, TickAt, Logged, Closed
<1>12. (~DbFaults => RunningIsAccounted /\ SweepIsComplete)'
  BY <1>2, <1>6 DEF IInv, RunningIsAccounted, SweepIsComplete, TickAt
<1> QED
  BY <1>1, <1>7, <1>8, <1>9, <1>10, <1>11, <1>12 DEF IInv

(***************************************************************************)
(* The scheduler.                                                          *)
(***************************************************************************)
LEMMA FireInv ==
  ASSUME IInv, NEW p \in Proc, NEW c \in Conn, NEW r \in Run,
         FireInterval(p, c, r) \/ FireManual(p, c, r)
  PROVE  IInv'
<1> USE DEF dbVars, schedVars, bootVars
<1>1. TypeOK'
  BY FireType DEF IInv
<1>2. /\ SchedulerRunning(p)
      /\ UNCHANGED <<row, runs, proc, stale>>
      /\ \E byHand \in BOOLEAN : StartTick(r, p, c, byHand)
  BY DEF FireInterval, FireManual
<1>3. \A q \in Run \ {r} : tick'[q] = tick[q]
  BY <1>2 DEF StartTick, IInv, TypeOK
<1>4. /\ tick[r].pc = "unused"
      /\ tick'[r].pc = "fired" /\ tick'[r].proc = p /\ tick'[r].conn = c
      /\ tick'[r].born = row[c] /\ tick'[r].saved = FALSE
  BY <1>2 DEF StartTick, Unused, IInv, TypeOK
<1>5. runs[r] = "none"
  BY <1>4 DEF IInv, NotYetLogged, TickAt
<1>6. NotYetLogged'
  BY <1>2, <1>3, <1>5 DEF IInv, NotYetLogged, TickAt
<1>7. RunsHaveOwners'
  BY <1>2, <1>3, <1>5 DEF IInv, RunsHaveOwners, Logged, Closed, Exists, ConnOf
<1>8. LateTickStops'
  BY <1>2, <1>3, <1>4, <1>5 DEF IInv, LateTickStops, TickAt, ConnOf
<1>9. ChildNeedsMain'
  BY <1>2 DEF IInv, ChildNeedsMain
<1>10. TicksHaveScheduler'
  BY <1>2, <1>3, <1>4 DEF IInv, TicksHaveScheduler, TickAt, SchedulerRunning
<1>11. (FlaskDebug # "unset" => LiveRunsAreOpen)'
  BY <1>2, <1>3, <1>5 DEF IInv, LiveRunsAreOpen, TickAt, Logged, Closed
<1>12. (~DbFaults => RunningIsAccounted /\ SweepIsComplete)'
  BY <1>2, <1>3, <1>5 DEF IInv, RunningIsAccounted, SweepIsComplete, TickAt
<1> QED
  BY <1>1, <1>6, <1>7, <1>8, <1>9, <1>10, <1>11, <1>12 DEF IInv

LEMMA MisfireInv ==
  ASSUME IInv, NEW p \in Proc, NEW c \in Conn, Misfire(p, c)
  PROVE  IInv'
<1>1. TypeOK'
  BY FireType DEF IInv
<1>2. UNCHANGED <<row, runs, proc, stale, tick>>
  BY DEF Misfire, dbVars, bootVars
<1> QED
  BY <1>1, <1>2
  DEF IInv, NotYetLogged, RunsHaveOwners, LateTickStops, ChildNeedsMain,
      TicksHaveScheduler, LiveRunsAreOpen, RunningIsAccounted, SweepIsComplete,
      TickAt, Logged, Exists, ConnOf, SchedulerRunning

(***************************************************************************)
(* Ticks.  A step of a tick touches its own local state and its own run;   *)
(* TickEffect lists what it may do to them.                                *)
(***************************************************************************)
Fetches(r) ==
  /\ TickAt(r, {"fired"}) /\ runs'[r] = runs[r] /\ tick'[r].saved = tick[r].saved
  /\ \/ tick'[r].pc = "done"
     \/ tick'[r].pc = "fetched" /\ Exists(ConnOf(r))
Opens(r) ==
  /\ TickAt(r, {"fetched"}) /\ tick'[r].saved = tick[r].saved
  /\ \/ tick'[r].pc \in Open /\ Exists(ConnOf(r)) /\ runs'[r] = "running"
     \/ tick'[r].pc = "done" /\ runs'[r] = runs[r]
Works(r) ==
  TickAt(r, Open) /\ tick'[r].pc \in Open /\ runs'[r] = runs[r]
Closes(r) ==
  /\ TickAt(r, Open) /\ tick'[r].pc \in {"done", "reporting"}
  /\ \/ Logged(r) /\ runs'[r] \in Closed
     \/ ~Logged(r) /\ runs'[r] = runs[r]
     \/ DbFaults /\ tick'[r].pc = "done" /\ runs'[r] = runs[r]
Reports(r) ==
  TickAt(r, {"reporting"}) /\ tick'[r].pc = "done" /\ runs'[r] = runs[r]

LEMMA TickEffect ==
  ASSUME TypeOK, NEW r \in Run, TickStep(r)
  PROVE  /\ UNCHANGED <<row, proc, stale>>
         /\ \A q \in Run \ {r} : tick'[q] = tick[q] /\ runs'[q] = runs[q]
         /\ tick'[r].conn = tick[r].conn /\ tick'[r].proc = tick[r].proc
         /\ tick'[r].born = tick[r].born
         /\ Fetches(r) \/ Opens(r) \/ Works(r) \/ Closes(r) \/ Reports(r)
<1> USE DEF dbVars, schedVars, bootVars
<1>a. tick[r] \in Tick /\ tick[r].outcome \in Closed
  BY DEF TypeOK, Tick
<1>b. \A pc : Step(r, pc) =>
        /\ \A q \in Run \ {r} : tick'[q] = tick[q]
        /\ tick'[r].conn = tick[r].conn /\ tick'[r].proc = tick[r].proc
        /\ tick'[r].born = tick[r].born /\ tick'[r].saved = tick[r].saved
        /\ tick'[r].pc = pc
  BY <1>a DEF Step, TypeOK, Tick
<1>c. Return(r) =>
        /\ \A q \in Run \ {r} : tick'[q] = tick[q]
        /\ tick'[r].conn = tick[r].conn /\ tick'[r].proc = tick[r].proc
        /\ tick'[r].born = tick[r].born /\ tick'[r].saved = tick[r].saved
        /\ tick'[r].pc = "done"
  BY <1>a DEF Return, Ended, TypeOK, Tick
<1>d. \A s : SetRunStatus(r, s) =>
        /\ \A q \in Run \ {r} : runs'[q] = runs[q]
        /\ runs'[r] = IF Logged(r) THEN s ELSE runs[r]
  BY DEF SetRunStatus, TypeOK
<1>1. CASE TickFetch(r)
  <2>1. CASE Return(r)
    BY <1>1, <1>c, <2>1 DEF TickFetch, Fetches
  <2>2. CASE Exists(ConnOf(r))
    BY <1>1, <1>a, <2>2 DEF TickFetch, Fetches, TypeOK, Tick
  <2> QED BY <1>1, <2>1, <2>2 DEF TickFetch
<1>2. CASE TickOpen(r)
  <2>1. CASE Return(r) /\ UNCHANGED runs
    BY <1>2, <1>c, <2>1 DEF TickOpen, Opens
  <2>2. CASE ~(Return(r) /\ UNCHANGED runs)
    <3>1. /\ Exists(ConnOf(r)) /\ runs' = [runs EXCEPT ![r] = "running"]
          /\ Step(r, "opened") \/ Step(r, "skipping")
      BY <1>2, <2>2 DEF TickOpen
    <3>2. tick'[r].pc \in Open
      BY <1>b, <3>1 DEF Open
    <3>3. runs'[r] = "running" /\ \A q \in Run \ {r} : runs'[q] = runs[q]
      BY <3>1 DEF TypeOK
    <3> QED BY <1>2, <1>b, <3>1, <3>2, <3>3 DEF TickOpen, Opens
  <2> QED BY <2>1, <2>2
<1>3. CASE TickRefuse(r)
  <2>1. TickAt(r, Open) /\ tick'[r].pc = "done"
    BY <1>3, <1>c DEF TickRefuse, TickAt, Open
  <2>2. \/ \E s \in Closed : SetRunStatus(r, s)
        \/ DbFaults /\ UNCHANGED runs
    BY <1>3 DEF TickRefuse, Closed
  <2>3. Closes(r) /\ \A q \in Run \ {r} : runs'[q] = runs[q]
    BY <1>d, <2>1, <2>2 DEF Closes
  <2> QED BY <1>3, <1>c, <2>3 DEF TickRefuse
<1>4. CASE TickSaveMetrics(r)
  BY <1>4, <1>a DEF TickSaveMetrics, Works, TypeOK, Tick, TickAt, Open
<1>5. CASE TickLogTable(r)
  <2>1. PICK pc \in {"collecting", "closing"},
             o \in {tick[r].outcome, "warning", "failed"} :
          tick' = [tick EXCEPT ![r].pc = pc, ![r].outcome = o]
    BY <1>5 DEF TickLogTable
  <2> QED BY <1>5, <1>a, <2>1 DEF TickLogTable, Works, TypeOK, Tick, TickAt, Open
<1>6. CASE TickAbort(r)
  BY <1>6, <1>a DEF TickAbort, Works, TypeOK, Tick, TickAt, Open
<1>7. CASE TickClose(r)
  <2>1. TickAt(r, Open)
    BY <1>7 DEF TickClose, TickAt, Open
  <2>2. CASE SetRunStatus(r, tick[r].outcome)
             /\ (Step(r, "reporting") \/ Return(r))
    <3>1. tick'[r].pc \in {"done", "reporting"}
      BY <1>b, <1>c, <2>2
    <3>2. Closes(r) /\ \A q \in Run \ {r} : runs'[q] = runs[q]
      BY <1>a, <1>d, <2>1, <2>2, <3>1 DEF Closes
    <3> QED BY <1>7, <1>b, <1>c, <2>2, <3>2 DEF TickClose
  <2>3. CASE DbFaults /\ Return(r) /\ UNCHANGED runs
    BY <1>7, <1>c, <2>1, <2>3 DEF Closes, TickClose
  <2> QED BY <1>7, <2>2, <2>3 DEF TickClose
<1>8. CASE TickReport(r)
  BY <1>8, <1>c DEF TickReport, Reports
<1> QED
  BY <1>1, <1>2, <1>3, <1>4, <1>5, <1>6, <1>7, <1>8 DEF TickStep

LEMMA TickStepInv ==
  ASSUME IInv, NEW r \in Run, TickStep(r)
  PROVE  IInv'
<1>a. TypeOK
  BY DEF IInv
<1>1. TypeOK'
  BY <1>a, TickStepType
<1>2. UNCHANGED <<row, proc, stale>>
  BY <1>a, TickEffect
<1>3. \A q \in Run \ {r} : tick'[q] = tick[q] /\ runs'[q] = runs[q]
  BY <1>a, TickEffect
<1>4. /\ tick'[r].conn = tick[r].conn /\ tick'[r].proc = tick[r].proc
      /\ tick'[r].born = tick[r].born
  BY <1>a, TickEffect
<1>5. Fetches(r) \/ Opens(r) \/ Works(r) \/ Closes(r) \/ Reports(r)
  BY <1>a, TickEffect
<1> USE DEF TickAt, ConnOf
<1>6. NotYetLogged'
  BY <1>3, <1>5
  DEF IInv, NotYetLogged, Fetches, Opens, Works, Closes, Reports, Open
<1>7. RunsHaveOwners'
  <2>1. Logged(r)' => Exists(ConnOf(r))
    BY <1>5 DEF IInv, RunsHaveOwners, NotYetLogged, Fetches, Opens, Works,
                Closes, Reports, Logged
  <2> QED BY <1>2, <1>3, <1>4, <2>1 DEF IInv, RunsHaveOwners, Logged, Exists
<1>8. LateTickStops'
  <2>1. tick[r].born = "gone" =>
          Fetches(r) /\ tick'[r].pc = "done" /\ runs'[r] = "none"
    BY <1>5 DEF IInv, LateTickStops, Exists, Open, Fetches, Opens, Works,
                Closes, Reports
  <2>2. tick[r].born = "gone" => tick'[r].saved = tick[r].saved
    BY <2>1 DEF Fetches
  <2> QED BY <1>2, <1>3, <1>4, <2>1, <2>2 DEF IInv, LateTickStops
<1>9. ChildNeedsMain'
  BY <1>2 DEF IInv, ChildNeedsMain
<1>10. TicksHaveScheduler'
  <2>1. tick[r].pc \in InFlight
    BY <1>5 DEF Fetches, Opens, Works, Closes, Reports, InFlight, TickPC, Open
  <2> QED BY <1>2, <1>3, <1>4, <2>1
          DEF IInv, TicksHaveScheduler, SchedulerRunning
<1>11. (FlaskDebug # "unset" => LiveRunsAreOpen)'
  <2> SUFFICES ASSUME FlaskDebug # "unset" PROVE LiveRunsAreOpen'
    OBVIOUS
  <2>1. tick'[r].pc \in Open /\ Logged(r)' => runs'[r] = "running"
    BY <1>5 DEF IInv, LiveRunsAreOpen, Fetches, Opens, Works, Closes, Reports,
                Logged, Open
  <2> QED BY <1>3, <2>1 DEF IInv, LiveRunsAreOpen, Logged
<1>12. (~DbFaults => RunningIsAccounted /\ SweepIsComplete)'
  <2> SUFFICES ASSUME ~DbFaults PROVE RunningIsAccounted' /\ SweepIsComplete'
    OBVIOUS
  <2>1. runs'[r] = "running" => tick'[r].pc \in Open
    BY <1>5 DEF IInv, RunningIsAccounted, NotYetLogged, Fetches, Opens, Works,
                Closes, Reports, Logged, Closed, Open
  <2> QED BY <1>2, <1>3, <2>1
          DEF IInv, RunningIsAccounted, SweepIsComplete, Open
<1> QED
  BY <1>1, <1>6, <1>7, <1>8, <1>9, <1>10, <1>11, <1>12 DEF IInv

LEMMA NextInv == IInv /\ [Next]_vars => IInv'
<1> SUFFICES ASSUME IInv, [Next]_vars PROVE IInv'
  OBVIOUS
<1>1. CASE UNCHANGED vars
  <2>1. TypeOK'
    BY <1>1, NextType DEF IInv
  <2>2. UNCHANGED <<row, runs, proc, stale, tick>>
    BY <1>1 DEF vars, dbVars, bootVars
  <2> QED BY <2>1, <2>2
    DEF IInv, NotYetLogged, RunsHaveOwners, LateTickStops, ChildNeedsMain,
        TicksHaveScheduler, LiveRunsAreOpen, RunningIsAccounted,
        SweepIsComplete, TickAt, Logged, Exists, ConnOf, SchedulerRunning
<1>2. CASE Next
  BY <1>2, BootInv, CrashInv, RequestInv, FireInv, MisfireInv, TickStepInv
  DEF Next, Requests
<1> QED
  BY <1>1, <1>2

\* The inductive invariant holds: ticks, their rows and their processes agree
\* (collect_for_connection, create_app).
THEOREM Invariance == Spec => []IInv
  BY InitInv, NextInv, PTL DEF Spec

\* The run log never holds a run whose connection has been deleted.
THEOREM RunsHaveOwnersAlways == Spec => []RunsHaveOwners
<1>1. IInv => RunsHaveOwners
  BY DEF IInv
<1> QED BY <1>1, Invariance, PTL

\* A job that fires after the deletion of its connection changes nothing.
THEOREM LateTicksAreInert == Spec => []LateTickIsInert
<1>1. IInv => LateTickIsInert
  BY DEF IInv, LateTickStops, LateTickIsInert
<1> QED BY <1>1, Invariance, PTL

\* Whenever FLASK_DEBUG is set (to either value), no sweep closes the run of a
\* tick that is still at work.
THEOREM LiveRunsStayOpen ==
  ASSUME FlaskDebug # "unset"
  PROVE  Spec => []LiveRunsAreOpen
<1>1. IInv => LiveRunsAreOpen
  BY DEF IInv
<1> QED BY <1>1, Invariance, PTL

\* As long as writes to the store succeed, a row that says `running` is being
\* worked on or waits for the sweep of its restarting process.
THEOREM RunningIsAlwaysAccounted ==
  ASSUME ~DbFaults
  PROVE  Spec => []RunningIsAccounted
<1>1. IInv => RunningIsAccounted
  BY DEF IInv
<1> QED BY <1>1, Invariance, PTL

(***************************************************************************)
(* The run log implements RunLog.                                          *)
(***************************************************************************)
LEMMA RunLogInit == Init => Log!Init
  BY DEF Init, Log!Init

\* A cascade is a Drop of the abstract log.
LEMMA CascadeDrops ==
  ASSUME TypeOK, NEW C, DropRuns(C)
  PROVE  [Log!Next]_runs
<1> DEFINE S == {r \in Run : Logged(r) /\ tick[r].conn \in C}
<1>1. Log!Drop(S)
  BY DEF Log!Drop, DropRuns, Logged, Closed, Log!Stored, Log!Closed
<1> QED BY <1>1 DEF Log!Next

LEMMA RunLogStep ==
  ASSUME FlaskDebug # "unset", IInv, [Next]_vars
  PROVE  [Log!Next]_runs
<1>a. TypeOK
  BY DEF IInv
<1>1. ASSUME NEW p \in Proc, Boot(p)
      PROVE  [Log!Next]_runs
  <2> DEFINE S == {r \in stale[p] : runs[r] = "running"}
  <2>1. CASE UNCHANGED runs
    BY <2>1
  <2>2. CASE ~UNCHANGED runs
    <3>1. /\ BootCloseStale(p)
          /\ runs' = [r \in Run |-> IF r \in stale[p] /\ runs[r] = "running"
                                    THEN "failed" ELSE runs[r]]
      BY <1>1, <2>2 DEF Boot, BootSelectStale, BootCloseStale, dbVars,
                        BootRegisterJobs, BootRegisterFails
    <3>2. S \in SUBSET Run
      BY <1>a DEF TypeOK
    <3>3. Log!Sweep(S)
      BY <3>1 DEF Log!Sweep
    <3> QED BY <3>2, <3>3 DEF Log!Next
  <2> QED BY <2>1, <2>2
<1>2. ASSUME NEW h \in Handler, Requests(h)
      PROVE  [Log!Next]_runs
  <2>1. PICK C : DropRuns(C) \/ (C = {} /\ UNCHANGED runs)
    BY <1>2, <1>a, RequestEffect
  <2> QED BY <1>a, <2>1, CascadeDrops
<1>3. ASSUME NEW r \in Run, TickStep(r)
      PROVE  [Log!Next]_runs
  <2>1. /\ \A q \in Run \ {r} : runs'[q] = runs[q]
        /\ Fetches(r) \/ Opens(r) \/ Works(r) \/ Closes(r) \/ Reports(r)
    BY <1>3, <1>a, TickEffect
  <2>2. runs \in [Run -> RunState] /\ runs' \in [Run -> RunState]
    BY <1>3, <1>a, TickStepType DEF TypeOK
  <2>3. runs' = [runs EXCEPT ![r] = runs'[r]]
    BY <2>1, <2>2
  <2>4. CASE runs'[r] = runs[r]
    BY <2>2, <2>3, <2>4
  <2>5. CASE Opens(r) /\ runs'[r] = "running"
    <3>1. runs[r] = "none"
      BY <2>5 DEF Opens, IInv, NotYetLogged, TickAt
    <3> QED BY <2>3, <2>5, <3>1 DEF Log!Open, Log!Next
  <2>6. CASE Closes(r) /\ Logged(r) /\ runs'[r] \in Closed
    <3>1. runs[r] = "running"
      BY <2>6 DEF Closes, IInv, LiveRunsAreOpen
    <3>2. Log!Close(r, runs'[r])
      BY <2>3, <3>1 DEF Log!Close
    <3>3. runs'[r] \in Log!Closed
      BY <2>6 DEF Log!Closed, Closed
    <3> QED BY <3>2, <3>3 DEF Log!Next
  <2> QED BY <2>1, <2>4, <2>5, <2>6 DEF Fetches, Opens, Works, Closes, Reports
<1>4. CASE UNCHANGED runs
  BY <1>4
<1>5. ASSUME NEW p \in Proc, Crash(p) PROVE UNCHANGED runs
  BY <1>5 DEF Crash, dbVars
<1>6. ASSUME NEW p \in Proc, NEW c \in Conn, NEW r \in Run,
             FireInterval(p, c, r) \/ FireManual(p, c, r)
      PROVE  UNCHANGED runs
  BY <1>6 DEF FireInterval, FireManual, dbVars
<1>7. ASSUME NEW p \in Proc, NEW c \in Conn, Misfire(p, c)
      PROVE  UNCHANGED runs
  BY <1>7 DEF Misfire, dbVars
<1>8. CASE UNCHANGED vars
  BY <1>8 DEF vars, dbVars
<1> QED
  BY <1>1, <1>2, <1>3, <1>4, <1>5, <1>6, <1>7, <1>8 DEF Next, Requests

\* Whenever FLASK_DEBUG is set, the program keeps the promise of RunLog: a run
\* is opened once, closed once, never rewritten, and dropped only for good.
THEOREM RunLogImplemented ==
  ASSUME FlaskDebug # "unset"
  PROVE  Spec => RunLogSpec
<1>1. IInv /\ [Next]_vars => [Log!Next]_runs
  BY RunLogStep
<1> QED
  BY <1>1, RunLogInit, Invariance, PTL DEF Spec, RunLogSpec, Log!Spec

\* Deletions win over late ticks.
THEOREM DeletionsAlwaysWin == Spec => []DeletionsWin
<1>1. TypeOK /\ RunsHaveOwners /\ LateTickIsInert => DeletionsWin
  BY DEF DeletionsWin
<1> QED
  BY <1>1, TypeCorrect, RunsHaveOwnersAlways, LateTicksAreInert, PTL

\* With FLASK_DEBUG set and a store that accepts every write, `running` in the
\* log is what the ticks of live processes make of it.
THEOREM RunsAlwaysMatchProcesses ==
  ASSUME FlaskDebug # "unset", ~DbFaults
  PROVE  Spec => []RunsMatchProcesses
<1>1. IInv => RunsMatchProcesses
  BY DEF IInv, RunsMatchProcesses
<1> QED BY <1>1, Invariance, PTL

------------------------------------------------------------------------------
\* The jobs and the connections (JobsAreInSync)

\* Requests are served by the process that serves.
RequestsAreServed == \A h \in Handler : request[h].pc # "idle" => Serving

Wanted(q) == q.op = "create" \/ (q.op = "toggle" /\ q.seen = "inactive")

\* With one request at a time, what a handler has read is still so, and what it
\* has written is what it is about to tell the scheduler.
Current(q, rows) ==
  /\ q.pc = "looked_up" =>
       /\ q.op # "create" /\ q.seen = rows[q.conn]
       /\ q.op = "toggle" => rows[q.conn] \in {"active", "inactive"}
  /\ q.pc = "written" => (rows[q.conn] = "active" <=> Wanted(q))

RequestsAreCurrent == \A h \in Handler : Current(request[h], row)

\* The jobs follow the rows, but for the connection of a handler that has yet to
\* call the scheduler.
JobsFollowRows ==
  Serving =>
    \A c \in Conn :
      (\A h \in Handler : request[h].pc = "written" => request[h].conn # c)
        /\ ProjectOf[c] \in projects
      => (c \in jobs[WebProc] <=> row[c] = "active")

SyncInv == RequestsAreServed /\ RequestsAreCurrent /\ JobsFollowRows

OneAtATime == ~DbFaults /\ \A g, h \in Handler : g = h

LEMMA InitSync == Init => SyncInv
<1> SUFFICES ASSUME Init PROVE SyncInv
  OBVIOUS
<1>1. \A h \in Handler : request[h] = Idle
  BY DEF Init
<1>2. Idle.pc = "idle"
  BY DEF Idle
<1>3. ~Serving
  BY WebProcType DEF Init, Serving
<1> QED BY <1>1, <1>2, <1>3 DEF SyncInv, RequestsAreServed, RequestsAreCurrent, JobsFollowRows, Current

\* The process that serves HTTP also schedules.
LEMMA WebProcSchedules == StartsScheduler(WebProc)
  BY ConstantsAssumption
  DEF StartsScheduler, DebugInFactory, WebProc, RunsReloader

LEMMA BootSync ==
  ASSUME TypeOK, SyncInv, OneAtATime, NEW p \in Proc, Boot(p)
  PROVE  SyncInv'
<1>1. UNCHANGED <<row, projects, request>>
  BY DEF Boot, BootSelectStale, BootCloseStale, BootRegisterJobs, BootRegisterFails, dbVars,
         schedVars
<1>2. p # WebProc => proc'[WebProc] = proc[WebProc] /\ jobs'[WebProc] = jobs[WebProc]
  BY WebProcType DEF Boot, BootSelectStale, BootCloseStale, BootRegisterJobs, BootRegisterFails,
         dbVars, schedVars, TypeOK
<1>3. p = WebProc => ~Serving
  BY DEF Boot, BootSelectStale, BootCloseStale, BootRegisterJobs, BootRegisterFails, MayStart,
         Serving
<1>4. p = WebProc /\ Serving' => jobs'[WebProc] = {c \in Conn : row[c] = "active"}
  <2> SUFFICES ASSUME p = WebProc, Serving' PROVE BootRegisterJobs(p)
    BY WebProcSchedules, WebProcType DEF BootRegisterJobs, TypeOK
  <2>1. ~BootSelectStale(p) /\ ~BootCloseStale(p)
    BY WebProcType DEF BootSelectStale, BootCloseStale, TypeOK, Serving
  <2> QED BY <2>1 DEF Boot, BootRegisterFails, OneAtATime
<1>5. RequestsAreServed'
  BY <1>1, <1>2, <1>3 DEF SyncInv, RequestsAreServed, Serving
<1>6. RequestsAreCurrent'
  BY <1>1 DEF SyncInv, RequestsAreCurrent, Current, Wanted
<1>7. JobsFollowRows'
  <2>1. CASE p = WebProc
    BY <1>1, <1>4, <2>1 DEF JobsFollowRows
  <2>2. CASE p # WebProc
    BY <1>1, <1>2, <2>2 DEF SyncInv, JobsFollowRows, Serving
  <2> QED BY <2>1, <2>2
<1> QED BY <1>5, <1>6, <1>7 DEF SyncInv

LEMMA CrashSync ==
  ASSUME TypeOK, SyncInv, NEW p \in Proc, Crash(p)
  PROVE  SyncInv'
<1> DEFINE dead == IF p = "main" THEN Proc ELSE {"child"}
<1>1. UNCHANGED <<row, projects>>
  BY DEF Crash, dbVars
<1>2. \A h \in Handler : request'[h] = IF WebProc \in dead THEN Idle ELSE request[h]
  BY DEF Crash
<1>3. Idle.pc = "idle"
  BY DEF Idle
<1>4. /\ WebProc \in dead => proc'[WebProc] = "down"
      /\ WebProc \notin dead => proc'[WebProc] = proc[WebProc] /\ jobs'[WebProc] = jobs[WebProc]
  BY WebProcType DEF Crash
<1> HIDE DEF dead
<1>5. RequestsAreServed'
  BY <1>2, <1>3, <1>4 DEF SyncInv, RequestsAreServed, Serving
<1>6. RequestsAreCurrent'
  BY <1>1, <1>2, <1>3 DEF SyncInv, RequestsAreCurrent, Current, Wanted
<1>7. JobsFollowRows'
  BY <1>1, <1>2, <1>3, <1>4 DEF SyncInv, JobsFollowRows, Serving
<1> QED BY <1>5, <1>6, <1>7 DEF SyncInv

\* What neither a request nor a process does leaves the rows and the jobs alone.
LEMMA OtherwiseSync ==
  ASSUME SyncInv, UNCHANGED <<row, projects, request, proc, jobs>>
  PROVE  SyncInv'
  BY DEF SyncInv, RequestsAreServed, RequestsAreCurrent, JobsFollowRows, Serving, Current, Wanted

\* What a request of the only handler must keep.
Followed(q, rows, stored, js) ==
  \A c \in Conn :
    (q.pc = "written" => q.conn # c) /\ ProjectOf[c] \in stored => (c \in js <=> rows[c] = "active")

LEMMA SyncOfOne ==
  ASSUME OneAtATime, NEW h \in Handler
  PROVE  /\ SyncInv => /\ request[h].pc # "idle" => Serving
                       /\ Current(request[h], row)
                       /\ Serving => Followed(request[h], row, projects, jobs[WebProc])
         /\ /\ Serving' /\ Current(request'[h], row')
            /\ Followed(request'[h], row', projects', jobs'[WebProc])
            => SyncInv'
<1>1. \A g \in Handler : g = h
  BY DEF OneAtATime
<1> QED
  BY <1>1 DEF SyncInv, RequestsAreServed, RequestsAreCurrent, JobsFollowRows, Followed

LEMMA RequestSync ==
  ASSUME TypeOK, SyncInv, OneAtATime, NEW h \in Handler, Requests(h)
  PROVE  SyncInv'
<1> USE DEF dbVars, schedVars, bootVars
<1>a. /\ request[h] \in Request /\ request[h].conn \in Conn
      /\ request \in [Handler -> Request] /\ row \in [Conn -> RowState]
      /\ jobs \in [Proc -> SUBSET Conn]
  BY DEF TypeOK, Request
<1>b. Idle \in Request /\ Idle.pc = "idle"
  BY IdleType DEF Idle
<1>c. /\ request[h].pc # "idle" => Serving
      /\ Current(request[h], row)
      /\ Serving => Followed(request[h], row, projects, jobs[WebProc])
  BY SyncOfOne
<1> DEFINE c == request[h].conn
           SoundNow == /\ Serving' /\ Current(request'[h], row')
                       /\ Followed(request'[h], row', projects', jobs'[WebProc])
<1>d. SoundNow => SyncInv'
  BY SyncOfOne
<1> HIDE DEF SoundNow
<1>1. CASE ToggleRow(h)
  <2>1. /\ request[h].pc = "looked_up" /\ request[h].op = "toggle" /\ Serving
        /\ UNCHANGED <<projects, jobs, proc>>
    BY <1>1, <1>c DEF ToggleRow, At
  <2>2. /\ request'[h].pc = "written" /\ request'[h].op = "toggle" /\ request'[h].conn = c
        /\ request'[h].seen = request[h].seen
    BY <1>1, <1>a, <2>1 DEF ToggleRow, Goto, Request
  <2>3. request[h].seen = row[c] /\ row[c] \in {"active", "inactive"}
    BY <1>c, <2>1 DEF Current
  <2>4. /\ row'[c] = IF row[c] = "active" THEN "inactive" ELSE "active"
        /\ \A d \in Conn \ {c} : row'[d] = row[d]
    BY <1>1, <1>a, <2>3 DEF ToggleRow, Exists
  <2>5. Current(request'[h], row')
    BY <2>2, <2>3, <2>4 DEF Current, Wanted
  <2>6. Followed(request'[h], row', projects', jobs'[WebProc])
    BY <1>c, <2>1, <2>2, <2>4 DEF Followed
  <2> QED BY <1>d, <2>1, <2>5, <2>6 DEF SoundNow, Serving
<1>2. CASE DeleteRow(h)
  <2>1. /\ request[h].pc = "looked_up" /\ request[h].op = "delete" /\ Serving
        /\ UNCHANGED <<projects, jobs, proc>>
    BY <1>2, <1>c DEF DeleteRow, At
  <2>2. /\ request'[h].pc = "written" /\ request'[h].op = "delete" /\ request'[h].conn = c
    BY <1>2, <1>a, <2>1 DEF DeleteRow, Goto, Request
  <2>3. row'[c] # "active" /\ \A d \in Conn \ {c} : row'[d] = row[d]
    BY <1>2, <1>a DEF DeleteRow, Exists
  <2>4. Current(request'[h], row')
    BY <2>2, <2>3 DEF Current, Wanted
  <2>5. Followed(request'[h], row', projects', jobs'[WebProc])
    BY <1>c, <2>1, <2>2, <2>3 DEF Followed
  <2> QED BY <1>d, <2>1, <2>4, <2>5 DEF SoundNow, Serving
<1>3. CASE SyncJob(h)
  <2>1. request[h].pc = "written" /\ Serving /\ UNCHANGED <<projects, row, proc>>
    BY <1>3, <1>c DEF SyncJob
  <2>2. request'[h] = Idle
    BY <1>3, <1>a DEF SyncJob, Respond
  <2>3. jobs'[WebProc] = IF Wanted(request[h]) THEN jobs[WebProc] \cup {c}
                                               ELSE jobs[WebProc] \ {c}
    BY <1>3, <1>a, WebProcType DEF SyncJob, AddJob, RemoveJob, Wanted
  <2>4. row[c] = "active" <=> Wanted(request[h])
    BY <1>c, <2>1 DEF Current
  <2>5. Current(request'[h], row')
    BY <1>b, <2>2 DEF Current
  <2>6. Followed(request'[h], row', projects', jobs'[WebProc])
    BY <1>b, <1>c, <2>1, <2>2, <2>3, <2>4 DEF Followed
  <2> QED BY <1>d, <2>1, <2>5, <2>6 DEF SoundNow, Serving
<1>4. CASE RunNow(h)
  <2>1. request[h].pc = "looked_up" /\ Serving /\ UNCHANGED <<projects, row, proc, jobs>>
    BY <1>4, <1>c DEF RunNow, At
  <2>2. request'[h] = Idle
    BY <1>4, <1>a DEF RunNow, Respond
  <2>3. Current(request'[h], row')
    BY <1>b, <2>2 DEF Current
  <2>4. Followed(request'[h], row', projects', jobs'[WebProc])
    BY <1>b, <1>c, <2>1, <2>2 DEF Followed
  <2> QED BY <1>d, <2>1, <2>3, <2>4 DEF SoundNow, Serving
<1>5. CASE DeleteProject(h)
  <2>1. request[h].pc = "looked_up" /\ Serving /\ UNCHANGED <<proc, jobs>>
    BY <1>5, <1>c DEF DeleteProject, At
  <2>2. request'[h] = Idle
    BY <1>5, <1>a DEF DeleteProject, Respond
  <2>3. Current(request'[h], row')
    BY <1>b, <2>2 DEF Current
  <2>4. projects' \subseteq projects
        /\ \A d \in Conn : ProjectOf[d] \in projects' => row'[d] = row[d]
    BY <1>5 DEF DeleteProject
  <2>5. Followed(request'[h], row', projects', jobs'[WebProc])
    BY <1>b, <1>c, <2>1, <2>2, <2>4 DEF Followed
  <2> QED BY <1>d, <2>1, <2>3, <2>5 DEF SoundNow, Serving
<1>6. ASSUME NEW d \in Conn, NEW active \in BOOLEAN, CreateConnection(h, d, active)
      PROVE  SyncInv'
  <2>1. /\ request[h].pc = "idle" /\ Serving /\ UNCHANGED <<projects, proc, jobs>>
        /\ row[d] = "unborn" /\ ProjectOf[d] \in projects
    BY <1>6 DEF CreateConnection, MayHandle
  <2>2. /\ row'[d] = IF active THEN "active" ELSE "inactive"
        /\ \A e \in Conn \ {d} : row'[e] = row[e]
    BY <1>6, <1>a DEF CreateConnection
  <2>3. Followed(request[h], row, projects, jobs[WebProc]) /\ d \notin jobs[WebProc]
    BY <1>c, <2>1 DEF Followed
  <2>4. CASE active
    <3>1. /\ request'[h].pc = "written" /\ request'[h].op = "create" /\ request'[h].conn = d
      BY <1>6, <1>a, <2>4 DEF CreateConnection
    <3>2. Current(request'[h], row')
      BY <2>2, <2>4, <3>1 DEF Current, Wanted
    <3>3. Followed(request'[h], row', projects', jobs'[WebProc])
      BY <2>1, <2>2, <2>3, <3>1 DEF Followed
    <3> QED BY <1>d, <2>1, <3>2, <3>3 DEF SoundNow, Serving
  <2>5. CASE ~active
    <3>1. request' = request
      BY <1>6, <2>5 DEF CreateConnection
    <3>2. Current(request'[h], row')
      BY <2>1, <3>1 DEF Current
    <3>3. Followed(request'[h], row', projects', jobs'[WebProc])
      BY <2>1, <2>2, <2>3, <2>5, <3>1 DEF Followed
    <3> QED BY <1>d, <2>1, <3>2, <3>3 DEF SoundNow, Serving
  <2> QED BY <2>4, <2>5
<1>7. ASSUME NEW op \in Op \ {"create"}, NEW d \in Conn, LookUp(h, op, d)
      PROVE  SyncInv'
  <2>1. /\ request[h].pc = "idle" /\ Serving /\ UNCHANGED <<projects, row, proc, jobs>>
        /\ op = "toggle" => Exists(d)
    BY <1>7 DEF LookUp, MayHandle
  <2>2. /\ request'[h].pc = "looked_up" /\ request'[h].op = op /\ request'[h].conn = d
        /\ request'[h].seen = row[d]
    BY <1>7, <1>a DEF LookUp
  <2>3. Current(request'[h], row')
    BY <2>1, <2>2 DEF Current, Exists
  <2>4. Followed(request'[h], row', projects', jobs'[WebProc])
    BY <1>c, <2>1, <2>2 DEF Followed
  <2> QED BY <1>d, <2>1, <2>3, <2>4 DEF SoundNow, Serving
<1> QED BY <1>1, <1>2, <1>3, <1>4, <1>5, <1>6, <1>7 DEF Handle, Requests

LEMMA NextSync ==
  ASSUME IInv, SyncInv, OneAtATime, [Next]_vars
  PROVE  SyncInv'
<1> USE DEF dbVars, schedVars, bootVars
<1>a. TypeOK
  BY DEF IInv
<1>1. ASSUME NEW p \in Proc, Boot(p) \/ Crash(p) PROVE SyncInv'
  BY <1>1, <1>a, BootSync, CrashSync
<1>2. ASSUME NEW h \in Handler, Requests(h) PROVE SyncInv'
  BY <1>2, <1>a, RequestSync
<1>3. ASSUME NEW p \in Proc, NEW c \in Conn, NEW r \in Run,
             FireInterval(p, c, r) \/ FireManual(p, c, r)
      PROVE  SyncInv'
  BY <1>3, OtherwiseSync DEF FireInterval, FireManual
<1>4. ASSUME NEW p \in Proc, NEW c \in Conn, Misfire(p, c) PROVE SyncInv'
  BY <1>4, OtherwiseSync DEF Misfire
<1>5. ASSUME NEW r \in Run, TickStep(r) PROVE SyncInv'
  <2>1. UNCHANGED <<row, projects, request, proc, jobs>>
    BY <1>5 DEF TickStep, TickFetch, TickOpen, TickRefuse, TickSaveMetrics, TickLogTable,
                TickAbort, TickClose, TickReport
  <2> QED BY <2>1, OtherwiseSync
<1>6. CASE UNCHANGED vars
  BY <1>6, OtherwiseSync DEF vars
<1> QED BY <1>1, <1>2, <1>3, <1>4, <1>5, <1>6 DEF Next, Requests

LEMMA JobsOfSync ==
  ASSUME FlaskDebug # "unset", IInv, SyncInv
  PROVE  JobsAreInSync
<1>1. OneScheduler
  BY ConstantsAssumption
  DEF OneScheduler, IInv, ChildNeedsMain, SchedulerRunning, StartsScheduler, DebugInFactory,
      RunsReloader, Proc
<1>2. SchedulerInSync
  BY DEF SyncInv, JobsFollowRows, SchedulerInSync
<1> QED BY <1>1, <1>2 DEF JobsAreInSync

\* With FLASK_DEBUG set, a store that accepts every write and one request at a time,
\* one process schedules, and between requests it schedules exactly the active
\* connections, whatever crashed and started again (start_scheduler, add_job,
\* remove_job).
THEOREM JobsAreAlwaysInSync ==
  ASSUME FlaskDebug # "unset", ~DbFaults, \A g, h \in Handler : g = h
  PROVE  Spec => []JobsAreInSync
<1>1. OneAtATime
  BY DEF OneAtATime
<1>2. IInv /\ SyncInv /\ [Next]_vars => SyncInv'
  BY <1>1, NextSync
<1>3. Spec => []SyncInv
  BY <1>2, InitSync, Invariance, PTL DEF Spec
<1>4. IInv /\ SyncInv => JobsAreInSync
  BY JobsOfSync
<1> QED BY <1>3, <1>4, Invariance, PTL
==============================================================================
