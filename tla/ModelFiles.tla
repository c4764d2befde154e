----------------------------- MODULE ModelFiles -----------------------------
(***************************************************************************)
(* The statistical models of one series that the application fits itself   *)
(* and keeps as files: the forecast (ml/forecast.py) and the anomaly       *)
(* detector (ml/anomaly_detector.py).  The nightly job and requests train  *)
(* at once; change-points and points are read in separate transactions;    *)
(* joblib.dump truncates the file and then writes it, so that a reader may *)
(* find it torn.  A request uses the file when it is fresh, otherwise it   *)
(* trains and reads the file again.                                        *)
(*                                                                         *)
(* Fitting is abstracted to where the points begin and end that a model    *)
(* was fitted to. A unit of time is as long as a forecast may lag behind   *)
(* (an hour); Old stands for seven days, ClusterSpan for 72 hours and      *)
(* ReadSpan for the 60 days of points and change-points that are read.     *)
(***************************************************************************)
EXTENDS Absent, Integers, FiniteSets, FiniteSetsExt

CONSTANTS
  Worker, Nightly,  \* the workers: the nightly job, and the requests
  MinPoints,        \* per kind of model
  Old, ClusterSpan, ReadSpan,
  MaxHour, MaxShifts, MaxDiskFaults,       \* bounds
  Torn

Model == {"forecast", "anomaly"}

\* A fitted model: where its points begin and end, the change-point it knows of,
\* whether it is a mere line for want of a file and, history, whether the
\* change-point was a severe drop.
Payload ==
  [since: 0 .. MaxHour, last: 1 .. MaxHour, knows: {None} \cup 1 .. MaxHour, drop: BOOLEAN,
   line: BOOLEAN]

ASSUME ModelFilesAssumption ==
  /\ Nightly \in Worker
  /\ MinPoints \in [Model -> Nat \ {0}]
  /\ {Old, ClusterSpan, ReadSpan, MaxHour, MaxShifts, MaxDiskFaults} \subseteq Nat
  /\ Old <= ReadSpan
  /\ None # Torn /\ None \notin Payload /\ Torn \notin Payload

VARIABLES
  hour,
  series,           \* the instants of the series that have a value
  shift,            \* the newest change-point on record: [at, severe], or None
  shifts,           \* how often one was recorded
  file,             \* what each model's file holds
  writing,          \* the workers that have a model's file open
  worker,
  diskFaults

historyVars == <<hour, series, shift, shifts>>
modelVars == <<historyVars, file, writing, worker, diskFaults>>

Off == [pc |-> "idle", model |-> None, asked |-> FALSE, last |-> None, knows |-> None,
        shift |-> None, fitted |-> None, used |-> None, outcome |-> None, quiet |-> TRUE]

ModelInit ==
  /\ hour = 0 /\ series = {} /\ shift = None /\ shifts = 0
  /\ file = [m \in Model |-> None]
  /\ writing = [m \in Model |-> {}]
  /\ worker = [w \in Worker |-> Off]
  /\ diskFaults = 0

Doing(w, pc) == worker[w].pc = pc

\* History: something moved while these workers were at work.
Disturbed(ws) ==
  [w \in Worker |-> IF w \notin ws THEN worker[w]
                    ELSE IF Doing(w, "idle") THEN Off
                    ELSE [worker[w] EXCEPT !.quiet = FALSE]]

\* A worker goes idle; history: what a request came to that was not disturbed.
End(w, outcome) ==
  worker' = [worker EXCEPT ![w] =
    IF ~@.asked \/ ~@.quiet THEN Off
    ELSE [@ EXCEPT !.pc = "idle", !.outcome = outcome, !.fitted = None, !.shift = None]]

------------------------------------------------------------------------------
\* The series

CollectPoint ==
  /\ hour < MaxHour
  /\ hour' = hour + 1
  /\ series' \in {series, series \cup {hour + 1}}
  /\ worker' = Disturbed(Worker)
  /\ UNCHANGED <<shift, shifts, file, writing, diskFaults>>

\* A detection records a later change-point, the same one with other values, or
\* a stronger one that takes the place of those up to ClusterSpan later.
RecordShift(at, severe) ==
  /\ shifts < MaxShifts
  /\ at \in 1 .. hour
  /\ shift # None => shift.at - ClusterSpan <= at
  /\ shift' = [at |-> at, severe |-> severe]
  /\ shifts' = shifts + 1
  /\ worker' = Disturbed(Worker)
  /\ UNCHANGED <<hour, series, file, writing, diskFaults>>

------------------------------------------------------------------------------
\* Training

IsOld(s) == hour - s.at >= Old

\* What get_metrics and get_changepoints return.
Points == {t \in series : hour - t <= ReadSpan}

LastShift == IF shift # None /\ hour - shift.at <= ReadSpan THEN shift ELSE None

PointsSince(s) == {t \in Points : t >= s.at}

FewAfter(s) == Cardinality(PointsSince(s)) < MinPoints["forecast"]

\* Mutant: a recent shift is never cut off, however severe.
SinceOldShift(s) == IF s # None /\ IsOld(s) /\ ~FewAfter(s) THEN s.at ELSE 0

\* Where the points begin that a forecast is fitted to: with the new regime
\* when the shift is old and has enough points, or is a severe drop.
Since(s) ==
  IF s # None /\ (IF IsOld(s) THEN ~FewAfter(s) ELSE s.severe) THEN s.at ELSE 0

\* After a severe drop with too few points a flat line stands for them.
Flat(s) == s # None /\ ~IsOld(s) /\ s.severe /\ FewAfter(s)

LastPoint == IF Points = {} THEN None ELSE Max(Points)

Fitted(m, s) ==
  [since |-> IF m = "forecast" THEN Since(s) ELSE 0,
   last  |-> IF Points = {} /\ s # None THEN s.at ELSE LastPoint,
   knows |-> IF m = "forecast" /\ s # None THEN s.at ELSE None,
   drop  |-> m = "forecast" /\ s # None /\ s.severe,          \* history
   line  |-> FALSE]

Enough(m, s) ==
  IF m = "anomaly" THEN Cardinality(Points) >= MinPoints[m]
  ELSE Flat(s) \/ Cardinality({t \in Points : t >= Since(s)}) >= MinPoints[m]

StartTraining(m) ==
  /\ Doing(Nightly, "idle")
  /\ worker' = [worker EXCEPT ![Nightly] = [Off EXCEPT !.pc = "training", !.model = m]]
  /\ UNCHANGED <<historyVars, file, writing, diskFaults>>

\* A forecast reads the change-points before the points.
ReadShift(w) ==
  /\ Doing(w, "training")
  /\ worker' = [worker EXCEPT ![w].pc = "fitting", ![w].shift = LastShift]
  /\ UNCHANGED <<historyVars, file, writing, diskFaults>>

Fit(w) ==
  LET m == worker[w].model IN
  /\ Doing(w, "fitting")
  /\ IF Enough(m, worker[w].shift)
     THEN worker' = [worker EXCEPT ![w].pc = "dumping",
                                   ![w].fitted = Fitted(m, worker[w].shift)]
     ELSE End(w, "insufficient")
  /\ UNCHANGED <<historyVars, file, writing, diskFaults>>

OpenFile(w) ==
  LET m == worker[w].model IN
  /\ Doing(w, "dumping")
  /\ file' = [file EXCEPT ![m] = Torn]
  /\ writing' = [writing EXCEPT ![m] = @ \cup {w}]
  /\ worker' = [Disturbed({v \in Worker : v # w /\ worker[v].model = m}) EXCEPT
                  ![w].pc = "writing", ![w].quiet = @ /\ writing[m] = {}]
  /\ UNCHANGED <<historyVars, diskFaults>>

\* Two that write at once may leave a file that nobody can load.
CloseFile(w) ==
  LET m == worker[w].model IN
  /\ Doing(w, "writing")
  /\ \/ file' = [file EXCEPT ![m] = worker[w].fitted]
     \/ ~worker[w].quiet /\ file' = [file EXCEPT ![m] = Torn]
  /\ writing' = [writing EXCEPT ![m] = @ \ {w}]
  /\ IF worker[w].asked THEN worker' = [worker EXCEPT ![w].pc = "reloading"]
                        ELSE End(w, "trained")
  /\ UNCHANGED <<historyVars, diskFaults>>

\* The disk is full or the file is read-only: training goes on without it.
FailToDump(w) ==
  LET m == worker[w].model IN
  /\ Doing(w, "dumping") \/ Doing(w, "writing")
  /\ diskFaults < MaxDiskFaults
  /\ diskFaults' = diskFaults + 1
  /\ writing' = [writing EXCEPT ![m] = @ \ {w}]
  /\ IF worker[w].asked THEN worker' = [worker EXCEPT ![w].pc = "reloading"]
                        ELSE End(w, "trained")
  /\ UNCHANGED <<historyVars, file>>

------------------------------------------------------------------------------
\* forecast and score_table

Ask(w, m) ==
  /\ Doing(w, "idle")
  /\ worker' = [worker EXCEPT ![w] = [Off EXCEPT !.pc = "asked", !.model = m, !.asked = TRUE]]
  /\ UNCHANGED <<historyVars, file, writing, diskFaults>>

ReadPoints(w) ==
  /\ Doing(w, "asked")
  /\ IF worker[w].model = "forecast" /\ Cardinality(Points) < MinPoints["forecast"]
     THEN End(w, "insufficient")
     ELSE worker' = [worker EXCEPT ![w].pc = "asked for shift", ![w].last = LastPoint]
  /\ UNCHANGED <<historyVars, file, writing, diskFaults>>

ReadLastShift(w) ==
  /\ Doing(w, "asked for shift")
  /\ worker' = [worker EXCEPT ![w].pc = "loading",
                              ![w].knows = IF LastShift = None THEN None ELSE LastShift.at]
  /\ UNCHANGED <<historyVars, file, writing, diskFaults>>

LoadFile(m) == IF file[m] = Torn THEN None ELSE file[m]

\* Mutant: a new change-point does not make a model stale.
IsLate(w, payload) == worker[w].model = "anomaly" \/ payload.last >= worker[w].last - 1

\* A detector is never too old: the nightly job sees to that.
IsFresh(w, payload) ==
  \/ worker[w].model = "anomaly"
  \/ payload.last >= worker[w].last - 1 /\ payload.knows = worker[w].knows

Load(w) ==
  LET payload == LoadFile(worker[w].model) IN
  /\ Doing(w, "loading")
  /\ worker' = IF payload # None /\ IsFresh(w, payload)
               THEN [worker EXCEPT ![w].pc = "predicting", ![w].used = payload]
               ELSE [worker EXCEPT ![w].pc = "training"]
  /\ UNCHANGED <<historyVars, file, writing, diskFaults>>

\* The line that a forecast fits to all the points it has read, whatever change
\* its training knew of.
Line(w) == [worker[w].fitted EXCEPT !.since = 0, !.last = worker[w].last, !.line = TRUE]

\* Without a file that loads, a forecast makes do with a line and a detector
\* gives up.
Reload(w) ==
  LET payload == LoadFile(worker[w].model) IN
  /\ Doing(w, "reloading")
  /\ IF payload = None /\ worker[w].model = "anomaly" THEN End(w, "error")
     ELSE worker' = [worker EXCEPT ![w].pc = "predicting",
                                   ![w].used = IF payload = None THEN Line(w) ELSE payload]
  /\ UNCHANGED <<historyVars, file, writing, diskFaults>>

Predict(w) ==
  /\ Doing(w, "predicting")
  /\ End(w, "predicted")
  /\ UNCHANGED <<historyVars, file, writing, diskFaults>>

Work(w) ==
  \/ ReadShift(w) \/ Fit(w) \/ OpenFile(w) \/ CloseFile(w) \/ FailToDump(w)
  \/ ReadPoints(w) \/ ReadLastShift(w) \/ Load(w) \/ Reload(w) \/ Predict(w)

ModelNext ==
  \/ CollectPoint
  \/ \E at \in 1 .. MaxHour, severe \in BOOLEAN : RecordShift(at, severe)
  \/ \E m \in Model : StartTraining(m) \/ \E w \in Worker \ {Nightly} : Ask(w, m)
  \/ \E w \in Worker : Work(w)

ModelSpec == ModelInit /\ [][ModelNext]_modelVars

------------------------------------------------------------------------------
\* Properties

ModelTypeOK ==
  /\ series \subseteq 1 .. hour
  /\ shift = None \/ shift \in [at: 1 .. hour, severe: BOOLEAN]
  /\ \A m \in Model : writing[m] = {w \in Worker : worker[w].model = m /\ Doing(w, "writing")}
  /\ \A m \in Model : file[m] \notin {None, Torn} => file[m].last \in 1 .. hour
  /\ diskFaults \in 0 .. MaxDiskFaults

\* A request that nothing disturbs, and whose file can be written, is served
\* by a trained model, no mere line, that knows the last change-point and the
\* last point, whatever earlier trainings and requests have left in the file; it
\* never fails for want of a file (forecast, score_table).
ServedIsFresh ==
  \A w \in Worker :
    worker[w].asked /\ Doing(w, "idle") /\ worker[w].quiet /\ diskFaults = 0 =>
      /\ worker[w].outcome # "error"
      /\ worker[w].outcome = "predicted" /\ worker[w].model = "forecast" =>
           /\ worker[w].used # None /\ ~worker[w].used.line
           /\ worker[w].used.knows = worker[w].knows
           /\ worker[w].used.last >= worker[w].last - 1

AcrossRecentDrop(model) ==
  model.drop /\ hour - model.knows < Old /\ model.since < model.knows

\* No trained forecast, in use or in a file, is fitted across a severe drop that
\* it knows of until the drop is old: the trend of the drop would go on below
\* zero (train).  The line that stands in for a file that cannot be read back is
\* fitted across the drop all the same (forecast); it is never kept in a file.
DropsAreNotExtrapolated ==
  /\ \A w \in Worker :
       LET used == worker[w].used IN
       used # None /\ ~used.line => ~AcrossRecentDrop(used)
  /\ \A m \in Model :
       file[m] \notin {None, Torn} => ~file[m].line /\ ~AcrossRecentDrop(file[m])

\* Trained models are fitted to the right part of the series; what is served was
\* fitted lately, and is a trained model unless something went wrong.
ModelsAreSound == ModelTypeOK /\ ServedIsFresh /\ DropsAreNotExtrapolated
=============================================================================
