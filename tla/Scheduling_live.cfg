\* FLASK_DEBUG=1: the reloader child serves and schedules; one request at a
\* time, and processes that stop are started again.
SPECIFICATION FairSpec
CONSTANTS
  c1 = c1
  c2 = c2
  p1 = p1
  p2 = p2
  Conn = {c1, c2}
  Project = {p1, p2}
  ProjectOf <- OwnProject
  Run = {r1}
  Handler = {h1}
  FlaskDebug = "1"
  DbFaults = FALSE
  MaxManual = 0
  MaxCrashes = 2
INVARIANTS
  JobsAreInSync
  RunsMatchProcesses
PROPERTIES
  RunsClose
  ActiveGetsScheduled
CHECK_DEADLOCK FALSE
