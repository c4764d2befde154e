\* One process, as deployed: two requests and two ticks race on a connection,
\* the process crashes and any write to the metrics store may fail.
SPECIFICATION Spec
CONSTANTS
  c1 = c1
  c2 = c2
  p1 = p1
  p2 = p2
  Conn = {c1}
  Project = {p1}
  ProjectOf <- OneProject
  Run = {r1, r2}
  Handler = {h1, h2}
  FlaskDebug = "0"
  DbFaults = TRUE
  MaxManual = 1
  MaxCrashes = 1
SYMMETRY Symmetry
INVARIANTS
  DeletionsWin
PROPERTIES
  RunLogSpec
CHECK_DEADLOCK FALSE
