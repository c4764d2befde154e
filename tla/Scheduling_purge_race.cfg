\* A tick in flight outlives the purge of its project.
SPECIFICATION Spec
CONSTANTS
  c1 = c1
  c2 = c2
  p1 = p1
  p2 = p2
  Conn = {c1}
  Project = {p1}
  ProjectOf <- OneProject
  Run = {r1}
  Handler = {h1}
  FlaskDebug = "0"
  DbFaults = FALSE
  MaxManual = 0
  MaxCrashes = 0
INVARIANTS
  DeletedProjectIsPurged
CHECK_DEADLOCK FALSE
