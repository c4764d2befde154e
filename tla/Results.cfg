\* Two collectors of tables of one name; two projects with two chats, and a job
\* that is due every two of seven instants; three instants of a series with change-points; two
\* workers over four hours; two connections and rows of nobody.
SPECIFICATION ResultsSpec
CONSTANTS
  k1 = k1
  k2 = k2
  Collector = {k1, k2}
  Tracked = {k1}
  Schema <- MCSchema
  MaxChanges = 1
  MaxFailures = 1
  Project = {"legacy", "p"}
  Legacy = "legacy"
  Chat = {"c", "d"}
  Throttle = {1, 3}
  Interval = 2
  Slack = 1
  MaxNow = 6
  MaxDrifts = 1
  MaxPoints = 1
  MaxEdits = 1
  MaxFaults = 1
  Time = {0, 1, 2}
  Window = 1
  Score = {1, 2}
  MinScore = 1
  Shift = {1, 2}
  MinShift = 1
  MaxCandidates = 2
  w1 = w1
  w2 = w2
  Worker = {w1, w2}
  Nightly = w1
  MinPoints <- MCMinPoints
  Old = 2
  ClusterSpan = 1
  ReadSpan = 2
  MaxHour = 4
  MaxShifts = 2
  MaxDiskFaults = 1
  Torn = Torn
  Source = {"a", "b"}
  Unknown = "unknown"
  Request = {r1}
  MaxSwitches = 1
  MaxOutages = 1
  None = None
INVARIANTS
  SchemasAreSound
  AlertsAreSound
  DriftIsAnnounced
  ShiftsAreSound
  ModelsAreSound
  ExplanationsAreSound
PROPERTIES
  StrongerWins
  ResultsArrive
CHECK_DEADLOCK FALSE
