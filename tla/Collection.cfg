\* Every allowlist, denylist, cap and size limit, no, one and two namespaces;
\* two projects, a global database that comes and goes.
SPECIFICATION CollectionSpec
CONSTANTS
  Table = {1, 2, 3}
  Catalog <- AllCatalogs
  Large = {2}
  Configs <- Both
  MaxMetrics = 1
  DbFaults = TRUE
  Project = {"legacy", "p"}
  Legacy = "legacy"
  TableName = {"a", "b"}
  GlobalTables = {"a"}
  None = None
  b1 = b1
  b2 = b2
  b3 = b3
  p1 = p1
  p2 = p2
  BootThread = {b1, b2, b3}
  Process = {p1, p2}
  ProcessOf <- MCProcessOf
  MaxFailures = 1
  KeyedCopied <- MCKeyed
  AppendCopied <- MCAppend
  Record = {r1, r2, r3}
  MaxVersion = 1
  BatchSize = 2
  CommitEvery = 1
  MaxTransfers = 2
  Source = {1, 2}
  Observed = {"a"}
  Version = {v1, v2}
  Measures <- MCMeasures
  Changes = {FALSE}
  PerDay = 2
  ShownDays = 1
  WindowDays = 3
  RetentionDays = 4
  BaselineDays = 1
  LastMoment = 9
  Database = {mine, theirs, lake}
  Catalogue = {lake}
  Global = mine
  Pooled = {r1, r2}
  MaxTables = 1
  Tuple = {r1, r2}
  Column = {"x"}
  Dialects <- MCDialects
  Estimates = {0, 1}
  MaxBatches = 1
  MaxEntries = 1
  MaxSamples = 3
INVARIANTS
  RunAddsUp
  JobsAreSound
  StoresAreComplete
  PagesAreConsistent
  ReadsStayHome
  MeasuresAreSound
PROPERTIES
  TicksEnd
  RowsSurvive
  EventsStay
  StoreComesUp
CHECK_DEADLOCK FALSE
