\* Two users, three links, two requests at once, any of which may die; two
\* addresses, two logins at once, a window of two units of time and a
\* threshold of two; two editors at once.
SPECIFICATION FormsSpec
CONSTANTS
  u1 = u1
  u2 = u2
  nobody = nobody
  User = {u1, u2}
  Token = {t1, t2, t3}
  Nobody = nobody
  Handler = {h1, h2}
  Email = {e1, e2}
  Thread = {l1, l2}
  Threshold = 2
  Window = 1
  Retention = 1
  MaxTime = 3
  MaxAttempts = 2
  pg = pg
  ice = ice
  none = none
  Dsn = {pg, ice}
  Dialect <- SomeDialects
  NoDsn = none
  Forms <- SomeForms
  Editor = {d1, d2}
  None = None
  c1 = c1
  c2 = c2
  c3 = c3
  server = server
  script = script
  Caller = {c1, c2, c3}
  Program = {server, script}
  ProgramOf <- MCProgramOf
  Key = {f1, f2, f3, f4}
  Backends <- MCBackends
  Place = {"public", "lake"}
  Monitored = "public"
  Warehouse = {"w1", "w2"}
  DsnWarehouse = "w1"
  Secret = {"k1", "k2"}
  DsnSecret = "k1"
  Item = {i1}
  Rows <- MCRows
  MaxEdits = 1
SYMMETRY FormsSymmetry
INVARIANTS
  FormsTypeOK
  LinksAreSound
  LockoutsAreSound
  ReadersAgree
  SecretsStayReadable
PROPERTIES
  PurgeKeepsLockouts
  EditsAreSound
CHECK_DEADLOCK FALSE
