-------------------------- MODULE ConnectionProbe --------------------------
(***************************************************************************)
(* The three readers of one connection's source, and what each makes of    *)
(* the row: the probe behind the button "test" (app/connections.py), the   *)
(* tick (collectors/per_project.py) and the live pages (app/dashboard.py). *)
(* Any of them may fail; the row, the source and the key may change        *)
(* between the moments when they read the row and when they are answered.  *)
(*                                                                         *)
(* Abstracted: a namespace, a schema and a database are a place; a         *)
(* source's tables are those its user sees; errors that the network or the *)
(* server make are one.                                                    *)
(***************************************************************************)
EXTENDS Absent, Naturals, FiniteSets

CONSTANTS
  Backends,     \* the dialects to consider
  Place,        \* namespaces, schemas
  Monitored,    \* settings.MONITORED_SCHEMA
  Warehouse,    \* the catalogs behind a DSN, the first its own
  Secret,       \* bearer tokens, the DSN's among them
  DsnWarehouse, DsnSecret,
  Item,         \* tables
  Rows,         \* the rows to consider, see Fields
  MaxEdits      \* bound: changes of the row, the source and the key

ASSUME ProbeAssumption ==
  /\ Backends \subseteq {"postgres", "clickhouse", "iceberg", "mysql"}
  /\ Monitored \in Place /\ DsnWarehouse \in Warehouse /\ DsnSecret \in Secret
  /\ None \notin Place \cup Warehouse \cup Secret /\ MaxEdits \in Nat

VARIABLES
  backend,      \* of the DSN
  stored,       \* the row's fields that say where to look, see Fields
  content,      \* the source: the tables of each place; None without the place
  accepted,     \* the tokens it accepts
  usage,        \* Postgres: the schemas that the user may use
  decrypts,     \* the row's secrets that FERNET_KEY decrypts
  reader,       \* the local state of each reader
  answers,      \* what each one found since the last change (history)
  edits         \* the changes so far

connection == <<backend, stored, content, accepted, usage, decrypts, edits>>
probeVars == <<connection, reader, answers>>

Reader == {"test", "tick", "page"}
Fields == [schema: Place, namespace: Place \cup {None},
           allowlist: SUBSET Place,        \* of namespaces; empty without one
           warehouse: Warehouse \cup {None}, token: Secret \cup {None}]

\* What an empty field leaves in place.
OrElse(field, default) == IF field # None THEN field ELSE default

------------------------------------------------------------------------------
\* effective_namespace, or the namespaces of an Iceberg connection's allowlist
\* (_iceberg_namespaces_to_scan)
NamespacesToScan(default) ==
  IF backend = "iceberg" /\ stored.allowlist # {} THEN stored.allowlist
  ELSE {OrElse(stored.namespace, default)}

\* Mutant: the tick reads the schema of the settings too.
PlacesOfSettings(r) ==
  CASE r = "test" -> IF backend = "iceberg" THEN {stored.namespace} \ {None} ELSE {Monitored}
    [] r = "tick" -> NamespacesToScan(Monitored)
    [] r = "page" -> {stored.schema}

\* Mutant: the probe looks for schema_name.
PlacesOfSchema(r) ==
  IF r = "tick" THEN NamespacesToScan(stored.schema) ELSE {stored.schema}

\* The probe looks at the schema of the settings (no DSN that psycopg2 accepts
\* names another) or at the namespace, if there is one, and knows of no
\* allowlist; the tick falls back to schema_name, and a page reads nothing else.
PlacesOf(r) ==
  CASE r = "test" -> IF backend = "iceberg" THEN {stored.namespace} \ {None} ELSE {Monitored}
    [] r = "tick" -> NamespacesToScan(stored.schema)
    [] r = "page" -> {stored.schema}

\* Mutant: the probe tries the DSN as it was typed in.
TokenOfDsn(r) == IF r = "tick" THEN OrElse(stored.token, DsnSecret) ELSE DsnSecret

\* The form's warehouse and token win over the DSN's, except on pages.
TokenOf(r) == IF r = "page" THEN DsnSecret ELSE OrElse(stored.token, DsnSecret)
WarehouseOf(r) ==
  IF r = "page" THEN DsnWarehouse ELSE OrElse(stored.warehouse, DsnWarehouse)

NotReading == [pc |-> "idle"]

\* found: the tables of each place that was listed
Answer(outcome, found) == [outcome |-> outcome, found |-> found]
NoTables == [p \in {} |-> {}]

\* The reader is done.  What it was told before the last change is forgotten.
Told(r, answer) ==
  /\ answers' = [answers EXCEPT ![r] = IF reader[r] # NotReading /\ reader[r].stale
                                       THEN None ELSE answer]
  /\ reader' = [reader EXCEPT ![r] = NotReading]
  /\ UNCHANGED connection

\* A page decrypts no token.
Unreadable(r) ==
  \/ "dsn" \notin decrypts
  \/ r # "page" /\ stored.token # None /\ "token" \notin decrypts

ReadRow(r) ==
  /\ reader[r] = NotReading
  /\ IF Unreadable(r) THEN Told(r, Answer("locked", NoTables))
     ELSE /\ reader' = [reader EXCEPT ![r] =
               [pc |-> "asking", places |-> PlacesOf(r), token |-> TokenOf(r),
                warehouse |-> WarehouseOf(r), stale |-> FALSE]]
          /\ UNCHANGED <<connection, answers>>

\* The server is down, or a query fails, or a namespace exceeds its budget and
\* is left out of the tick.
FailsToAnswer(r) == reader[r] # NotReading /\ Told(r, None)

CatalogOf(q) == content[IF backend = "iceberg" THEN q.warehouse ELSE DsnWarehouse]

\* A place that is not there is an empty one.
TablesOf(q) ==
  [p \in q.places |-> IF CatalogOf(q)[p] = None THEN {} ELSE CatalogOf(q)[p]]

Refused(q) == backend = "iceberg" /\ q.token \notin accepted

\* _probe_iceberg: list_namespaces, and the tables of the one there is.
TestIceberg ==
  LET q == reader["test"] IN
  /\ q # NotReading /\ backend = "iceberg"
  /\ Told("test",
       IF Refused(q) THEN Answer("refused", NoTables)
       ELSE IF q.places = {} THEN Answer("reached", NoTables)
       ELSE IF \E p \in q.places : CatalogOf(q)[p] = None
       THEN Answer("namespace_not_found", TablesOf(q))
       ELSE Answer("listed", TablesOf(q)))

\* has_schema_privilege, then the tables.
TestPostgres ==
  LET q == reader["test"] IN
  /\ q # NotReading /\ backend = "postgres"
  /\ Told("test", IF q.places \subseteq usage THEN Answer("listed", TablesOf(q))
                  ELSE Answer("no_usage", NoTables))

\* ClickHouse is reached (its tables are counted to ten at most, views among
\* them); other dialects have no probe.
TestOther ==
  /\ reader["test"] # NotReading /\ backend \in {"clickhouse", "mysql"}
  /\ Told("test", Answer(IF backend = "mysql" THEN "unsupported" ELSE "reached",
                         NoTables))

\* The tick's and the page's list_tables, place by place.
ListPlaces(r) ==
  /\ r # "test" /\ reader[r] # NotReading
  /\ Told(r, IF Refused(reader[r]) THEN Answer("refused", NoTables)
             ELSE Answer("listed", TablesOf(reader[r])))

(***************************************************************************)
(* The outside world: the editor, the source's owner, the operator.        *)
(***************************************************************************)
Edited ==
  /\ edits < MaxEdits /\ edits' = edits + 1
  /\ answers' = [r \in Reader |-> None]
  /\ reader' = [r \in Reader |-> IF reader[r] = NotReading THEN NotReading
                                 ELSE [reader[r] EXCEPT !.stale = TRUE]]
  /\ UNCHANGED backend

EditRow(new) ==
  /\ Edited /\ stored' = new
  /\ decrypts' = IF new.token \in {stored.token, None} THEN decrypts
                 ELSE decrypts \cup {"token"}
  /\ UNCHANGED <<content, accepted, usage>>

ChangeTables ==
  /\ Edited
  /\ \E w \in Warehouse, p \in Place, t \in {None} \cup SUBSET Item :
       content' = [content EXCEPT ![w][p] = t]
  /\ UNCHANGED <<stored, accepted, usage, decrypts>>

ChangeAccess ==
  /\ Edited
  /\ \/ backend = "iceberg" /\ accepted' \in SUBSET Secret /\ UNCHANGED usage
     \/ backend = "postgres" /\ usage' \in SUBSET Place /\ UNCHANGED accepted
  /\ UNCHANGED <<stored, content, decrypts>>

LoseKey ==
  /\ Edited /\ decrypts' \in {{}, decrypts \ {"token"}, decrypts \ {"dsn"}}
  /\ UNCHANGED <<stored, content, accepted, usage>>

\* The row of a DSN that was an Iceberg one before may still have its fields.
ProbeInit ==
  /\ backend \in Backends
  /\ stored \in Rows
  /\ content = [w \in Warehouse |->
       [p \in Place |-> IF (w = DsnWarehouse) = (p = Monitored) THEN Item
                        ELSE IF p = Monitored THEN None ELSE {}]]
  /\ accepted \in IF backend = "iceberg" THEN {{k} : k \in Secret} ELSE {{}}
  /\ usage \in IF backend = "postgres" THEN {{}, Place} ELSE {{}}
  /\ decrypts = {"dsn", "token"}
  /\ reader = [r \in Reader |-> NotReading]
  /\ answers = [r \in Reader |-> None]
  /\ edits = 0

ProbeNext ==
  \/ \E r \in Reader : ReadRow(r) \/ FailsToAnswer(r) \/ ListPlaces(r)
  \/ TestIceberg \/ TestPostgres \/ TestOther
  \/ ChangeTables \/ ChangeAccess \/ LoseKey
  \/ \E new \in Rows : EditRow(new)

ProbeSpec == ProbeInit /\ [][ProbeNext]_probeVars

(***************************************************************************)
(* Properties.                                                             *)
(***************************************************************************)
\* Two readers have been answered, and nothing was changed since both began.
Comparable(r, s) == answers[r] # None /\ answers[s] # None

\* The test tells what the next tick will do, unless something changes: a token
\* that it is refused with, or a secret that it cannot decrypt, stops the tick
\* too; the tick lists the namespace that it found, unless an allowlist leaves it
\* out; and in a place that both list they find the same tables.
ProbeForetells ==
  Comparable("test", "tick") =>
    LET test == answers["test"]
        tick == answers["tick"]
    IN /\ test.outcome = "refused" <=> tick.outcome = "refused"
       /\ test.outcome = "locked" <=> tick.outcome = "locked"
       /\ backend = "iceberg" /\ ~(DOMAIN test.found \subseteq DOMAIN tick.found)
          => stored.allowlist # {} /\ stored.namespace \notin stored.allowlist
       /\ \A p \in DOMAIN test.found \cap DOMAIN tick.found :
            test.found[p] = tick.found[p]

\* A page lists what the tick does, where the row overrides nothing of the DSN.
PagesListTheSame ==
  /\ Comparable("page", "tick")
  /\ stored.namespace = None /\ stored.warehouse = None /\ stored.token = None
  /\ backend = "iceberg" => stored.allowlist = {}
  => answers["page"] = answers["tick"]

ReadersAgree == ProbeForetells /\ PagesListTheSame
=============================================================================
