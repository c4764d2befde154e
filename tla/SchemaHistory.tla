---------------------------- MODULE SchemaHistory ----------------------------
(***************************************************************************)
(* collectors/schema_collector.py: how the columns of one table, as the    *)
(* ticks of its collectors see them, become a stored snapshot and a log of *)
(* schema events.  The snapshot is kept by project and table name, so the  *)
(* collectors here are those of all connections of a project that have a   *)
(* table of that name, and the global sweep when the project is "legacy".  *)
(* Reading the columns, the snapshot of the source, the stored snapshot,   *)
(* the events and the new snapshot are separate transactions.              *)
(***************************************************************************)
EXTENDS Absent, Integers, FiniteSets

CONSTANTS
  Collector,
  Tracked,          \* the collectors that know their full source
  Schema,           \* functions from column names to [type, nullable]
  MaxChanges,       \* bound: DDL statements
  MaxFailures      \* bound: unreadable tables, failing transactions, crashes

Columns(s) == DOMAIN s

ASSUME SchemaAssumption ==
  /\ Tracked \subseteq Collector
  /\ None \notin Schema
  /\ \A s \in Schema :
       /\ Columns(s) # {} /\ \A c \in Columns(s) : s[c].nullable \in BOOLEAN
       /\ s = [c \in Columns(s) |-> [type |-> s[c].type, nullable |-> s[c].nullable]]
  /\ {MaxChanges, MaxFailures} \subseteq Nat

VARIABLES
  columnsOf,        \* the columns of the table behind each collector
  sourceSnapshot,   \* source_schema_snapshots
  snapshot,         \* schema_snapshots
  schemaEvents,     \* schema_events: the sets of events written at once
  tick,             \* what each collector is doing
  changes, failures,
  kept,             \* history: the snapshots that were ever stored
  baselines         \* history: those stored by a tick that had found none

schemaVars == <<columnsOf, sourceSnapshot, snapshot, schemaEvents, tick, changes, failures,
                kept, baselines>>

TickIdle == [pc |-> "idle", current |-> None, previous |-> None]

SchemaInit ==
  /\ columnsOf \in [Collector -> Schema]
  /\ sourceSnapshot = [k \in Tracked |-> None]
  /\ snapshot = None
  /\ schemaEvents = {}
  /\ tick = [k \in Collector |-> TickIdle]
  /\ changes = 0 /\ failures = 0
  /\ kept = {} /\ baselines = {}

------------------------------------------------------------------------------
\* diff_schemas

Event(change, c, was, is) == [change |-> change, column |-> c, before |-> was, after |-> is]

Added(before, after) ==
  {Event("column_added", c, None, after[c]) : c \in Columns(after) \ Columns(before)}

Removed(before, after) ==
  {Event("column_removed", c, before[c], None) : c \in Columns(before) \ Columns(after)}

Common(before, after) == Columns(before) \cap Columns(after)

\* Mutant: an event has the values the wrong way round.
RetypedBackwards(before, after) ==
  {Event("type_changed", c, after[c].type, before[c].type) :
     c \in {k \in Common(before, after) : before[k].type # after[k].type}}

Retyped(before, after) ==
  {Event("type_changed", c, before[c].type, after[c].type) :
     c \in {k \in Common(before, after) : before[k].type # after[k].type}}

Renulled(before, after) ==
  {Event("nullable_changed", c, before[c].nullable, after[c].nullable) :
     c \in {k \in Common(before, after) : before[k].nullable # after[k].nullable}}

\* Mutant: a change of nullability is no change.
DiffTypes(before, after) ==
  IF before = None THEN {}
  ELSE Added(before, after) \cup Removed(before, after) \cup Retyped(before, after)

Diff(before, after) ==
  IF before = None THEN {}
  ELSE Added(before, after) \cup Removed(before, after)
         \cup Retyped(before, after) \cup Renulled(before, after)

\* What a reader of the events makes of them.
After(s, es, c) ==
  LET seen(change) == {e \in es : e.change = change /\ e.column = c} IN
  IF seen("column_added") # {} THEN (CHOOSE e \in seen("column_added") : TRUE).after
  ELSE [type |-> IF seen("type_changed") = {} THEN s[c].type
                 ELSE (CHOOSE e \in seen("type_changed") : TRUE).after,
        nullable |-> IF seen("nullable_changed") = {} THEN s[c].nullable
                     ELSE (CHOOSE e \in seen("nullable_changed") : TRUE).after]

Replay(s, es) ==
  LET named(change) == {e.column : e \in {x \in es : x.change = change}} IN
  [c \in (Columns(s) \cup named("column_added")) \ named("column_removed") |-> After(s, es, c)]

------------------------------------------------------------------------------
\* collect_table_schema

TickAt(k, pc) == tick[k].pc = pc

Alter(k, s) ==
  /\ changes < MaxChanges
  /\ s # columnsOf[k]
  /\ columnsOf' = [columnsOf EXCEPT ![k] = s]
  /\ changes' = changes + 1
  /\ UNCHANGED <<sourceSnapshot, snapshot, schemaEvents, tick, failures, kept, baselines>>

ReadColumns(k) ==
  /\ TickAt(k, "idle")
  /\ tick' = [tick EXCEPT ![k] = [TickIdle EXCEPT !.current = columnsOf[k],
                !.pc = IF k \in Tracked THEN "read" ELSE "known"]]
  /\ UNCHANGED <<columnsOf, sourceSnapshot, snapshot, schemaEvents, changes, failures, kept, baselines>>

SaveSourceSnapshot(k) ==
  /\ TickAt(k, "read")
  /\ sourceSnapshot' = [sourceSnapshot EXCEPT ![k] = tick[k].current]
  /\ tick' = [tick EXCEPT ![k].pc = "known"]
  /\ UNCHANGED <<columnsOf, snapshot, schemaEvents, changes, failures, kept, baselines>>

\* A tick that finds nothing new writes nothing.
Compare(k) ==
  LET new == Diff(snapshot, tick[k].current) IN
  /\ TickAt(k, "known")
  /\ tick' = [tick EXCEPT ![k] = IF snapshot # None /\ new = {} THEN TickIdle
                ELSE [@ EXCEPT !.previous = snapshot,
                               !.pc = IF new = {} THEN "settled" ELSE "changed"]]
  /\ UNCHANGED <<columnsOf, sourceSnapshot, snapshot, schemaEvents, changes, failures, kept, baselines>>

SaveEvents(k) ==
  /\ TickAt(k, "changed")
  /\ schemaEvents' = schemaEvents \cup {Diff(tick[k].previous, tick[k].current)}
  /\ tick' = [tick EXCEPT ![k].pc = "settled"]
  /\ UNCHANGED <<columnsOf, sourceSnapshot, snapshot, changes, failures, kept, baselines>>

SaveSnapshot(k) ==
  /\ TickAt(k, "settled")
  /\ snapshot' = tick[k].current
  /\ kept' = kept \cup {tick[k].current}
  /\ baselines' = IF tick[k].previous = None THEN baselines \cup {tick[k].current} ELSE baselines
  /\ tick' = [tick EXCEPT ![k] = TickIdle]
  /\ UNCHANGED <<columnsOf, sourceSnapshot, schemaEvents, changes, failures>>

\* The table cannot be read, has no columns any more, a transaction fails or
\* the process dies: the tick gives up where it stands.
Abandon(k) ==
  /\ ~TickAt(k, "idle")
  /\ failures < MaxFailures
  /\ failures' = failures + 1
  /\ tick' = [tick EXCEPT ![k] = TickIdle]
  /\ UNCHANGED <<columnsOf, sourceSnapshot, snapshot, schemaEvents, changes, kept, baselines>>

Collect(k) ==
  \/ ReadColumns(k) \/ SaveSourceSnapshot(k) \/ Compare(k) \/ SaveEvents(k) \/ SaveSnapshot(k)

SchemaNext ==
  \E k \in Collector : Collect(k) \/ Abandon(k) \/ \E s \in Schema : Alter(k, s)

\* Every collector ticks again and again (the interval jobs).
SchemaFairness == \A k \in Collector : WF_schemaVars(Collect(k))

SchemaSpec == SchemaInit /\ [][SchemaNext]_schemaVars /\ SchemaFairness

------------------------------------------------------------------------------
\* Properties

SchemaTypeOK ==
  /\ columnsOf \in [Collector -> Schema]
  /\ sourceSnapshot \in [Tracked -> Schema \cup {None}]
  /\ snapshot \in Schema \cup {None}
  /\ tick \in [Collector -> [pc: {"idle", "read", "known", "changed", "settled"},
                             current: Schema \cup {None}, previous: Schema \cup {None}]]
  /\ changes \in 0 .. MaxChanges /\ failures \in 0 .. MaxFailures
  /\ kept \subseteq Schema /\ baselines \subseteq kept

\* No change of the stored columns goes unrecorded, whichever tick is
\* interrupted where: a snapshot is the first one, or replaying some recorded
\* events on a snapshot that was stored gives it (collect_table_schema,
\* diff_schemas).
SnapshotIsExplained ==
  \/ snapshot = None
  \/ snapshot \in baselines
  \/ \E s \in kept, es \in schemaEvents : Replay(s, es) = snapshot

\* A change that stays is noticed: again and again the stored snapshot agrees
\* with the columns of each table that shares it.
EveryTableIsSeen == \A k \in Collector : []<>(snapshot = columnsOf[k])

\* The history of a schema has the right types and explains its snapshot.
SchemasAreSound == SchemaTypeOK /\ SnapshotIsExplained
=============================================================================
