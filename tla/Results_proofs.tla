--------------------------- MODULE Results_proofs ---------------------------
(***************************************************************************)
(* Theorems about what is made of the collected metrics.                   *)
(***************************************************************************)
EXTENDS SchemaHistory, Alerts, ModelFiles, ChangepointStore, Explanations, Induction_proofs,
        SequenceTheorems, TLAPS

------------------------------------------------------------------------------
\* Schema drift: replaying a difference

\* The events of a difference are those of each column.
LEMMA EventsOfColumn ==
  ASSUME NEW s \in Schema, NEW t \in Schema, NEW c
  PROVE  LET seen(change) == {e \in Diff(s, t) : e.change = change /\ e.column = c} IN
         /\ seen("column_added") =
              IF c \in Columns(t) \ Columns(s) THEN {Event("column_added", c, None, t[c])} ELSE {}
         /\ seen("type_changed") =
              IF c \in Common(s, t) /\ s[c].type # t[c].type
              THEN {Event("type_changed", c, s[c].type, t[c].type)} ELSE {}
         /\ seen("nullable_changed") =
              IF c \in Common(s, t) /\ s[c].nullable # t[c].nullable
              THEN {Event("nullable_changed", c, s[c].nullable, t[c].nullable)} ELSE {}
<1> DEFINE seen(change) == {e \in Diff(s, t) : e.change = change /\ e.column = c}
<1>0. Diff(s, t) = Added(s, t) \cup Removed(s, t) \cup Retyped(s, t) \cup Renulled(s, t)
  BY SchemaAssumption DEF Diff
<1>1. seen("column_added") = {e \in Added(s, t) : e.column = c}
  BY <1>0 DEF Added, Removed, Retyped, Renulled, Event
<1>2. seen("type_changed") = {e \in Retyped(s, t) : e.column = c}
  BY <1>0 DEF Added, Removed, Retyped, Renulled, Event
<1>3. seen("nullable_changed") = {e \in Renulled(s, t) : e.column = c}
  BY <1>0 DEF Added, Removed, Retyped, Renulled, Event
<1>4. {e \in Added(s, t) : e.column = c} =
        IF c \in Columns(t) \ Columns(s) THEN {Event("column_added", c, None, t[c])} ELSE {}
  BY DEF Added, Event
<1>5. {e \in Retyped(s, t) : e.column = c} =
        IF c \in Common(s, t) /\ s[c].type # t[c].type
        THEN {Event("type_changed", c, s[c].type, t[c].type)} ELSE {}
  BY DEF Retyped, Event
<1>6. {e \in Renulled(s, t) : e.column = c} =
        IF c \in Common(s, t) /\ s[c].nullable # t[c].nullable
        THEN {Event("nullable_changed", c, s[c].nullable, t[c].nullable)} ELSE {}
  BY DEF Renulled, Event
<1> QED
  BY <1>1, <1>2, <1>3, <1>4, <1>5, <1>6

LEMMA ColumnsNamed ==
  ASSUME NEW s \in Schema, NEW t \in Schema
  PROVE  LET named(change) == {e.column : e \in {x \in Diff(s, t) : x.change = change}} IN
         /\ named("column_added") = Columns(t) \ Columns(s)
         /\ named("column_removed") = Columns(s) \ Columns(t)
<1> DEFINE named(change) == {e.column : e \in {x \in Diff(s, t) : x.change = change}}
<1>0. Diff(s, t) = Added(s, t) \cup Removed(s, t) \cup Retyped(s, t) \cup Renulled(s, t)
  BY SchemaAssumption DEF Diff
<1>1. {x \in Diff(s, t) : x.change = "column_added"} = Added(s, t)
  BY <1>0 DEF Added, Removed, Retyped, Renulled, Event
<1>2. {x \in Diff(s, t) : x.change = "column_removed"} = Removed(s, t)
  BY <1>0 DEF Added, Removed, Retyped, Renulled, Event
<1>3. {e.column : e \in Added(s, t)} = Columns(t) \ Columns(s)
  <2>1. ASSUME NEW c \in Columns(t) \ Columns(s) PROVE \E e \in Added(s, t) : e.column = c
    <3>1. Event("column_added", c, None, t[c]) \in Added(s, t)
      BY DEF Added
    <3> QED
      BY <3>1 DEF Event
  <2>2. \A e \in Added(s, t) : e.column \in Columns(t) \ Columns(s)
    BY DEF Added, Event
  <2> QED
    BY <2>1, <2>2
<1>4. {e.column : e \in Removed(s, t)} = Columns(s) \ Columns(t)
  <2>1. ASSUME NEW c \in Columns(s) \ Columns(t) PROVE \E e \in Removed(s, t) : e.column = c
    <3>1. Event("column_removed", c, s[c], None) \in Removed(s, t)
      BY DEF Removed
    <3> QED
      BY <3>1 DEF Event
  <2>2. \A e \in Removed(s, t) : e.column \in Columns(s) \ Columns(t)
    BY DEF Removed, Event
  <2> QED
    BY <2>1, <2>2
<1> QED
  BY <1>1, <1>2, <1>3, <1>4

\* Whoever replays the events of a difference gets what was compared.
LEMMA ReplayOfDiff ==
  ASSUME NEW s \in Schema, NEW t \in Schema
  PROVE  Replay(s, Diff(s, t)) = t
<1>1. ASSUME NEW c \in Columns(t)
      PROVE  After(s, Diff(s, t), c) = [type |-> t[c].type, nullable |-> t[c].nullable]
  <2> DEFINE seen(change) == {e \in Diff(s, t) : e.change = change /\ e.column = c}
  <2>0. t[c] = [type |-> t[c].type, nullable |-> t[c].nullable]
    BY SchemaAssumption
  <2>1. CASE c \notin Columns(s)
    <3>1. seen("column_added") = {Event("column_added", c, None, t[c])}
      BY <2>1, EventsOfColumn
    <3>2. (CHOOSE e \in seen("column_added") : TRUE).after = t[c]
      <4> DEFINE chosen == CHOOSE e \in seen("column_added") : TRUE
      <4>1. chosen \in seen("column_added")
        BY <3>1
      <4> HIDE DEF chosen
      <4>2. chosen = Event("column_added", c, None, t[c])
        BY <3>1, <4>1
      <4>3. chosen.after = t[c]
        BY <4>2 DEF Event
      <4> QED
        BY <4>3 DEF chosen
    <3> QED
      BY <2>0, <3>1, <3>2 DEF After
  <2>2. CASE c \in Columns(s)
    <3>1. seen("column_added") = {} /\ c \in Common(s, t)
      BY <2>2, EventsOfColumn DEF Common
    <3>2. (IF seen("type_changed") = {} THEN s[c].type
           ELSE (CHOOSE e \in seen("type_changed") : TRUE).after) = t[c].type
      <4>1. CASE s[c].type = t[c].type
        BY <3>1, <4>1, EventsOfColumn
      <4>2. CASE s[c].type # t[c].type
        <5>1. seen("type_changed") = {Event("type_changed", c, s[c].type, t[c].type)}
          BY <3>1, <4>2, EventsOfColumn
        <5> DEFINE chosen == CHOOSE e \in seen("type_changed") : TRUE
        <5>2. chosen \in seen("type_changed") /\ seen("type_changed") # {}
          BY <5>1
        <5> HIDE DEF chosen
        <5>3. chosen = Event("type_changed", c, s[c].type, t[c].type)
          BY <5>1, <5>2
        <5>4. chosen.after = t[c].type
          BY <5>3 DEF Event
        <5> QED
          BY <5>2, <5>4 DEF chosen
      <4> QED
        BY <4>1, <4>2
    <3>3. (IF seen("nullable_changed") = {} THEN s[c].nullable
           ELSE (CHOOSE e \in seen("nullable_changed") : TRUE).after) = t[c].nullable
      <4>1. CASE s[c].nullable = t[c].nullable
        BY <3>1, <4>1, EventsOfColumn
      <4>2. CASE s[c].nullable # t[c].nullable
        <5>1. seen("nullable_changed") =
                {Event("nullable_changed", c, s[c].nullable, t[c].nullable)}
          BY <3>1, <4>2, EventsOfColumn
        <5> DEFINE chosen == CHOOSE e \in seen("nullable_changed") : TRUE
        <5>2. chosen \in seen("nullable_changed") /\ seen("nullable_changed") # {}
          BY <5>1
        <5> HIDE DEF chosen
        <5>3. chosen = Event("nullable_changed", c, s[c].nullable, t[c].nullable)
          BY <5>1, <5>2
        <5>4. chosen.after = t[c].nullable
          BY <5>3 DEF Event
        <5> QED
          BY <5>2, <5>4 DEF chosen
      <4> QED
        BY <4>1, <4>2
    <3> QED
      BY <3>1, <3>2, <3>3 DEF After
  <2> QED
    BY <2>1, <2>2
<1>2. t = [c \in Columns(t) |-> [type |-> t[c].type, nullable |-> t[c].nullable]]
  BY SchemaAssumption
<1>3. Replay(s, Diff(s, t)) = [c \in Columns(t) |-> After(s, Diff(s, t), c)]
  BY ColumnsNamed DEF Replay
<1>4. [c \in Columns(t) |-> After(s, Diff(s, t), c)]
        = [c \in Columns(t) |-> [type |-> t[c].type, nullable |-> t[c].nullable]]
  BY <1>1
<1> QED
  BY <1>2, <1>3, <1>4

------------------------------------------------------------------------------
\* The history of the snapshots

\* The strengthening: a tick that is to store a snapshot has recorded how it
\* differs from one that was stored, or found none.
SchemaInv ==
  /\ SchemasAreSound
  /\ snapshot \in kept \cup {None}
  /\ \A k \in Collector :
       /\ tick[k].pc # "idle" => tick[k].current \in Schema
       /\ tick[k].previous \in kept \cup {None}
       /\ tick[k].pc = "changed" => tick[k].previous # None
       /\ tick[k].pc = "settled" => \/ tick[k].previous = None
                                    \/ Diff(tick[k].previous, tick[k].current) \in schemaEvents

TickState ==
  [pc : {"idle", "read", "known", "changed", "settled"},
   current : Schema \cup {None}, previous : Schema \cup {None}]

LEMMA InitInvSchema == SchemaInit => SchemaInv
  BY SchemaAssumption
     DEF SchemaInit, SchemaInv, SchemasAreSound, SchemaTypeOK, SnapshotIsExplained, TickIdle

LEMMA NextInvSchema == SchemaInv /\ [SchemaNext]_schemaVars => SchemaInv'
<1> SUFFICES ASSUME SchemaInv, [SchemaNext]_schemaVars PROVE SchemaInv'
  OBVIOUS
<1> USE SchemaAssumption
<1>0. /\ tick \in [Collector -> TickState] /\ TickIdle \in TickState /\ SchemaTypeOK
      /\ TickIdle.pc = "idle" /\ TickIdle.previous = None
  BY DEF SchemaInv, SchemasAreSound, SchemaTypeOK, TickState, TickIdle
<1>1. CASE UNCHANGED schemaVars
  BY <1>1 DEF schemaVars, SchemaInv, SchemasAreSound, SchemaTypeOK, SnapshotIsExplained
<1>2. ASSUME NEW k \in Collector, NEW s \in Schema, Alter(k, s)
      PROVE  SchemaInv'
  BY <1>2 DEF Alter, SchemaInv, SchemasAreSound, SchemaTypeOK, SnapshotIsExplained
\* A step that only changes what one tick is doing.
<1>3. ASSUME NEW k \in Collector, NEW state \in TickState, tick' = [tick EXCEPT ![k] = state],
             UNCHANGED <<columnsOf, snapshot, schemaEvents, kept, baselines>>,
             sourceSnapshot' \in [Tracked -> Schema \cup {None}],
             changes' \in 0 .. MaxChanges, failures' \in 0 .. MaxFailures,
             state.pc # "idle" => state.current \in Schema,
             state.previous \in kept \cup {None},
             state.pc = "changed" => state.previous # None,
             state.pc = "settled" => state.previous = None
      PROVE  SchemaInv'
  <2>1. tick' \in [Collector -> TickState]
    BY <1>0, <1>3
  <2>2. SchemaTypeOK'
    BY <1>0, <1>3, <2>1 DEF SchemaTypeOK, TickState
  <2>3. SnapshotIsExplained'
    BY <1>3 DEF SchemaInv, SchemasAreSound, SnapshotIsExplained
  <2>4. \A q \in Collector : tick'[q] = IF q = k THEN state ELSE tick[q]
    BY <1>0, <1>3
  <2> QED
    BY <1>3, <2>2, <2>3, <2>4 DEF SchemaInv, SchemasAreSound
<1>4. ASSUME NEW k \in Collector, ReadColumns(k)
      PROVE  SchemaInv'
  <2> DEFINE state == [TickIdle EXCEPT !.current = columnsOf[k],
                                     !.pc = IF k \in Tracked THEN "read" ELSE "known"]
  <2>1. state \in TickState /\ state.current \in Schema /\ state.previous = None
        /\ state.pc \in {"read", "known"}
    BY <1>0 DEF TickState, SchemaTypeOK
  <2>2. tick' = [tick EXCEPT ![k] = state]
    BY <1>4 DEF ReadColumns
  <2> HIDE DEF state
  <2> QED
    BY <1>0, <1>3, <1>4, <2>1, <2>2 DEF ReadColumns, SchemaTypeOK
<1>5. ASSUME NEW k \in Collector, SaveSourceSnapshot(k)
      PROVE  SchemaInv'
  <2>1. PICK state \in TickState : state = [tick[k] EXCEPT !.pc = "known"]
    BY <1>0 DEF TickState
  <2>2. /\ state.current = tick[k].current /\ state.previous = tick[k].previous /\ state.pc = "known"
        /\ tick[k].current \in Schema /\ tick[k].previous \in kept \cup {None}
    BY <1>0, <1>5, <2>1 DEF TickState, SaveSourceSnapshot, SchemaInv, TickAt
  <2>3. tick' = [tick EXCEPT ![k] = state]
    BY <1>0, <1>5, <2>1 DEF SaveSourceSnapshot
  <2>4. sourceSnapshot' \in [Tracked -> Schema \cup {None}]
    BY <1>0, <1>5, <2>2 DEF SaveSourceSnapshot, SchemaTypeOK
  <2> QED
    BY <1>0, <1>3, <1>5, <2>2, <2>3, <2>4 DEF SaveSourceSnapshot, SchemaTypeOK
<1>6. ASSUME NEW k \in Collector, Compare(k)
      PROVE  SchemaInv'
  <2> DEFINE new == Diff(snapshot, tick[k].current)
  <2>0. UNCHANGED <<columnsOf, sourceSnapshot, snapshot, schemaEvents, changes, failures, kept, baselines>>
        /\ tick[k].pc = "known" /\ tick[k].current \in Schema
    BY <1>6 DEF Compare, TickAt, SchemaInv
  <2>1. CASE snapshot # None /\ new = {}
    <3>1. tick' = [tick EXCEPT ![k] = TickIdle]
      BY <1>6, <2>1 DEF Compare
    <3> QED
      BY <1>0, <1>3, <2>0, <3>1 DEF SchemaTypeOK
  <2>2. CASE ~(snapshot # None /\ new = {})
    <3>1. tick' = [tick EXCEPT ![k] = [tick[k] EXCEPT !.previous = snapshot,
                                         !.pc = IF new = {} THEN "settled" ELSE "changed"]]
      BY <1>0, <1>6, <2>2 DEF Compare
    <3> DEFINE pc == IF new = {} THEN "settled" ELSE "changed"
    <3>2. /\ pc \in {"settled", "changed"} /\ (pc = "settled" => snapshot = None)
          /\ pc = "changed" => snapshot # None
      BY <2>2 DEF Diff
    <3>3. PICK state \in TickState : state = [tick[k] EXCEPT !.previous = snapshot, !.pc = pc]
      BY <1>0, <3>2 DEF TickState, SchemaTypeOK
    <3>4. state.current = tick[k].current /\ state.previous = snapshot /\ state.pc = pc
      BY <1>0, <3>3 DEF TickState
    <3>5. tick' = [tick EXCEPT ![k] = state]
      BY <3>1, <3>3
    <3> HIDE DEF pc
    <3> QED
      BY <1>0, <1>3, <2>0, <3>2, <3>4, <3>5 DEF SchemaTypeOK, SchemaInv
  <2> QED
    BY <2>1, <2>2
<1>7. ASSUME NEW k \in Collector, SaveEvents(k)
      PROVE  SchemaInv'
  <2>1. /\ tick' = [tick EXCEPT ![k].pc = "settled"]
        /\ schemaEvents' = schemaEvents \cup {Diff(tick[k].previous, tick[k].current)}
        /\ UNCHANGED <<columnsOf, sourceSnapshot, snapshot, changes, failures, kept, baselines>>
        /\ tick[k].pc = "changed"
    BY <1>7 DEF SaveEvents, TickAt
  <2>2. /\ tick' \in [Collector -> TickState]
        /\ tick'[k].pc = "settled" /\ tick'[k].current = tick[k].current
        /\ tick'[k].previous = tick[k].previous
        /\ \A q \in Collector : q # k => tick'[q] = tick[q]
    BY <1>0, <2>1 DEF TickState
  <2>3. SchemaTypeOK'
    BY <1>0, <2>1, <2>2 DEF SchemaTypeOK, TickState
  <2>4. SnapshotIsExplained'
    BY <2>1 DEF SchemaInv, SchemasAreSound, SnapshotIsExplained
  <2> QED
    BY <2>1, <2>2, <2>3, <2>4 DEF SchemaInv, SchemasAreSound
<1>8. ASSUME NEW k \in Collector, SaveSnapshot(k)
      PROVE  SchemaInv'
  <2> DEFINE current == tick[k].current
             previous == tick[k].previous
  <2>1. /\ tick[k].pc = "settled" /\ snapshot' = current /\ kept' = kept \cup {current}
        /\ baselines' = IF previous = None THEN baselines \cup {current} ELSE baselines
        /\ tick' = [tick EXCEPT ![k] = TickIdle]
        /\ UNCHANGED <<columnsOf, sourceSnapshot, schemaEvents, changes, failures>>
    BY <1>8 DEF SaveSnapshot, TickAt
  <2>2. /\ current \in Schema /\ previous \in kept \cup {None} /\ kept \subseteq Schema
        /\ previous = None \/ Diff(previous, current) \in schemaEvents
    BY <1>0, <2>1 DEF SchemaInv, SchemaTypeOK
  <2>3. /\ tick' \in [Collector -> TickState] /\ tick'[k] = TickIdle
        /\ \A q \in Collector : q # k => tick'[q] = tick[q]
    BY <1>0, <2>1
  <2>4. SchemaTypeOK'
    BY <1>0, <2>1, <2>2, <2>3 DEF SchemaTypeOK, TickState
  <2>5. SnapshotIsExplained'
    <3>1. CASE previous = None
      BY <2>1, <3>1 DEF SnapshotIsExplained
    <3>2. CASE previous # None
      <4>1. previous \in kept' /\ Diff(previous, current) \in schemaEvents'
        BY <2>1, <2>2, <3>2
      <4>2. Replay(previous, Diff(previous, current)) = snapshot'
        BY <2>1, <2>2, <3>2, ReplayOfDiff
      <4> QED
        BY <4>1, <4>2 DEF SnapshotIsExplained
    <3> QED
      BY <3>1, <3>2
  <2> QED
    BY <1>0, <2>1, <2>2, <2>3, <2>4, <2>5 DEF SchemaInv, SchemasAreSound
<1>9. ASSUME NEW k \in Collector, Abandon(k)
      PROVE  SchemaInv'
  <2>1. failures' \in 0 .. MaxFailures
    BY <1>0, <1>9 DEF Abandon, SchemaTypeOK
  <2> QED
    BY <1>0, <1>3, <1>9, <2>1 DEF Abandon, SchemaTypeOK
<1> QED
  BY <1>1, <1>2, <1>4, <1>5, <1>6, <1>7, <1>8, <1>9 DEF SchemaNext, Collect

\* No change of the stored columns goes unrecorded, whatever the schemas, how
\* many collectors share the table, and wherever a tick is interrupted: a
\* snapshot is the first one, or recorded events lead to it from one that was
\* stored (collect_table_schema, diff_schemas).
THEOREM SchemasAreAlwaysSound == SchemaSpec => []SchemasAreSound
<1>1. SchemaInv => SchemasAreSound
  BY DEF SchemaInv
<1> QED
  BY <1>1, InitInvSchema, NextInvSchema, PTL DEF SchemaSpec

------------------------------------------------------------------------------
\* Explanations

\* The steps of a request, and those at which the owner of its context is known.
Steps == {"idle", "asked", "checking", "checked", "resolving", "explaining", "prompted",
          "falling back", "written"}
Explaining == {"explaining", "prompted", "falling back"}

Verdict == {None, "explained", "error", "source_required", "source_forbidden", "not_found",
            "invalid_history"}

RequestState ==
  [pc: Steps, source: Owner \cup {None}, context: Owner \cup {None}, tries: 0 .. MaxTries - 1,
   about: SUBSET Owner, outcome: Verdict, seenLive: SUBSET Source, faulty: BOOLEAN]

\* What is said of one connection's observation rests on what it recorded.
Grounded(s, data) == s \in Source => data \ {Unknown} \subseteq {s}

\* A request has seen every connection that was live while it was under way,
\* and that of its source, once authorized, among them; it explains its own
\* source, unless it has none and resolves one.
RequestSound(q, active) ==
  /\ q.pc # "idle" => q.source \in Owner /\ q.outcome = None /\ active \subseteq q.seenLive
  /\ q.source \in Source /\ (q.pc \notin {"idle", "asked"} \/ q.outcome = "explained")
       => q.source \in q.seenLive
  /\ q.pc = "resolving" => q.source = Unknown
  /\ q.pc \in Explaining => q.context \in Owner /\ q.source \in {q.context, Unknown}
  /\ Grounded(q.source, q.about)
  /\ q.outcome = "error" => q.faulty

CacheSound ==
  /\ cache \in [Owner -> {None} \cup SUBSET Owner]
  /\ \A o \in Owner : cache[o] # None => Grounded(o, cache[o])

ExplainInv ==
  /\ live \subseteq Source /\ observers \subseteq fed /\ fed \subseteq Owner
  /\ CacheSound
  /\ request \in [Request -> RequestState]
  /\ \A r \in Request : RequestSound(request[r], live)

LEMMA RequestStepSound ==
  ASSUME ExplainInv, live' = live, UNCHANGED <<observers, fed>>, CacheSound',
         NEW r \in Request, NEW q \in RequestState, request' = [request EXCEPT ![r] = q],
         RequestSound(q, live)
  PROVE  ExplainInv'
<1>1. request' \in [Request -> RequestState]
  BY DEF ExplainInv
<1>2. ASSUME NEW x \in Request
      PROVE  RequestSound(request'[x], live')
  <2>1. request'[x] = IF x = r THEN q ELSE request[x]
    BY DEF ExplainInv
  <2>2. RequestSound(request'[x], live)
    BY <2>1 DEF ExplainInv
  <2> QED BY <2>2
<1> QED BY <1>1, <1>2 DEF ExplainInv

\* The context of an explanation of a connection's observation holds its own
\* data, and results that nobody else contributed to.
LEMMA ContextIsGrounded ==
  ASSUME ExplainInv, NEW s \in Owner
  PROVE  Context(s) \in SUBSET Owner /\ Grounded(s, Context(s))
  BY ExplanationsAssumption
     DEF ExplainInv, Context, OwnsProjectResults, ProjectResults, Grounded, Owner

LEMMA ResolvedOrRefused ==
  ASSUME ExplainInv
  PROVE  Resolved \in Owner \cup {"source_required", "source_forbidden", "not_found"}
<1>1. CASE Cardinality(Allowed) = 1
  <2>1. Allowed # {}
    BY <1>1, FS_EmptySet
  <2>2. (CHOOSE s \in Allowed : TRUE) \in Allowed
    BY <2>1
  <2>3. Resolved \in Allowed
    BY <1>1, <2>2 DEF Resolved
  <2> QED BY <2>3 DEF Allowed, Owner, ExplainInv
<1>2. CASE Cardinality(Allowed) # 1
  BY <1>2 DEF Resolved, Owner
<1> QED BY <1>1, <1>2

LEMMA AnswerSound ==
  ASSUME ExplainInv, UNCHANGED <<live, observers, fed>>, CacheSound', NEW r \in Request,
         request[r].pc \notin {"idle"},
         NEW outcome \in Verdict \ {"error"}, NEW about \in SUBSET Owner,
         Grounded(request[r].source, about),
         outcome = "explained" => request[r].pc # "asked",
         Answer(r, outcome, about)
  PROVE  ExplainInv'
<1> DEFINE q == [NoRequest EXCEPT !.source = request[r].source,
                   !.seenLive = request[r].seenLive, !.faulty = request[r].faulty,
                   !.outcome = outcome, !.about = about]
<1>0. request[r] \in RequestState /\ RequestSound(request[r], live)
  BY DEF ExplainInv
<1>1. NoRequest \in RequestState
  BY DEF NoRequest, RequestState, Steps, Verdict, MaxTries
<1>2. q \in RequestState
  BY <1>0, <1>1 DEF RequestState
<1>3. /\ q.pc = "idle" /\ q.source = request[r].source /\ q.about = about
      /\ q.outcome = outcome /\ q.seenLive = request[r].seenLive
  BY <1>1 DEF NoRequest, RequestState
<1>4. request' = [request EXCEPT ![r] = q]
  BY DEF Answer
<1> HIDE DEF q
<1>5. RequestSound(q, live)
  BY <1>0, <1>3 DEF RequestSound, Explaining
<1> QED BY <1>2, <1>4, <1>5, RequestStepSound

LEMMA ExplainInitially == ExplainInit => ExplainInv
<1> SUFFICES ASSUME ExplainInit PROVE ExplainInv
  OBVIOUS
<1>1. NoRequest \in RequestState /\ RequestSound(NoRequest, live)
  BY ExplanationsAssumption
     DEF NoRequest, RequestState, RequestSound, Steps, Explaining, Verdict, MaxTries, Grounded, Owner
<1> QED BY <1>1 DEF ExplainInit, ExplainInv, CacheSound

LEMMA SwitchSound ==
  ASSUME ExplainInv, NEW s \in Source, Switch(s)
  PROVE  ExplainInv'
<1>1. live' \subseteq Source /\ CacheSound' /\ UNCHANGED <<observers, fed>>
  BY DEF ExplainInv, Switch, CacheSound
<1>2. ASSUME NEW r \in Request
      PROVE  request'[r] \in RequestState /\ RequestSound(request'[r], live')
  <2> DEFINE old == request[r]
             q == [old EXCEPT !.seenLive = @ \cup live']
  <2>1. request'[r] = q
    BY DEF Switch
  <2>2. old \in RequestState /\ RequestSound(old, live)
    BY DEF ExplainInv
  <2> HIDE DEF old
  <2>3. q \in RequestState
    BY <2>2, <1>1 DEF RequestState
  <2>4. /\ q.pc = old.pc /\ q.source = old.source /\ q.context = old.context
        /\ q.about = old.about /\ q.outcome = old.outcome /\ q.faulty = old.faulty
        /\ q.seenLive = old.seenLive \cup live'
    BY <2>2 DEF RequestState
  <2> HIDE DEF q
  <2>5. RequestSound(q, live')
    BY <2>2, <2>4 DEF RequestSound
  <2> QED BY <2>1, <2>3, <2>5
<1>3. request' \in [Request -> RequestState]
  BY <1>2 DEF Switch
<1> QED BY <1>1, <1>2, <1>3 DEF ExplainInv

LEMMA AskWhySound ==
  ASSUME ExplainInv, NEW r \in Request, NEW chosen \in Source \cup {None}, AskWhy(r, chosen)
  PROVE  ExplainInv'
<1> DEFINE s == IF chosen # None THEN chosen ELSE Resolved
           q == IF s \in Owner
                THEN [NoRequest EXCEPT !.seenLive = live, !.source = s,
                        !.pc = IF s = Unknown THEN "checking" ELSE "asked"]
                ELSE [NoRequest EXCEPT !.outcome = s]
<1>1. s \in Owner \cup {"source_required", "source_forbidden", "not_found"}
  BY ResolvedOrRefused DEF Owner
<1>2. request' = [request EXCEPT ![r] = q]
  BY DEF AskWhy
<1>3. UNCHANGED <<live, observers, fed>> /\ CacheSound'
  BY DEF AskWhy, ExplainInv, CacheSound
<1> HIDE DEF s
<1>4. NoRequest \in RequestState
  BY DEF NoRequest, RequestState, Steps, Verdict, MaxTries
<1>5. live \in SUBSET Source
  BY DEF ExplainInv
<1>6. q \in RequestState
  <2>1. CASE s \in Owner
    BY <1>4, <1>5, <2>1 DEF RequestState, Steps
  <2>2. CASE s \notin Owner
    BY <1>1, <1>4, <2>2 DEF RequestState, Verdict
  <2> QED BY <2>1, <2>2
<1>7. RequestSound(q, live)
  <2>1. CASE s \in Owner
    <3>1. /\ q.pc = IF s = Unknown THEN "checking" ELSE "asked"
          /\ q.source = s /\ q.outcome = None /\ q.seenLive = live /\ q.about = {}
      BY <2>1 DEF NoRequest
    <3> HIDE DEF q
    <3> QED BY <2>1, <3>1, ExplanationsAssumption DEF RequestSound, Explaining, Grounded, Owner
  <2>2. CASE s \notin Owner
    <3>1. /\ q.pc = "idle" /\ q.source = None /\ q.outcome = s /\ q.about = {}
      BY <2>2 DEF NoRequest
    <3> HIDE DEF q
    <3> QED BY <1>1, <2>2, <3>1, ExplanationsAssumption
            DEF RequestSound, Explaining, Grounded, Owner
  <2> QED BY <2>1, <2>2
<1> HIDE DEF q
<1> QED BY <1>2, <1>3, <1>6, <1>7, RequestStepSound

LEMMA AuthorizeSound ==
  ASSUME ExplainInv, NEW r \in Request, Authorize(r)
  PROVE  ExplainInv'
<1> DEFINE old == request[r]
           q == [old EXCEPT !.pc = "checking"]
<1>0. old \in RequestState /\ RequestSound(old, live) /\ old.pc = "asked"
  BY DEF ExplainInv, Authorize, At
<1>1. UNCHANGED <<live, observers, fed>> /\ CacheSound'
  BY DEF Authorize, ExplainInv, CacheSound
<1>2. CASE old.source \in live
  <2>1. request' = [request EXCEPT ![r] = q]
    BY <1>2 DEF Authorize, MayRead, ExplainInv
  <2> HIDE DEF old
  <2>2. q \in RequestState
    BY <1>0 DEF RequestState, Steps
  <2>3. /\ q.pc = "checking" /\ q.source = old.source /\ q.outcome = old.outcome
        /\ q.seenLive = old.seenLive /\ q.about = old.about /\ q.faulty = old.faulty
    BY <1>0 DEF RequestState
  <2> HIDE DEF q
  <2>4. RequestSound(q, live)
    BY <1>0, <1>2, <2>3 DEF RequestSound, Explaining
  <2> QED BY <1>1, <2>1, <2>2, <2>4, RequestStepSound
<1>3. CASE old.source \notin live
  <2>1. Answer(r, "source_forbidden", {})
    BY <1>3 DEF Authorize, MayRead
  <2> QED BY <1>0, <1>1, <2>1, AnswerSound
          DEF Grounded, Verdict, Owner
<1> QED BY <1>2, <1>3

LEMMA CheckHistorySound ==
  ASSUME ExplainInv, NEW r \in Request, CheckHistory(r)
  PROVE  ExplainInv'
<1> DEFINE old == request[r]
           q == [old EXCEPT !.pc = "checked"]
<1>0. old \in RequestState /\ RequestSound(old, live) /\ old.pc = "checking"
  BY DEF ExplainInv, CheckHistory, At
<1>1. UNCHANGED <<live, observers, fed>> /\ CacheSound'
  BY DEF CheckHistory, ExplainInv, CacheSound
<1>2. ASSUME NEW outcome \in {"not_found", "invalid_history"}, Answer(r, outcome, {})
      PROVE  ExplainInv'
  BY <1>0, <1>1, <1>2, AnswerSound DEF Grounded, Verdict, Owner
<1>3. CASE request' = [request EXCEPT ![r].pc = "checked"]
  <2>1. request' = [request EXCEPT ![r] = q]
    BY <1>3 DEF ExplainInv
  <2> HIDE DEF old
  <2>2. q \in RequestState
    BY <1>0 DEF RequestState, Steps
  <2>3. /\ q.pc = "checked" /\ q.source = old.source /\ q.outcome = old.outcome
        /\ q.seenLive = old.seenLive /\ q.about = old.about /\ q.faulty = old.faulty
    BY <1>0 DEF RequestState
  <2> HIDE DEF q
  <2>4. RequestSound(q, live)
    BY <1>0, <2>3 DEF RequestSound, Explaining
  <2> QED BY <1>1, <2>1, <2>2, <2>4, RequestStepSound
<1> QED BY <1>2, <1>3 DEF CheckHistory

LEMMA ReadCacheSound ==
  ASSUME ExplainInv, NEW r \in Request, ReadCache(r)
  PROVE  ExplainInv'
<1> DEFINE old == request[r]
           hit == cache[old.source]
           step == IF old.source = Unknown THEN "resolving" ELSE "explaining"
           q == [old EXCEPT !.pc = step, !.context = old.source]
<1>0. old \in RequestState /\ RequestSound(old, live) /\ old.pc = "checked"
  BY DEF ExplainInv, ReadCache, At
<1>1. UNCHANGED <<live, observers, fed>> /\ CacheSound'
  BY DEF ReadCache, ExplainInv, CacheSound
<1>2. old.source \in Owner
  BY <1>0 DEF RequestSound
<1>3. CASE hit # None
  <2>1. Answer(r, "explained", hit)
    BY <1>3 DEF ReadCache, CacheKey
  <2>2. hit \in SUBSET Owner /\ Grounded(old.source, hit)
    BY <1>2, <1>3 DEF ExplainInv, CacheSound
  <2> HIDE DEF hit
  <2> QED BY <1>0, <1>1, <2>1, <2>2, AnswerSound DEF Verdict
<1>4. CASE hit = None
  <2>1. request' = [request EXCEPT ![r] = q]
    BY <1>4 DEF ReadCache, CacheKey, ExplainInv
  <2> HIDE DEF old
  <2>2. q \in RequestState
    BY <1>0, <1>2 DEF RequestState, Steps
  <2>3. /\ q.pc = step /\ q.source = old.source /\ q.outcome = old.outcome
        /\ q.context = old.source
        /\ q.seenLive = old.seenLive /\ q.about = old.about /\ q.faulty = old.faulty
    BY <1>0 DEF RequestState
  <2> HIDE DEF q
  <2>4. RequestSound(q, live)
    BY <1>0, <1>2, <2>3 DEF RequestSound, Explaining
  <2> QED BY <1>1, <2>1, <2>2, <2>4, RequestStepSound
<1> QED BY <1>3, <1>4

LEMMA ResolveAgainSound ==
  ASSUME ExplainInv, NEW r \in Request, ResolveAgain(r)
  PROVE  ExplainInv'
<1> DEFINE old == request[r]
           context == IF Resolved \in Owner THEN Resolved ELSE None
           step == IF Resolved \in Owner THEN "explaining" ELSE "written"
           q == [old EXCEPT !.context = context, !.pc = step]
<1>0. old \in RequestState /\ RequestSound(old, live) /\ old.pc = "resolving"
  BY DEF ExplainInv, ResolveAgain, At
<1>1. UNCHANGED <<live, observers, fed>> /\ CacheSound'
  BY DEF ResolveAgain, ExplainInv, CacheSound
<1>2. request' = [request EXCEPT ![r] = q]
  BY DEF ResolveAgain, ExplainInv
<1>3. \/ context \in Owner /\ step = "explaining"
      \/ context = None /\ step = "written"
  BY Zenon
<1> HIDE DEF old, context, step
<1>4. q \in RequestState
  BY <1>0, <1>3 DEF RequestState, Steps
<1>5. /\ q.pc = step /\ q.source = old.source /\ q.outcome = old.outcome
      /\ q.context = context
      /\ q.seenLive = old.seenLive /\ q.about = old.about /\ q.faulty = old.faulty
  BY <1>0 DEF RequestState
<1> HIDE DEF q
<1>6. RequestSound(q, live)
  BY <1>0, <1>3, <1>5, ExplanationsAssumption DEF RequestSound, Explaining
<1> QED BY <1>1, <1>2, <1>4, <1>6, RequestStepSound

LEMMA BuildPromptSound ==
  ASSUME ExplainInv, NEW r \in Request, BuildPrompt(r)
  PROVE  ExplainInv'
<1> DEFINE old == request[r]
           about == IF apiKey THEN Context(old.context) ELSE old.about
           step == IF apiKey THEN "prompted" ELSE "falling back"
           q == IF apiKey THEN [old EXCEPT !.pc = "prompted", !.about = about]
                ELSE [old EXCEPT !.pc = "falling back"]
<1>0. old \in RequestState /\ RequestSound(old, live) /\ old.pc = "explaining"
  BY DEF ExplainInv, BuildPrompt, At
<1>1. UNCHANGED <<live, observers, fed>> /\ CacheSound'
  BY DEF BuildPrompt, ExplainInv, CacheSound
<1>2. request' = [request EXCEPT ![r] = q]
  BY DEF BuildPrompt, ExplainInv
<1>3. old.context \in Owner /\ old.source \in {old.context, Unknown}
  BY <1>0 DEF RequestSound, Explaining
<1>4. about \in SUBSET Owner /\ Grounded(old.source, about)
  <2>1. Context(old.context) \in SUBSET Owner /\ Grounded(old.context, Context(old.context))
    BY <1>3, ContextIsGrounded
  <2>2. old.about \in SUBSET Owner /\ Grounded(old.source, old.about)
    BY <1>0 DEF RequestState, RequestSound
  <2> HIDE DEF old
  <2> QED BY <1>3, <2>1, <2>2, ExplanationsAssumption DEF Grounded
<1> HIDE DEF old, about
<1>5. q \in RequestState
  BY <1>0, <1>4 DEF RequestState, Steps
<1>6. /\ q.pc = step /\ q.source = old.source /\ q.outcome = old.outcome
      /\ q.context = old.context /\ q.seenLive = old.seenLive
      /\ q.about \in {about, old.about} /\ q.faulty = old.faulty
  BY <1>0 DEF RequestState
<1>7. Grounded(old.source, q.about)
  BY <1>0, <1>4, <1>6 DEF RequestSound
<1> HIDE DEF q
<1>8. RequestSound(q, live)
  BY <1>0, <1>3, <1>6, <1>7 DEF RequestSound, Explaining
<1> QED BY <1>1, <1>2, <1>5, <1>8, RequestStepSound

LEMMA NimSound ==
  ASSUME ExplainInv, NEW r \in Request,
         \/ \E readable \in BOOLEAN : NimAnswers(r, readable)
         \/ NimUnreachable(r) \/ NimRefuses(r)
  PROVE  ExplainInv'
<1> DEFINE old == request[r]
           q(step, tries) == [old EXCEPT !.pc = step, !.tries = tries]
<1>0. old \in RequestState /\ RequestSound(old, live) /\ old.pc = "prompted"
  BY DEF ExplainInv, NimAnswers, NimUnreachable, NimRefuses, At
<1>1. UNCHANGED <<live, observers, fed>> /\ CacheSound'
  BY DEF NimAnswers, NimUnreachable, NimRefuses, ExplainInv, CacheSound
<1>2. PICK step \in {"prompted", "written", "falling back"}, tries \in 0 .. MaxTries - 1 :
        request' = [request EXCEPT ![r] = q(step, tries)]
  <2>0. old.tries \in 0 .. MaxTries - 1 /\ old.tries \in Nat
    BY <1>0 DEF RequestState, MaxTries
  <2>1. ASSUME NEW readable \in BOOLEAN, NimAnswers(r, readable)
        PROVE  \E step \in {"prompted", "written", "falling back"}, tries \in 0 .. MaxTries - 1 :
                 request' = [request EXCEPT ![r] = q(step, tries)]
    <3>1. request' = [request EXCEPT ![r] =
                        q(IF readable THEN "written" ELSE "falling back", old.tries)]
      BY <2>1, <1>0 DEF NimAnswers, ExplainInv, RequestState
    <3> QED BY <2>0, <3>1
  <2>2. CASE NimUnreachable(r)
    <3>1. request' = [request EXCEPT ![r] =
                        q(IF GiveUp(old.tries) THEN "falling back" ELSE old.pc,
                          (old.tries + 1) % MaxTries)]
      BY <2>2, <1>0 DEF NimUnreachable, ExplainInv, RequestState
    <3>2. (old.tries + 1) % MaxTries \in 0 .. MaxTries - 1
      BY <2>0 DEF MaxTries
    <3> HIDE DEF q
    <3> QED BY <1>0, <3>1, <3>2
  <2>3. CASE NimRefuses(r)
    <3>1. request' = [request EXCEPT ![r] = q("falling back", old.tries)]
      BY <2>3, <1>0 DEF NimRefuses, Caught, ExplainInv, RequestState
    <3> QED BY <2>0, <3>1
  <2> QED BY <2>1, <2>2, <2>3
<1> DEFINE n == q(step, tries)
<1> HIDE DEF old
<1>3. n \in RequestState
  BY <1>0, <1>2 DEF RequestState, Steps
<1>4. /\ n.pc = step /\ n.source = old.source /\ n.outcome = old.outcome
      /\ n.context = old.context
      /\ n.seenLive = old.seenLive /\ n.about = old.about /\ n.faulty = old.faulty
  BY <1>0 DEF RequestState
<1>5. request' = [request EXCEPT ![r] = n]
  BY <1>2
<1> HIDE DEF n, q
<1>6. RequestSound(n, live)
  BY <1>0, <1>2, <1>4 DEF RequestSound, Explaining
<1> QED BY <1>1, <1>3, <1>5, <1>6, RequestStepSound

LEMMA FallBackSound ==
  ASSUME ExplainInv, NEW r \in Request, FallBack(r)
  PROVE  ExplainInv'
<1> DEFINE old == request[r]
           about == {old.context}
           q == [old EXCEPT !.pc = "written", !.about = about]
<1>0. old \in RequestState /\ RequestSound(old, live) /\ old.pc = "falling back"
  BY DEF ExplainInv, FallBack, At
<1>1. UNCHANGED <<live, observers, fed>> /\ CacheSound'
  BY DEF FallBack, ExplainInv, CacheSound
<1>2. request' = [request EXCEPT ![r] = q]
  BY DEF FallBack, RuleContext, ExplainInv
<1>3. old.context \in Owner /\ old.source \in {old.context, Unknown}
  BY <1>0 DEF RequestSound, Explaining
<1> HIDE DEF old
<1>4. about \in SUBSET Owner /\ Grounded(old.source, about)
  BY <1>3, ExplanationsAssumption DEF Grounded
<1> HIDE DEF about
<1>5. q \in RequestState
  BY <1>0, <1>4 DEF RequestState, Steps
<1>6. /\ q.pc = "written" /\ q.source = old.source /\ q.outcome = old.outcome
      /\ q.seenLive = old.seenLive /\ q.about = about /\ q.faulty = old.faulty
  BY <1>0 DEF RequestState
<1> HIDE DEF q
<1>7. RequestSound(q, live)
  BY <1>0, <1>4, <1>6 DEF RequestSound, Explaining
<1> QED BY <1>1, <1>2, <1>5, <1>7, RequestStepSound

LEMMA SaveSound ==
  ASSUME ExplainInv, NEW r \in Request, Save(r)
  PROVE  ExplainInv'
<1> DEFINE old == request[r]
<1>0. old \in RequestState /\ RequestSound(old, live) /\ old.pc = "written"
  BY DEF ExplainInv, Save, At
<1>1. UNCHANGED <<live, observers, fed>> /\ Answer(r, "explained", old.about)
  BY DEF Save
<1>2. old.about \in SUBSET Owner /\ Grounded(old.source, old.about) /\ old.source \in Owner
  BY <1>0 DEF RequestState, RequestSound
<1>3. cache' = [cache EXCEPT ![old.source] = old.about]
  BY DEF Save, CacheKey
<1>4. CacheSound'
  <2> HIDE DEF old
  <2> QED BY <1>2, <1>3 DEF ExplainInv, CacheSound, Grounded
<1> QED BY <1>0, <1>1, <1>2, <1>4, AnswerSound DEF Verdict

LEMMA StoreFailsSound ==
  ASSUME ExplainInv, NEW r \in Request, StoreFails(r)
  PROVE  ExplainInv'
<1> DEFINE old == request[r]
<1>0. old \in RequestState /\ RequestSound(old, live) /\ old.pc # "idle"
  BY DEF ExplainInv, StoreFails, At
<1>1. UNCHANGED <<live, observers, fed>> /\ CacheSound'
  BY DEF StoreFails, ExplainInv, CacheSound
<1>2. CASE old.pc = "explaining" /\ apiKey
  <2> DEFINE q == [old EXCEPT !.pc = "falling back", !.faulty = TRUE]
  <2>1. request' = [request EXCEPT ![r] = q]
    BY <1>2 DEF StoreFails, At, ExplainInv
  <2> HIDE DEF old
  <2>2. q \in RequestState
    BY <1>0 DEF RequestState, Steps
  <2>3. /\ q.pc = "falling back" /\ q.source = old.source /\ q.outcome = old.outcome
        /\ q.context = old.context /\ q.seenLive = old.seenLive /\ q.about = old.about
        /\ q.faulty
    BY <1>0 DEF RequestState
  <2> HIDE DEF q
  <2>4. RequestSound(q, live)
    BY <1>0, <1>2, <2>3 DEF RequestSound, Explaining
  <2> QED BY <1>1, <2>1, <2>2, <2>4, RequestStepSound
<1>3. CASE ~(old.pc = "explaining" /\ apiKey)
  <2> DEFINE q == [NoRequest EXCEPT !.source = old.source, !.seenLive = old.seenLive,
                     !.faulty = TRUE, !.outcome = "error"]
  <2>1. request' = [request EXCEPT ![r] = q]
    BY <1>3 DEF StoreFails, At
  <2> HIDE DEF old
  <2>2. NoRequest \in RequestState
    BY DEF NoRequest, RequestState, Steps, Verdict, MaxTries
  <2>3. q \in RequestState
    BY <1>0, <2>2 DEF RequestState, Verdict
  <2>4. /\ q.pc = "idle" /\ q.source = old.source /\ q.outcome = "error"
        /\ q.about = {} /\ q.faulty
    BY <2>2 DEF NoRequest, RequestState
  <2> HIDE DEF q
  <2>5. RequestSound(q, live)
    BY <2>4 DEF RequestSound, Explaining, Grounded
  <2> QED BY <1>1, <2>1, <2>3, <2>5, RequestStepSound
<1> QED BY <1>2, <1>3

LEMMA ExplainStep == ExplainInv /\ [ExplainNext]_explainVars => ExplainInv'
<1> SUFFICES ASSUME ExplainInv, [ExplainNext]_explainVars PROVE ExplainInv'
  OBVIOUS
<1>1. CASE UNCHANGED explainVars
  BY <1>1 DEF ExplainInv, CacheSound, explainVars
<1>2. ASSUME NEW s \in Source, Switch(s) PROVE ExplainInv'
  BY <1>2, SwitchSound
<1>3. ASSUME NEW o \in Owner, Expire(o) PROVE ExplainInv'
  <2>1. CacheSound'
    BY <1>3 DEF Expire, ExplainInv, CacheSound, Grounded
  <2> QED BY <1>3, <2>1 DEF Expire, ExplainInv
<1>4. ASSUME NEW r \in Request, Handle(r) PROVE ExplainInv'
  BY <1>4, AuthorizeSound, CheckHistorySound, ReadCacheSound, ResolveAgainSound,
     BuildPromptSound, NimSound, FallBackSound, SaveSound, StoreFailsSound DEF Handle
<1>5. ASSUME NEW r \in Request, NEW chosen \in Source \cup {None}, AskWhy(r, chosen)
      PROVE  ExplainInv'
  BY <1>5, AskWhySound
<1> QED BY <1>1, <1>2, <1>3, <1>4, <1>5 DEF ExplainNext

LEMMA ExplainInvIsSound == ExplainInv => ExplanationsAreSound
<1> SUFFICES ASSUME ExplainInv PROVE ExplanationsAreSound
  OBVIOUS
<1>1. \A r \in Request : request[r] \in RequestState /\ RequestSound(request[r], live)
  BY DEF ExplainInv
<1>2. ExplainTypeOK
  BY <1>1 DEF ExplainInv, ExplainTypeOK, CacheSound, RequestState, MaxTries
<1>3. GroundedInItsSource
  BY <1>1 DEF GroundedInItsSource, RequestSound, Grounded
<1>4. GoneSourcesAreSilent
  BY <1>1 DEF GoneSourcesAreSilent, RequestSound
<1>5. OnlyTheStoreFails
  BY <1>1 DEF OnlyTheStoreFails, RequestSound
<1> QED BY <1>2, <1>3, <1>4, <1>5 DEF ExplanationsAreSound

\* Explanations: what is said of a connection's observation rests on its own
\* data (at most with results nobody else contributed to), also when it comes
\* from the cache or from the fall-back; it is said only of a connection that
\* was live while the request was under way; and a request fails only when the
\* store did.
THEOREM ExplanationsAreAlwaysSound == ExplainSpec => []ExplanationsAreSound
<1>1. ExplainSpec => []ExplainInv
  BY ExplainInitially, ExplainStep, PTL DEF ExplainSpec
<1> QED BY <1>1, ExplainInvIsSound, PTL

------------------------------------------------------------------------------
\* Alerts

Config == [chat: Chat, throttle: Throttle, readable: BOOLEAN]

\* What an alert is about: a drift, by its time, or a change-point, by its number.
Occurrence == [project: Project, at: Nat]

Attempt ==
  [project: Project, kind: Kind, chat: Chat, at: 0 .. MaxNow, about: SUBSET Occurrence,
   outcome: Outcome, throttle: Throttle, audited: BOOLEAN, counted: BOOLEAN]

AtProject == {"reading", "notifying", "sending", "sent", "recorded"}

JobState ==
  [pc: {"idle", "preparing", "visiting"} \cup AtProject, left: SUBSET Project,
   project: Project \cup {None}, config: Config \cup {None},
   todo: SUBSET SUBSET Occurrence, batch: SUBSET Occurrence, since: 0 .. MaxNow]

\* A job has the settings of the project it is at.
HasSettings(j) ==
  /\ j.config # None <=> j.project # None
  /\ j.pc \in AtProject => j.config # None

AlertsState ==
  /\ now \in 0 .. MaxNow /\ due \in Nat /\ due >= now
  /\ config \in [Project -> Config \cup {None}]
  /\ drifts \subseteq [project: Project, at: 0 .. MaxNow]
  /\ points \in [Project -> Nat]
  /\ throttle \in [Project -> [Kind -> {None} \cup 0 .. MaxNow]]
  /\ \A p \in Project, k \in Kind : throttle[p][k] # None => throttle[p][k] <= now
  /\ job \in [Kind -> JobState]
  /\ \A k \in Kind : HasSettings(job[k])
  /\ attempts \in Seq(Attempt)
  /\ edits \in 0 .. MaxEdits /\ faults \in 0 .. MaxFaults
  /\ chats \in [Project -> SUBSET Chat] /\ settled \in [Project -> 0 .. MaxNow]
  /\ longest \in Int /\ shortest \in Int /\ shortest <= Interval

\* What a step of a job changes of it.
Moves(k, n) ==
  /\ n \in JobState /\ HasSettings(n)
  /\ job' = [job EXCEPT ![k] = n]

LEMMA IdleIsAState == JobIdle \in JobState /\ HasSettings(JobIdle)
  BY AlertsAssumption DEF JobIdle, JobState, AtProject, HasSettings

LEMMA StartMoves ==
  ASSUME AlertsState, NEW k \in Kind, Start(k)
  PROVE  \E n : /\ Moves(k, n) /\ n.pc = "preparing" /\ n.since = now /\ n.todo = {}
                /\ n.config = None /\ n.left = {}
<1> DEFINE n == [JobIdle EXCEPT !.pc = "preparing", !.since = now]
<1>1. now \in 0 .. MaxNow /\ job' = [job EXCEPT ![k] = n]
  BY DEF AlertsState, Start
<1>3. n \in JobState
  BY <1>1, IdleIsAState DEF JobState
<1>4. /\ n.pc = "preparing" /\ n.since = now /\ n.todo = {} /\ n.left = {}
      /\ n.config = None /\ n.project = None
  BY IdleIsAState DEF JobState, JobIdle
<1> HIDE DEF n
<1>5. HasSettings(n)
  BY <1>4 DEF HasSettings, AtProject
<1> QED BY <1>1, <1>3, <1>4, <1>5 DEF Moves

LEMMA ListMoves ==
  ASSUME AlertsState, NEW k \in Kind, ListProjects(k)
  PROVE  \E n : /\ Moves(k, n) /\ n.pc = "visiting" /\ n.since = job[k].since
                /\ n.todo = job[k].todo /\ n.config = job[k].config
                /\ n.project = job[k].project
                /\ n.left = {Legacy} \cup {p \in Project : config[p] # None}
<1> DEFINE old == job[k]
           left == {Legacy} \cup {p \in Project : config[p] # None}
           n == [old EXCEPT !.pc = "visiting", !.left = left]
<1>0. old \in JobState /\ HasSettings(old)
  BY DEF AlertsState
<1>1. left \in SUBSET Project
  BY AlertsAssumption
<1>2. job' = [job EXCEPT ![k] = n]
  BY DEF ListProjects, AlertsState
<1> HIDE DEF old, left
<1>3. n \in JobState
  BY <1>0, <1>1 DEF JobState
<1>4. /\ n.pc = "visiting" /\ n.since = old.since /\ n.left = left
      /\ n.project = old.project /\ n.config = old.config /\ n.todo = old.todo
  BY <1>0 DEF JobState
<1> HIDE DEF n
<1>5. HasSettings(n)
  BY <1>0, <1>4 DEF HasSettings, AtProject
<1> QED BY <1>2, <1>3, <1>4, <1>5 DEF Moves, old, left

\* The change-points that a detection has stored are numbered.
LEMMA StoredOccurrences ==
  ASSUME AlertsState, points' \in [Project -> Nat], NEW p \in Project
  PROVE  Stored(p) \in SUBSET SUBSET Occurrence
<1>1. points[p] \in Nat /\ points'[p] \in Nat
  BY DEF AlertsState
<1>2. \A i \in points[p] + 1 .. points'[p] : i \in Nat
  BY <1>1
<1> QED BY <1>2 DEF Stored, Occurrence

LEMMA DetectCounts ==
  ASSUME AlertsState, NEW p \in Project, Detect(p) \/ points' = points
  PROVE  points' \in [Project -> Nat]
  BY DEF AlertsState, Detect

LEMMA VisitMoves ==
  ASSUME AlertsState, NEW k \in Kind, NEW p \in Project, Visit(k, p)
  PROVE  \E n : /\ Moves(k, n) /\ n.since = job[k].since /\ n.left = job[k].left \ {p}
                /\ \/ /\ Loaded(p) = None \/ ~Looks(k, p)
                      /\ n.pc = "visiting" /\ n.project = job[k].project
                      /\ n.config = job[k].config /\ n.todo = job[k].todo
                   \/ /\ Loaded(p) # None /\ Looks(k, p) /\ n.project = p /\ n.config = Loaded(p)
                      /\ k = "schema_drift" => n.pc = "reading" /\ n.todo = {}
                      /\ k = "changepoint" => n.pc = "notifying"
<1>0. job[k] \in JobState /\ HasSettings(job[k]) /\ job[k].pc = "visiting" /\ p \in job[k].left
  BY DEF AlertsState, Visit, JobAt
<1>1. points' \in [Project -> Nat]
  BY DetectCounts DEF Visit
<1> DEFINE old == job[k]
           todo == IF k = "changepoint" THEN Stored(p) ELSE {}
           pc == IF k = "changepoint" THEN "notifying" ELSE "reading"
           loaded == Loaded(p)
           skipped == [old EXCEPT !.left = @ \ {p}]
           found == [old EXCEPT !.left = @ \ {p}, !.project = p, !.config = loaded,
                                !.todo = todo, !.pc = pc]
<1>r. job' = [job EXCEPT ![k] = IF loaded = None \/ ~Looks(k, p) THEN skipped ELSE found]
  BY Zenon DEF Visit, Found
<1> HIDE DEF skipped, found
<1>2. CASE loaded = None \/ ~Looks(k, p)
  <2> DEFINE n == skipped
  <2>1. job' = [job EXCEPT ![k] = n]
    BY <1>2, <1>r
  <2> USE DEF skipped
  <2> HIDE DEF old
  <2>2. n \in JobState
    BY <1>0 DEF JobState, old
  <2>3. /\ n.pc = "visiting" /\ n.since = old.since /\ n.left = old.left \ {p}
        /\ n.project = old.project /\ n.config = old.config /\ n.todo = old.todo
    BY <1>0 DEF JobState, old
  <2> HIDE DEF n
  <2>4. HasSettings(n)
    BY <1>0, <2>3 DEF HasSettings, AtProject, old
  <2> QED BY <1>2, <2>1, <2>2, <2>3, <2>4 DEF Moves, old
<1>3. CASE loaded # None /\ Looks(k, p)
  <2> DEFINE n == found
  <2>1. job' = [job EXCEPT ![k] = n]
    BY <1>3, <1>r
  <2>2. todo \in SUBSET SUBSET Occurrence
    BY <1>1, StoredOccurrences
  <2>3. loaded \in Config
    BY <1>3 DEF Loaded, AlertsState
  <2>4. pc \in AtProject
    BY DEF AtProject
  <2> USE DEF found
  <2> HIDE DEF old, todo, pc, loaded
  <2>5. n \in JobState
    BY <1>0, <2>2, <2>3, <2>4 DEF JobState, old
  <2>6. /\ n.pc = pc /\ n.since = old.since /\ n.left = old.left \ {p}
        /\ n.project = p /\ n.config = loaded /\ n.todo = todo
    BY <1>0 DEF JobState, old
  <2> HIDE DEF n
  <2>7. HasSettings(n)
    BY <1>3, <2>6, AlertsAssumption DEF HasSettings, loaded
  <2>8. /\ k = "schema_drift" => n.pc = "reading" /\ n.todo = {}
        /\ k = "changepoint" => n.pc = "notifying"
    BY <2>6 DEF pc, todo
  <2> QED BY <1>3, <2>1, <2>5, <2>6, <2>7, <2>8 DEF Moves, old, loaded
<1> QED BY <1>2, <1>3

\* The alert about the drifts in the window, if there are any.
Seen(k) == {d \in drifts : d.project = job[k].project /\ InWindow(d)}

LEMMA ReadDriftsMoves ==
  ASSUME AlertsState, NEW k \in Kind, ReadDrifts(k)
  PROVE  \E n : /\ Moves(k, n) /\ n.pc = "notifying"
                /\ n.todo = (IF Seen(k) = {} THEN {} ELSE {Seen(k)})
                /\ n.left = job[k].left /\ n.project = job[k].project
                /\ n.config = job[k].config /\ n.since = job[k].since
<1> DEFINE old == job[k]
           todo == IF Seen(k) = {} THEN {} ELSE {Seen(k)}
           n == [old EXCEPT !.pc = "notifying", !.todo = todo]
<1>0. old \in JobState /\ HasSettings(old) /\ old.pc = "reading"
  BY DEF AlertsState, ReadDrifts, JobAt
<1>1. todo \in SUBSET SUBSET Occurrence
  <2>1. Seen(k) \subseteq drifts /\ \A x \in 0 .. MaxNow : x \in Nat
    BY DEF Seen
  <2>2. \A d \in drifts : d \in Occurrence
    BY <2>1 DEF AlertsState, Occurrence
  <2> QED BY <2>1, <2>2
<1>2. job' = [job EXCEPT ![k] = n]
  BY DEF ReadDrifts, AlertsState, Seen
<1> HIDE DEF old, todo
<1>3. n \in JobState
  BY <1>0, <1>1 DEF JobState, AtProject
<1>4. /\ n.pc = "notifying" /\ n.since = old.since /\ n.left = old.left
      /\ n.project = old.project /\ n.config = old.config /\ n.todo = todo
  BY <1>0 DEF JobState
<1> HIDE DEF n
<1>5. HasSettings(n)
  BY <1>0, <1>4 DEF HasSettings, AtProject
<1> QED BY <1>2, <1>3, <1>4, <1>5 DEF Moves, old, todo

LEMMA ChooseMoves ==
  ASSUME AlertsState, NEW k \in Kind, NEW batch, Choose(k, batch)
  PROVE  \E n : /\ Moves(k, n)
                /\ n.pc = (IF Throttled(k) THEN "notifying" ELSE "sending")
                /\ n.todo = job[k].todo \ {batch} /\ n.batch = batch
                /\ n.left = job[k].left /\ n.project = job[k].project
                /\ n.config = job[k].config /\ n.since = job[k].since
<1> DEFINE old == job[k]
           pc == IF Throttled(k) THEN "notifying" ELSE "sending"
           n == [old EXCEPT !.todo = @ \ {batch}, !.batch = batch, !.pc = pc]
<1>0. old \in JobState /\ HasSettings(old) /\ old.pc = "notifying" /\ batch \in old.todo
  BY DEF AlertsState, Choose, JobAt
<1>1. pc \in {"notifying", "sending"}
  BY Zenon
<1>2. job' = [job EXCEPT ![k] = n]
  BY DEF Choose, AlertsState
<1> HIDE DEF old, pc
<1>3. n \in JobState
  BY <1>0, <1>1 DEF JobState, AtProject
<1>4. /\ n.pc = pc /\ n.since = old.since /\ n.left = old.left /\ n.batch = batch
      /\ n.project = old.project /\ n.config = old.config /\ n.todo = old.todo \ {batch}
  BY <1>0 DEF JobState
<1> HIDE DEF n
<1>5. HasSettings(n)
  BY <1>0, <1>4 DEF HasSettings, AtProject
<1> QED BY <1>2, <1>3, <1>4, <1>5 DEF Moves, old, pc

\* A job that stays at its project and goes to another step.
LEMMA StepMoves ==
  ASSUME AlertsState, NEW k \in Kind, NEW pc \in AtProject, job[k].pc \in AtProject,
         job' = [job EXCEPT ![k].pc = pc]
  PROVE  \E n : /\ Moves(k, n) /\ n.pc = pc
                /\ n.todo = job[k].todo /\ n.batch = job[k].batch
                /\ n.left = job[k].left /\ n.project = job[k].project
                /\ n.config = job[k].config /\ n.since = job[k].since
<1> DEFINE old == job[k]
           n == [old EXCEPT !.pc = pc]
<1>0. old \in JobState /\ HasSettings(old)
  BY DEF AlertsState
<1>2. job' = [job EXCEPT ![k] = n]
  BY DEF AlertsState
<1> HIDE DEF old
<1>3. n \in JobState
  BY <1>0 DEF JobState
<1>4. /\ n.pc = pc /\ n.since = old.since /\ n.left = old.left /\ n.batch = old.batch
      /\ n.project = old.project /\ n.config = old.config /\ n.todo = old.todo
  BY <1>0 DEF JobState
<1> HIDE DEF n
<1>5. HasSettings(n)
  BY <1>0, <1>4 DEF HasSettings, old
<1> QED BY <1>2, <1>3, <1>4, <1>5 DEF Moves, old

LEMMA ProceedMoves ==
  ASSUME AlertsState, NEW k \in Kind, Proceed(k)
  PROVE  \E n : /\ Moves(k, n)
                /\ \/ /\ n.pc = "idle" /\ job[k].pc = "visiting" /\ job[k].left = {}
                      /\ n.config = None /\ n.todo = {}
                   \/ /\ n.pc = "visiting" /\ job[k].pc = "notifying" /\ job[k].todo = {}
                      /\ n.todo = {} /\ n.left = job[k].left /\ n.project = job[k].project
                      /\ n.config = job[k].config /\ n.since = job[k].since
<1> DEFINE old == job[k]
           n == [old EXCEPT !.pc = "visiting", !.batch = {}]
<1>0. old \in JobState /\ HasSettings(old)
  BY DEF AlertsState
<1>r. job' = [job EXCEPT ![k] = IF old.pc = "visiting" THEN JobIdle ELSE n]
  BY DEF Proceed, AlertsState
<1>1. CASE old.pc = "visiting"
  <2>1. old.left = {}
    BY <1>1 DEF Proceed, JobAt
  <2>2. JobIdle.pc = "idle" /\ JobIdle.config = None /\ JobIdle.todo = {}
    BY DEF JobIdle
  <2>3. job' = [job EXCEPT ![k] = JobIdle]
    BY <1>1, <1>r
  <2> QED BY <1>1, <2>1, <2>2, <2>3, IdleIsAState DEF Moves
<1>2. CASE old.pc # "visiting"
  <2>1. old.pc = "notifying" /\ old.todo = {}
    BY <1>2 DEF Proceed, JobAt
  <2>2. job' = [job EXCEPT ![k] = n]
    BY <1>2, <1>r
  <2> HIDE DEF old
  <2>3. n \in JobState
    BY <1>0 DEF JobState
  <2>4. /\ n.pc = "visiting" /\ n.since = old.since /\ n.left = old.left
        /\ n.project = old.project /\ n.config = old.config /\ n.todo = old.todo
    BY <1>0 DEF JobState
  <2> HIDE DEF n
  <2>5. HasSettings(n)
    BY <1>0, <2>4 DEF HasSettings, AtProject
  <2> QED BY <2>1, <2>2, <2>3, <2>4, <2>5 DEF Moves, old
<1> QED BY <1>1, <1>2

\* The latest attempt of a job is the only one that none of its kind follows.
IsLatest(k, i) ==
  /\ i \in DOMAIN attempts /\ attempts[i].kind = k
  /\ \A j \in DOMAIN attempts : j > i => attempts[j].kind # k

LEMMA LatestIsTheOnlyOne ==
  ASSUME AlertsState, NEW k \in Kind, NEW i, IsLatest(k, i)
  PROVE  Latest(k) = i
<1>1. Len(attempts) \in Nat /\ DOMAIN attempts = 1 .. Len(attempts)
  BY DEF AlertsState
<1>2. \A j \in DOMAIN attempts :
        (attempts[j].kind = k /\ \A m \in j + 1 .. Len(attempts) : attempts[m].kind # k)
          <=> j = i
  <2>1. ASSUME NEW j \in DOMAIN attempts, attempts[j].kind = k,
               \A m \in j + 1 .. Len(attempts) : attempts[m].kind # k
        PROVE  j = i
    BY <1>1, <2>1 DEF IsLatest
  <2>2. \A m \in i + 1 .. Len(attempts) : attempts[m].kind # k
    BY <1>1 DEF IsLatest
  <2> QED BY <2>1, <2>2 DEF IsLatest
<1>3. i \in DOMAIN attempts
  BY DEF IsLatest
<1> QED BY <1>2, <1>3 DEF Latest

\* An attempt that was made stays what it was, but for its audit and for
\* whether the throttle counts from it.
Kept(i) ==
  /\ attempts'[i].project = attempts[i].project /\ attempts'[i].kind = attempts[i].kind
  /\ attempts'[i].chat = attempts[i].chat /\ attempts'[i].at = attempts[i].at
  /\ attempts'[i].about = attempts[i].about /\ attempts'[i].outcome = attempts[i].outcome
  /\ attempts'[i].throttle = attempts[i].throttle

LEMMA SendAppends ==
  ASSUME AlertsState, NEW k \in Kind, NEW outcome \in Outcome, Send(k, outcome)
  PROVE  /\ attempts' \in Seq(Attempt)
         /\ DOMAIN attempts' = DOMAIN attempts \cup {Len(attempts) + 1}
         /\ Len(attempts) \in Nat /\ DOMAIN attempts = 1 .. Len(attempts)
         /\ \A i \in DOMAIN attempts : attempts'[i] = attempts[i]
         /\ \E a \in Attempt :
              /\ attempts'[Len(attempts) + 1] = a
              /\ a.project = job[k].project /\ a.kind = k /\ a.chat = job[k].config.chat
              /\ a.at = now /\ a.about = job[k].batch /\ a.outcome = outcome
              /\ a.throttle = job[k].config.throttle /\ ~a.counted
<1> DEFINE a == [project |-> job[k].project, kind |-> k, chat |-> job[k].config.chat,
                 at |-> now, about |-> job[k].batch, outcome |-> outcome,
                 throttle |-> job[k].config.throttle, audited |-> FALSE, counted |-> FALSE]
<1>0. job[k] \in JobState /\ HasSettings(job[k]) /\ job[k].pc = "sending"
  BY DEF AlertsState, Send, JobAt
<1>1. job[k].config \in Config /\ job[k].project \in Project /\ job[k].batch \in SUBSET Occurrence
  BY <1>0 DEF HasSettings, AtProject, JobState
<1>2. job[k].config.chat \in Chat /\ job[k].config.throttle \in Throttle
  BY <1>1 DEF Config
<1>3. a \in Attempt
  BY <1>1, <1>2 DEF AlertsState, Attempt
<1>4. attempts' = Append(attempts, a)
  BY DEF Send
<1>5. /\ a.project = job[k].project /\ a.kind = k /\ a.chat = job[k].config.chat
      /\ a.at = now /\ a.about = job[k].batch /\ a.outcome = outcome
      /\ a.throttle = job[k].config.throttle /\ ~a.counted
  OBVIOUS
<1> HIDE DEF a
<1>6. attempts \in Seq(Attempt) /\ Len(attempts) \in Nat /\ DOMAIN attempts = 1 .. Len(attempts)
  BY DEF AlertsState
<1>7. /\ attempts' \in Seq(Attempt) /\ Len(attempts') = Len(attempts) + 1
      /\ \A i \in 1 .. Len(attempts) : attempts'[i] = attempts[i]
      /\ attempts'[Len(attempts) + 1] = a
  BY <1>3, <1>4, <1>6, AppendProperties
<1> QED BY <1>3, <1>5, <1>6, <1>7

LEMMA RecordKeeps ==
  ASSUME AlertsState, NEW k \in Kind, NEW written \in BOOLEAN, Record(k, written)
  PROVE  /\ attempts' \in Seq(Attempt) /\ DOMAIN attempts' = DOMAIN attempts
         /\ \A i \in DOMAIN attempts : Kept(i) /\ attempts'[i].counted = attempts[i].counted
<1> DEFINE latest == Latest(k)
<1>1. attempts' = [attempts EXCEPT ![latest].audited = written]
  BY DEF Record
<1>2. attempts \in Seq(Attempt) /\ Len(attempts) \in Nat /\ DOMAIN attempts = 1 .. Len(attempts)
  BY DEF AlertsState
<1> HIDE DEF latest
<1>3. CASE latest \notin DOMAIN attempts
  <2>1. attempts' = attempts
    BY <1>1, <1>2, <1>3
  <2> QED BY <1>2, <2>1 DEF Kept
<1>4. CASE latest \in DOMAIN attempts
  <2> DEFINE old == attempts[latest]
             a == [old EXCEPT !.audited = written]
  <2>1. attempts' = [attempts EXCEPT ![latest] = a]
    BY <1>1, <1>2, <1>4
  <2>2. old \in Attempt
    BY <1>2, <1>4
  <2> HIDE DEF old
  <2>3. a \in Attempt
    BY <2>2 DEF Attempt
  <2>4. /\ a.project = old.project /\ a.kind = old.kind /\ a.chat = old.chat /\ a.at = old.at
        /\ a.about = old.about /\ a.outcome = old.outcome /\ a.throttle = old.throttle
        /\ a.counted = old.counted
    BY <2>2 DEF Attempt
  <2> HIDE DEF a
  <2>5. attempts' \in Seq(Attempt) /\ DOMAIN attempts' = DOMAIN attempts
    BY <1>2, <1>4, <2>1, <2>3
  <2>6. \A i \in DOMAIN attempts : attempts'[i] = IF i = latest THEN a ELSE attempts[i]
    BY <1>2, <2>1
  <2> QED BY <2>4, <2>5, <2>6 DEF Kept, old
<1> QED BY <1>3, <1>4

LEMMA UpdateKeeps ==
  ASSUME AlertsState, NEW k \in Kind, UpdateThrottle(k)
  PROVE  /\ attempts' \in Seq(Attempt) /\ DOMAIN attempts' = DOMAIN attempts
         /\ \A i \in DOMAIN attempts :
              /\ Kept(i)
              /\ attempts'[i].counted => attempts[i].counted \/ i = Latest(k)
<1> DEFINE latest == Latest(k)
<1>1. attempts' = [attempts EXCEPT ![latest].counted = TRUE]
  BY DEF UpdateThrottle
<1>2. attempts \in Seq(Attempt) /\ Len(attempts) \in Nat /\ DOMAIN attempts = 1 .. Len(attempts)
  BY DEF AlertsState
<1> HIDE DEF latest
<1>3. CASE latest \notin DOMAIN attempts
  <2>1. attempts' = attempts
    BY <1>1, <1>2, <1>3
  <2> QED BY <1>2, <2>1 DEF Kept
<1>4. CASE latest \in DOMAIN attempts
  <2> DEFINE old == attempts[latest]
             a == [old EXCEPT !.counted = TRUE]
  <2>1. attempts' = [attempts EXCEPT ![latest] = a]
    BY <1>1, <1>2, <1>4
  <2>2. old \in Attempt
    BY <1>2, <1>4
  <2> HIDE DEF old
  <2>3. a \in Attempt
    BY <2>2 DEF Attempt
  <2>4. /\ a.project = old.project /\ a.kind = old.kind /\ a.chat = old.chat /\ a.at = old.at
        /\ a.about = old.about /\ a.outcome = old.outcome /\ a.throttle = old.throttle
    BY <2>2 DEF Attempt
  <2> HIDE DEF a
  <2>5. attempts' \in Seq(Attempt) /\ DOMAIN attempts' = DOMAIN attempts
    BY <1>2, <1>4, <2>1, <2>3
  <2>6. \A i \in DOMAIN attempts : attempts'[i] = IF i = latest THEN a ELSE attempts[i]
    BY <1>2, <2>1
  <2> QED BY <2>4, <2>5, <2>6 DEF Kept, old, latest
<1> QED BY <1>3, <1>4 DEF latest

LEMMA AlertsInitially == AlertsInit => AlertsState
<1> SUFFICES ASSUME AlertsInit PROVE AlertsState
  OBVIOUS
<1>1. 0 \in 0 .. MaxNow /\ 0 \in 0 .. MaxEdits /\ 0 \in 0 .. MaxFaults /\ Interval \in Nat
  BY AlertsAssumption
<1>2. attempts \in Seq(Attempt)
  BY DEF AlertsInit
<1>3. job \in [Kind -> JobState] /\ \A k \in Kind : HasSettings(job[k])
  BY IdleIsAState DEF AlertsInit
<1> QED BY <1>1, <1>2, <1>3 DEF AlertsInit, AlertsState

\* The part of the state that only the jobs change.
LEMMA MovesKeepState ==
  ASSUME AlertsState, NEW k \in Kind, \E n : Moves(k, n)
  PROVE  job' \in [Kind -> JobState] /\ \A o \in Kind : HasSettings(job[o])'
<1>1. PICK n : Moves(k, n)
  OBVIOUS
<1>2. job' \in [Kind -> JobState] /\ \A o \in Kind : job'[o] = IF o = k THEN n ELSE job[o]
  BY <1>1 DEF Moves, AlertsState
<1>3. \A o \in Kind : HasSettings(job'[o])
  BY <1>1, <1>2 DEF Moves, AlertsState
<1> QED BY <1>2, <1>3 DEF HasSettings

\* A job keeps the settings that it has, until it loads those of another project.
KeepsSettings(k, n) ==
  \/ n.config = None
  \/ n.config = job[k].config /\ n.project = job[k].project
  \/ \E p \in Project : Loaded(p) # None /\ n.project = p /\ n.config = Loaded(p)

LEMMA JobStepMoves ==
  ASSUME AlertsState, NEW k \in Kind, Start(k) \/ JobStep(k)
  PROVE  \E n : Moves(k, n) /\ KeepsSettings(k, n)
<1>1. CASE Start(k)
  BY <1>1, StartMoves DEF KeepsSettings
<1>2. ASSUME NEW p \in Project, Visit(k, p) PROVE \E n : Moves(k, n) /\ KeepsSettings(k, n)
  BY <1>2, VisitMoves DEF KeepsSettings
<1>3. CASE ReadDrifts(k)
  BY <1>3, ReadDriftsMoves DEF KeepsSettings
<1>4. ASSUME NEW batch \in job[k].todo, Choose(k, batch) PROVE \E n : Moves(k, n) /\ KeepsSettings(k, n)
  BY <1>4, ChooseMoves DEF KeepsSettings
<1>5. CASE \/ \E outcome \in Outcome : Send(k, outcome)
           \/ \E written \in BOOLEAN : Record(k, written)
           \/ UpdateThrottle(k) \/ FailToUpdate(k)
  <2>1. job[k].pc \in AtProject /\ \E pc \in AtProject : job' = [job EXCEPT ![k].pc = pc]
    <3>1. ASSUME NEW outcome \in Outcome, Send(k, outcome)
          PROVE  job[k].pc = "sending" /\ job' = [job EXCEPT ![k].pc = "sent"]
      BY <3>1 DEF Send, JobAt
    <3>2. ASSUME NEW written \in BOOLEAN, Record(k, written)
          PROVE  /\ job[k].pc = "sent"
                 /\ \/ job' = [job EXCEPT ![k].pc = "recorded"]
                    \/ job' = [job EXCEPT ![k].pc = "notifying"]
      BY <3>2 DEF Record, JobAt
    <3>3. CASE UpdateThrottle(k) \/ FailToUpdate(k)
      BY <3>3 DEF UpdateThrottle, FailToUpdate, JobAt, AtProject
    <3> QED BY <1>5, <3>1, <3>2, <3>3 DEF AtProject
  <2>2. PICK pc \in AtProject : job' = [job EXCEPT ![k].pc = pc]
    BY <2>1
  <2>3. \E n : /\ Moves(k, n) /\ n.pc = pc
               /\ n.todo = job[k].todo /\ n.batch = job[k].batch
               /\ n.left = job[k].left /\ n.project = job[k].project
               /\ n.config = job[k].config /\ n.since = job[k].since
    BY <2>1, <2>2, StepMoves
  <2> QED BY <2>3 DEF KeepsSettings
<1>6. CASE Proceed(k)
  BY <1>6, ProceedMoves DEF KeepsSettings
<1>7. CASE ListProjects(k)
  BY <1>7, ListMoves DEF KeepsSettings
<1> QED BY <1>1, <1>2, <1>3, <1>4, <1>5, <1>6, <1>7 DEF JobStep

\* A turn that fails leaves an idle job.
LEMMA FailMoves ==
  ASSUME AlertsState, FailTurn
  PROVE  /\ "schema_drift" \in Kind /\ Moves("schema_drift", JobIdle)
         /\ KeepsSettings("schema_drift", JobIdle)
  BY IdleIsAState DEF FailTurn, Moves, KeepsSettings, Kind, JobIdle

LEMMA WorldTyped ==
  ASSUME AlertsState,
         \/ Advance \/ RotateKey \/ Crash \/ SkipTurn \/ FailTurn
         \/ \E p \in Project : RecordDrift(p) \/ Disable(p)
         \/ \E p \in Project, typed \in BOOLEAN, chat \in Chat, minutes \in Throttle :
              SaveConfig(p, typed, chat, minutes)
  PROVE  AlertsState'
<1>0. /\ now \in 0 .. MaxNow /\ edits \in 0 .. MaxEdits /\ faults \in 0 .. MaxFaults
      /\ MaxNow \in Nat /\ MaxEdits \in Nat /\ MaxFaults \in Nat /\ Interval \in Nat
      /\ config \in [Project -> Config \cup {None}]
      /\ \A k \in Kind : job[k].since \in Int
  BY AlertsAssumption DEF AlertsState, JobState
<1>1. CASE Advance
  <2>1. longest' \in Int
    BY <1>0, <1>1 DEF Advance, AlertsState, Kind
  <2> QED BY <1>0, <1>1, <2>1 DEF Advance, AlertsState
<1>7. CASE SkipTurn
  <2>1. faults' \in 0 .. MaxFaults /\ due' \in Nat /\ due' >= now
    BY <1>0, <1>7 DEF SkipTurn
  <2> QED BY <1>7, <2>1 DEF SkipTurn, AlertsState, turnVars
<1>8. CASE FailTurn
  <2>1. job' \in [Kind -> JobState] /\ \A k \in Kind : HasSettings(job[k])'
    BY <1>8, FailMoves, MovesKeepState
  <2>2. faults' \in 0 .. MaxFaults
    BY <1>0, <1>8 DEF FailTurn
  <2> QED BY <1>8, <2>1, <2>2 DEF FailTurn, AlertsState, turnVars
<1>2. CASE RotateKey
  <2>1. config' \in [Project -> Config \cup {None}]
    <3>1. \A p \in Project : config[p] # None => [config[p] EXCEPT !.readable = FALSE] \in Config
      BY <1>0 DEF Config
    <3> QED BY <1>2, <3>1 DEF RotateKey
  <2>2. faults' \in 0 .. MaxFaults /\ settled' \in [Project -> 0 .. MaxNow]
    BY <1>0, <1>2 DEF RotateKey
  <2> QED BY <1>2, <2>1, <2>2 DEF RotateKey, AlertsState, turnVars
<1>3. CASE Crash
  <2>1. job' \in [Kind -> JobState] /\ \A k \in Kind : HasSettings(job'[k])
    BY <1>3, IdleIsAState DEF Crash
  <2>2. \A k \in Kind : HasSettings(job[k])'
    BY <2>1 DEF HasSettings
  <2>3. faults' \in 0 .. MaxFaults /\ due' \in Nat /\ due' >= now
    BY <1>0, <1>3 DEF Crash
  <2> QED BY <1>3, <2>1, <2>2, <2>3 DEF Crash, AlertsState, turnVars
<1>4. ASSUME NEW p \in Project, RecordDrift(p) PROVE AlertsState'
  BY <1>4 DEF RecordDrift, AlertsState, turnVars
<1>5. ASSUME NEW p \in Project, Disable(p) PROVE AlertsState'
  BY <1>0, <1>5 DEF Disable, AlertsState, turnVars
<1>6. ASSUME NEW p \in Project, NEW typed \in BOOLEAN, NEW chat \in Chat, NEW minutes \in Throttle,
             SaveConfig(p, typed, chat, minutes)
      PROVE  AlertsState'
  <2> DEFINE readable == typed \/ config[p].readable
  <2>1. readable \in BOOLEAN
    <3>1. typed \/ config[p] \in Config
      BY <1>0, <1>6 DEF SaveConfig
    <3> QED BY <3>1 DEF Config
  <2>2. config' = [config EXCEPT ![p] = [chat |-> chat, throttle |-> minutes,
                                         readable |-> readable]]
    BY <1>6 DEF SaveConfig
  <2> HIDE DEF readable
  <2>3. config' \in [Project -> Config \cup {None}]
    BY <1>0, <2>1, <2>2 DEF Config
  <2>4. edits' \in 0 .. MaxEdits /\ settled' \in [Project -> 0 .. MaxNow]
    BY <1>0, <1>6 DEF SaveConfig, AlertsState
  <2>5. chats' \in [Project -> SUBSET Chat]
    BY <1>6 DEF SaveConfig, AlertsState
  <2> QED BY <1>6, <2>3, <2>4, <2>5 DEF SaveConfig, AlertsState, turnVars
<1> QED BY <1>1, <1>2, <1>3, <1>4, <1>5, <1>6, <1>7, <1>8

LEMMA JobsTyped ==
  ASSUME AlertsState, NEW k \in Kind, Start(k) \/ JobStep(k)
  PROVE  AlertsState'
<1>0. /\ now \in 0 .. MaxNow /\ faults \in 0 .. MaxFaults
      /\ MaxNow \in Nat /\ MaxFaults \in Nat /\ Interval \in Nat
      /\ attempts \in Seq(Attempt) /\ points \in [Project -> Nat]
      /\ throttle \in [Project -> [Kind -> {None} \cup 0 .. MaxNow]]
  BY AlertsAssumption DEF AlertsState
<1>1. job' \in [Kind -> JobState] /\ \A o \in Kind : HasSettings(job[o])'
  <2>1. \E n : Moves(k, n)
    BY JobStepMoves
  <2> QED BY <2>1, MovesKeepState
<1>2. /\ now' = now /\ UNCHANGED <<config, drifts, edits, chats, settled>>
  BY DEF Start, JobStep, ListProjects, Visit, ReadDrifts, Choose, Send, Record, UpdateThrottle, FailToUpdate,
         Proceed
<1>3. due' \in Nat /\ due' >= now
  <2>1. due' = due \/ due' = now + Interval
    <3>1. CASE Start(k)
      BY <3>1 DEF Start
    <3>2. CASE JobStep(k)
      BY <3>2 DEF JobStep, ListProjects, Visit, ReadDrifts, Choose, Send, Record, UpdateThrottle,
                  FailToUpdate, Proceed
    <3> QED BY <3>1, <3>2
  <2> QED BY <1>0, <2>1 DEF AlertsState
<1>4. points' \in [Project -> Nat]
  <2>1. ASSUME NEW p \in Project, Visit(k, p) PROVE points' \in [Project -> Nat]
    BY <2>1, DetectCounts DEF Visit
  <2> QED BY <1>0, <2>1 DEF Start, JobStep, ListProjects, ReadDrifts, Choose, Send, Record,
                            UpdateThrottle, FailToUpdate, Proceed
<1>5. attempts' \in Seq(Attempt)
  <2>1. ASSUME NEW outcome \in Outcome, Send(k, outcome) PROVE attempts' \in Seq(Attempt)
    BY <2>1, SendAppends
  <2>2. ASSUME NEW written \in BOOLEAN, Record(k, written) PROVE attempts' \in Seq(Attempt)
    BY <2>2, RecordKeeps
  <2>3. CASE UpdateThrottle(k)
    BY <2>3, UpdateKeeps
  <2>4. CASE attempts' = attempts
    BY <1>0, <2>4
  <2> QED BY <2>1, <2>2, <2>3, <2>4 DEF Start, JobStep, ListProjects, Visit, ReadDrifts, Choose, FailToUpdate,
                                        Proceed
<1>6. /\ throttle' \in [Project -> [Kind -> {None} \cup 0 .. MaxNow]]
      /\ \A p \in Project, o \in Kind : throttle'[p][o] # None => throttle'[p][o] <= now
  <2>1. CASE UpdateThrottle(k)
    <3>1. job[k].project \in Project
      BY <2>1 DEF AlertsState, UpdateThrottle, JobAt, JobState, HasSettings, AtProject
    <3>2. throttle' = [throttle EXCEPT ![job[k].project][k] = now]
      BY <2>1 DEF UpdateThrottle
    <3> QED BY <1>0, <3>1, <3>2 DEF AlertsState
  <2>2. CASE throttle' = throttle
    BY <1>0, <2>2 DEF AlertsState
  <2> QED BY <2>1, <2>2 DEF Start, JobStep, ListProjects, Visit, ReadDrifts, Choose, Send, Record,
                            FailToUpdate, Proceed
<1>7. faults' \in 0 .. MaxFaults
  <2>1. faults' = faults \/ (faults < MaxFaults /\ faults' = faults + 1)
    <3>1. ASSUME NEW outcome \in Outcome, Send(k, outcome)
          PROVE  faults' = faults \/ (faults < MaxFaults /\ faults' = faults + 1)
      BY <3>1 DEF Send
    <3>2. ASSUME NEW written \in BOOLEAN, Record(k, written)
          PROVE  faults' = faults \/ (faults < MaxFaults /\ faults' = faults + 1)
      BY <3>2 DEF Record
    <3>3. CASE FailToUpdate(k)
      BY <3>3 DEF FailToUpdate
    <3>4. CASE faults' = faults
      BY <3>4
    <3> QED BY <3>1, <3>2, <3>3, <3>4
            DEF Start, JobStep, ListProjects, Visit, ReadDrifts, Choose, UpdateThrottle, Proceed
  <2> QED BY <1>0, <2>1
<1>8. longest' \in Int /\ shortest' \in Int /\ shortest' <= Interval
  <2>1. CASE ListProjects(k)
    <3>1. job[k].since \in Int
      BY DEF AlertsState, JobState
    <3> QED BY <1>0, <2>1, <3>1 DEF ListProjects, AlertsState
  <2>2. CASE UNCHANGED turnVars
    BY <2>2 DEF turnVars, AlertsState
  <2> QED BY <2>1, <2>2 DEF Start, JobStep, Visit, ReadDrifts, Choose, Send, Record,
                            UpdateThrottle, FailToUpdate, Proceed
<1> QED BY <1>1, <1>2, <1>3, <1>4, <1>5, <1>6, <1>7, <1>8 DEF AlertsState

LEMMA AlertsTyped == AlertsState /\ [AlertsNext]_alertVars => AlertsState'
<1> SUFFICES ASSUME AlertsState, [AlertsNext]_alertVars PROVE AlertsState'
  OBVIOUS
<1>1. CASE UNCHANGED alertVars
  BY <1>1 DEF alertVars, turnVars, AlertsState, HasSettings
<1>2. CASE AlertsNext
  BY <1>2, WorldTyped, JobsTyped DEF AlertsNext
<1> QED BY <1>1, <1>2

\* The chats of a project's settings, of a job at a project and of an attempt
\* about one have been the project's own.
Private ==
  /\ \A p \in Project : config[p] # None => config[p].chat \in chats[p]
  /\ \A k \in Kind : job[k].config # None => job[k].config.chat \in chats[job[k].project]
  /\ ChatsArePrivate

LEMMA PrivateStep == AlertsState /\ Private /\ [AlertsNext]_alertVars => Private'
<1> SUFFICES ASSUME AlertsState, Private, [AlertsNext]_alertVars PROVE Private'
  OBVIOUS
<1>0. /\ attempts \in Seq(Attempt) /\ Len(attempts) \in Nat
      /\ DOMAIN attempts = 1 .. Len(attempts)
      /\ \A i \in DOMAIN attempts : attempts[i] \in Attempt
  BY DEF AlertsState
<1>1. CASE /\ UNCHANGED <<attempts, chats, job>>
           /\ \A p \in Project : config'[p] # None =>
                config[p] # None /\ config'[p].chat = config[p].chat
  BY <1>1 DEF Private, ChatsArePrivate
<1>2. CASE RotateKey
  <2>1. \A p \in Project : config'[p] # None =>
          config[p] # None /\ config'[p].chat = config[p].chat
    <3>1. ASSUME NEW p \in Project, config[p] # None
          PROVE  [config[p] EXCEPT !.readable = FALSE].chat = config[p].chat
      BY <3>1 DEF AlertsState, Config
    <3> QED BY <1>2, <3>1 DEF RotateKey
  <2> QED BY <1>1, <1>2, <2>1 DEF RotateKey
<1>3. CASE Crash
  <2>1. \A k \in Kind : job'[k].config = None
    BY <1>3 DEF Crash, JobIdle
  <2> QED BY <1>3, <2>1 DEF Crash, Private, ChatsArePrivate
<1>4. ASSUME NEW p \in Project, Disable(p) PROVE Private'
  <2>1. \A q \in Project : config'[q] # None => config[q] # None /\ config'[q] = config[q]
    BY <1>4 DEF Disable, AlertsState
  <2> QED BY <1>1, <1>4, <2>1 DEF Disable
<1>5. ASSUME NEW p \in Project, NEW typed \in BOOLEAN, NEW chat \in Chat, NEW minutes \in Throttle,
             SaveConfig(p, typed, chat, minutes)
      PROVE  Private'
  <2>1. \A q \in Project : chats[q] \subseteq chats'[q] /\ chat \in chats'[p]
    BY <1>5 DEF SaveConfig, AlertsState
  <2>2. config'[p].chat = chat /\ \A q \in Project \ {p} : config'[q] = config[q]
    BY <1>5 DEF SaveConfig, AlertsState
  <2>3. \A q \in Project : config'[q] # None => config'[q].chat \in chats'[q]
    BY <2>1, <2>2 DEF Private
  <2>4. UNCHANGED <<job, attempts>>
    BY <1>5 DEF SaveConfig
  <2>5. \A k \in Kind : job[k].config # None => job[k].project \in Project
    BY DEF AlertsState, HasSettings, JobState
  <2>6. \A k \in Kind : job'[k].config # None => job'[k].config.chat \in chats'[job'[k].project]
    BY <2>1, <2>4, <2>5 DEF Private
  <2>7. \A i \in DOMAIN attempts' : attempts'[i].chat \in chats'[attempts'[i].project]
    BY <1>0, <2>1, <2>4 DEF Private, ChatsArePrivate, Attempt
  <2> QED BY <2>3, <2>6, <2>7 DEF Private, ChatsArePrivate
<1>6. ASSUME NEW k \in Kind, Start(k) \/ JobStep(k) PROVE Private'
  <2>1. PICK n : Moves(k, n) /\ KeepsSettings(k, n)
    BY <1>6, JobStepMoves
  <2>2. UNCHANGED <<config, chats>>
    BY <1>6 DEF Start, JobStep, ListProjects, Visit, ReadDrifts, Choose, Send, Record, UpdateThrottle,
                FailToUpdate, Proceed
  <2>3. \A o \in Kind : job'[o] = IF o = k THEN n ELSE job[o]
    BY <2>1 DEF Moves, AlertsState
  <2>4. n.config # None => n.config.chat \in chats[n.project]
    BY <2>1 DEF KeepsSettings, Private, Loaded
  <2>5. \A o \in Kind : job'[o].config # None => job'[o].config.chat \in chats[job'[o].project]
    BY <2>3, <2>4 DEF Private
  <2>6. \A i \in DOMAIN attempts' : attempts'[i].chat \in chats[attempts'[i].project]
    <3>1. ASSUME NEW outcome \in Outcome, Send(k, outcome)
          PROVE  \A i \in DOMAIN attempts' : attempts'[i].chat \in chats[attempts'[i].project]
      <4>1. job[k].config # None
        BY <3>1 DEF Send, JobAt, AlertsState, HasSettings, AtProject
      <4> QED BY <3>1, <4>1, SendAppends DEF Private, ChatsArePrivate
    <3>2. ASSUME NEW written \in BOOLEAN, Record(k, written)
          PROVE  \A i \in DOMAIN attempts' : attempts'[i].chat \in chats[attempts'[i].project]
      BY <3>2, RecordKeeps DEF Private, ChatsArePrivate, Kept
    <3>3. CASE UpdateThrottle(k)
      BY <3>3, UpdateKeeps DEF Private, ChatsArePrivate, Kept
    <3>4. CASE attempts' = attempts
      BY <3>4 DEF Private, ChatsArePrivate
    <3> QED BY <1>6, <3>1, <3>2, <3>3, <3>4
            DEF Start, JobStep, ListProjects, Visit, ReadDrifts, Choose, FailToUpdate, Proceed
  <2> QED BY <2>2, <2>5, <2>6 DEF Private, ChatsArePrivate
<1>7. CASE Advance \/ SkipTurn \/ \E p \in Project : RecordDrift(p)
  BY <1>1, <1>7 DEF Advance, SkipTurn, RecordDrift
<1>8. CASE UNCHANGED alertVars
  BY <1>1, <1>8 DEF alertVars
<1>9. CASE FailTurn
  <2>1. \A k \in Kind : job'[k].config # None => job'[k] = job[k]
    BY <1>9 DEF FailTurn, AlertsState, JobIdle
  <2> QED BY <1>9, <2>1 DEF FailTurn, Private, ChatsArePrivate
<1> QED BY <1>2, <1>3, <1>4, <1>5, <1>6, <1>7, <1>8, <1>9 DEF AlertsNext

\* The last attempt of a job that has not yet recorded it, or has not yet
\* counted it, is the one it is about to; only what Telegram accepted is counted.
Logged(k) ==
  job[k].pc \in {"sent", "recorded"} =>
    \E i : /\ IsLatest(k, i) /\ attempts[i].project = job[k].project
           /\ job[k].pc = "recorded" => attempts[i].outcome = "sent"

\* A counted attempt is no later than its throttle, ...
CountedIn(i) ==
  LET last == throttle[attempts[i].project][attempts[i].kind] IN
  attempts[i].counted => last # None /\ attempts[i].at <= last

\* ... and long enough before the one that is about to be made.
Distant(k) ==
  job[k].pc = "sending" =>
    \A i \in DOMAIN attempts :
      attempts[i].counted /\ attempts[i].project = job[k].project /\ attempts[i].kind = k
        => now - attempts[i].at >= job[k].config.throttle

Spaced ==
  /\ \A i \in DOMAIN attempts : attempts[i].at <= now /\ CountedIn(i)
  /\ \A k \in Kind : Logged(k) /\ Distant(k)
  /\ ThrottleIsEarned
  /\ AlertsAreSpaced

\* Facts about the log that the steps use.
LEMMA LogFacts ==
  ASSUME AlertsState
  PROVE  /\ attempts \in Seq(Attempt) /\ Len(attempts) \in Nat
         /\ DOMAIN attempts = 1 .. Len(attempts)
         /\ \A i \in DOMAIN attempts :
              /\ attempts[i] \in Attempt /\ attempts[i].project \in Project
              /\ attempts[i].kind \in Kind /\ attempts[i].at \in Int
              /\ attempts[i].throttle \in Int
         /\ now \in Int
         /\ \A p \in Project, k \in Kind : throttle[p][k] # None =>
              throttle[p][k] \in Int /\ throttle[p][k] <= now
         /\ \A k \in Kind : job[k].pc \in AtProject =>
              job[k].project \in Project /\ job[k].config.throttle \in Int
<1>0. (\A t \in Throttle : t \in Int) /\ \A t \in 0 .. MaxNow : t \in Int
  BY AlertsAssumption
<1>1. attempts \in Seq(Attempt) /\ Len(attempts) \in Nat /\ DOMAIN attempts = 1 .. Len(attempts)
  BY DEF AlertsState
<1>2. \A i \in DOMAIN attempts :
        /\ attempts[i] \in Attempt /\ attempts[i].project \in Project
        /\ attempts[i].kind \in Kind /\ attempts[i].at \in Int /\ attempts[i].throttle \in Int
  <2>1. \A i \in DOMAIN attempts : attempts[i] \in Attempt
    BY <1>1
  <2>2. ASSUME NEW a \in Attempt
        PROVE  /\ a.project \in Project /\ a.kind \in Kind /\ a.at \in 0 .. MaxNow
               /\ a.throttle \in Throttle
    BY DEF Attempt
  <2> QED BY <1>0, <2>1, <2>2
<1>3. now \in Int /\ \A p \in Project, k \in Kind : throttle[p][k] # None =>
        throttle[p][k] \in Int /\ throttle[p][k] <= now
  BY DEF AlertsState
<1>4. ASSUME NEW k \in Kind, job[k].pc \in AtProject
      PROVE  job[k].project \in Project /\ job[k].config.throttle \in Int
  <2>1. job[k] \in JobState /\ job[k].config # None /\ job[k].project # None
    BY <1>4 DEF AlertsState, HasSettings
  <2>2. job[k].config \in Config /\ job[k].project \in Project
    BY <2>1 DEF JobState
  <2> QED BY <1>0, <2>2 DEF Config
<1> QED BY <1>1, <1>2, <1>3, <1>4

\* A step that adds nothing to the log: whoever is about to send was so
\* before, or has just found that it is not throttled.
LEMMA QuietStep ==
  ASSUME AlertsState, Spaced, UNCHANGED <<attempts, throttle>>, now' \in Int, now' >= now,
         NEW k \in Kind, \A o \in Kind \ {k} : job'[o] = job[o],
         \/ job'[k] = job[k]
         \/ job'[k].pc \notin {"sending", "sent", "recorded"}
         \/ /\ job'[k].pc = "sending" /\ ~Throttled(k) /\ job[k].pc \in AtProject
            /\ job'[k].project = job[k].project /\ job'[k].config = job[k].config
  PROVE  Spaced'
<1>1. \A i \in DOMAIN attempts : attempts[i].at <= now' /\ CountedIn(i)'
  BY LogFacts DEF Spaced, CountedIn
<1>2. ThrottleIsEarned' /\ AlertsAreSpaced'
  BY DEF Spaced, ThrottleIsEarned, AlertsAreSpaced
<1>3. ASSUME NEW o \in Kind PROVE Logged(o)'
  BY DEF Spaced, Logged, IsLatest
<1>4. ASSUME NEW o \in Kind PROVE Distant(o)'
  <2>1. CASE job'[o] = job[o]
    BY <2>1, LogFacts DEF Spaced, Distant, AtProject
  <2>2. CASE job'[o].pc # "sending"
    BY <2>2 DEF Distant
  <2>3. CASE job'[o] # job[o] /\ job'[o].pc = "sending"
    <3>1. /\ o = k /\ ~Throttled(k) /\ job[k].pc \in AtProject
          /\ job'[k].project = job[k].project /\ job'[k].config = job[k].config
      BY <2>3
    <3> DEFINE last == throttle[job[k].project][k]
    <3>2. last # None => now - last >= job[k].config.throttle /\ last \in Int
      BY <3>1, LogFacts DEF Throttled
    <3>3. ASSUME NEW i \in DOMAIN attempts, attempts[i].counted,
                 attempts[i].project = job[k].project, attempts[i].kind = k
          PROVE  now' - attempts[i].at >= job[k].config.throttle
      <4>1. last # None /\ attempts[i].at <= last
        BY <3>3 DEF Spaced, CountedIn
      <4> QED BY <3>1, <3>2, <4>1, LogFacts
    <3> QED BY <3>1, <3>3 DEF Distant
  <2> QED BY <2>1, <2>2, <2>3
<1> QED BY <1>1, <1>2, <1>3, <1>4 DEF Spaced

LEMMA SendSpaced ==
  ASSUME AlertsState, Spaced, NEW k \in Kind, NEW outcome \in Outcome, Send(k, outcome)
  PROVE  Spaced'
<1>0. PICK last \in Int : last = Len(attempts) + 1
  BY LogFacts
<1>1. /\ DOMAIN attempts' = DOMAIN attempts \cup {last} /\ last \notin DOMAIN attempts
      /\ \A i \in DOMAIN attempts : attempts'[i] = attempts[i] /\ i < last /\ i \in Int
  <2>1. /\ DOMAIN attempts' = DOMAIN attempts \cup {Len(attempts) + 1}
        /\ \A i \in DOMAIN attempts : attempts'[i] = attempts[i]
        /\ Len(attempts) \in Nat /\ DOMAIN attempts = 1 .. Len(attempts)
    BY SendAppends
  <2> QED BY <1>0, <2>1
<1>2. PICK a \in Attempt :
        /\ attempts'[last] = a
        /\ a.project = job[k].project /\ a.kind = k
        /\ a.at = now /\ a.outcome = outcome
        /\ a.throttle = job[k].config.throttle /\ ~a.counted
  BY <1>0, SendAppends
<1>3. job[k].pc = "sending" /\ job' = [job EXCEPT ![k].pc = "sent"]
  BY DEF Send, JobAt
<1>4. UNCHANGED <<now, throttle>>
  BY DEF Send
<1>5. PICK n : /\ Moves(k, n) /\ n.pc = "sent" /\ n.project = job[k].project
  <2>1. "sent" \in AtProject /\ job[k].pc \in AtProject
    BY <1>3 DEF AtProject
  <2>2. \E n : /\ Moves(k, n) /\ n.pc = "sent"
               /\ n.todo = job[k].todo /\ n.batch = job[k].batch
               /\ n.left = job[k].left /\ n.project = job[k].project
               /\ n.config = job[k].config /\ n.since = job[k].since
    BY <1>3, <2>1, StepMoves
  <2> QED BY <2>2
<1>6. \A o \in Kind : job'[o] = IF o = k THEN n ELSE job[o]
  BY <1>5 DEF Moves, AlertsState
<1>7. \A i \in DOMAIN attempts' : attempts'[i].at <= now' /\ CountedIn(i)'
  BY <1>1, <1>2, <1>4, LogFacts DEF Spaced, CountedIn
<1>8. ASSUME NEW o \in Kind PROVE Logged(o)'
  <2>1. CASE o = k
    <3>1. IsLatest(k, last)'
      <4>1. last \in DOMAIN attempts' /\ \A j \in DOMAIN attempts' : ~(j > last)
        BY <1>1
      <4>2. attempts'[last].kind = k
        BY <1>2
      <4> QED BY <4>1, <4>2 DEF IsLatest
    <3>2. job'[k].pc = "sent" /\ job'[k].project = job[k].project
      BY <1>5, <1>6
    <3>3. attempts'[last].project = job[k].project
      BY <1>2
    <3> QED BY <2>1, <3>1, <3>2, <3>3 DEF Logged
  <2>2. CASE o # k
    <3>1. \A i : IsLatest(o, i) => IsLatest(o, i)' /\ attempts'[i] = attempts[i]
      BY <1>1, <1>2, <2>2 DEF IsLatest
    <3> QED BY <1>6, <2>2, <3>1 DEF Spaced, Logged
  <2> QED BY <2>1, <2>2
<1>9. ASSUME NEW o \in Kind PROVE Distant(o)'
  BY <1>1, <1>2, <1>4, <1>5, <1>6 DEF Spaced, Distant
<1>10. ThrottleIsEarned'
  <2>1. ASSUME NEW p \in Project, NEW o \in Kind, throttle[p][o] # None
        PROVE  \E i \in DOMAIN attempts' :
                 /\ attempts'[i].project = p /\ attempts'[i].kind = o
                 /\ attempts'[i].outcome = "sent" /\ attempts'[i].at <= throttle[p][o]
    BY <1>1, <2>1 DEF Spaced, ThrottleIsEarned
  <2> QED BY <1>4, <2>1 DEF ThrottleIsEarned
<1>11. AlertsAreSpaced'
  <2>1. ASSUME NEW i \in DOMAIN attempts', NEW j \in DOMAIN attempts', i < j,
               attempts'[i].project = attempts'[j].project, attempts'[i].kind = attempts'[j].kind,
               attempts'[i].counted
        PROVE  attempts'[j].at - attempts'[i].at >= attempts'[j].throttle
    <3>1. i \in DOMAIN attempts
      BY <1>1, <2>1
    <3>2. CASE j \in DOMAIN attempts
      BY <1>1, <2>1, <3>1, <3>2 DEF Spaced, AlertsAreSpaced
    <3>3. CASE j = last
      BY <1>1, <1>2, <1>3, <2>1, <3>1, <3>3 DEF Spaced, Distant
    <3> QED BY <1>1, <3>2, <3>3
  <2> QED BY <2>1 DEF AlertsAreSpaced
<1> QED BY <1>7, <1>8, <1>9, <1>10, <1>11 DEF Spaced

\* The latest attempt of the job of a logged step.
LEMMA LoggedLatest ==
  ASSUME AlertsState, Spaced, NEW k \in Kind, job[k].pc \in {"sent", "recorded"}
  PROVE  /\ IsLatest(k, Latest(k)) /\ attempts[Latest(k)].project = job[k].project
         /\ job[k].pc = "recorded" => attempts[Latest(k)].outcome = "sent"
<1>1. PICK i : /\ IsLatest(k, i) /\ attempts[i].project = job[k].project
               /\ job[k].pc = "recorded" => attempts[i].outcome = "sent"
  BY DEF Spaced, Logged
<1>2. Latest(k) = i
  BY <1>1, LatestIsTheOnlyOne
<1> QED BY <1>1, <1>2

LEMMA RecordSpaced ==
  ASSUME AlertsState, Spaced, NEW k \in Kind, NEW written \in BOOLEAN, Record(k, written)
  PROVE  Spaced'
<1>1. /\ DOMAIN attempts' = DOMAIN attempts
      /\ \A i \in DOMAIN attempts : Kept(i) /\ attempts'[i].counted = attempts[i].counted
  BY RecordKeeps
<1>2. job[k].pc = "sent" /\ UNCHANGED <<now, throttle>>
  BY DEF Record, JobAt
<1>3. PICK i : i = Latest(k)
  OBVIOUS
<1>4. IsLatest(k, i) /\ attempts[i].project = job[k].project
  BY <1>2, <1>3, LoggedLatest
<1> DEFINE pc == IF attempts[i].outcome = "sent" THEN "recorded" ELSE "notifying"
<1>5. job' = [job EXCEPT ![k].pc = pc]
  BY <1>3 DEF Record, Counts
<1>6. pc \in AtProject /\ job[k].pc \in AtProject
  BY <1>2 DEF AtProject
<1>7. pc \in {"recorded", "notifying"} /\ (pc = "recorded" => attempts[i].outcome = "sent")
  OBVIOUS
<1> HIDE DEF pc
<1>8. \E n : /\ Moves(k, n) /\ n.pc = pc
             /\ n.todo = job[k].todo /\ n.batch = job[k].batch
             /\ n.left = job[k].left /\ n.project = job[k].project
             /\ n.config = job[k].config /\ n.since = job[k].since
  BY <1>5, <1>6, StepMoves
<1>9. /\ \A o \in Kind \ {k} : job'[o] = job[o]
      /\ job'[k].pc \in {"recorded", "notifying"} /\ job'[k].project = job[k].project
      /\ job'[k].pc = "recorded" => attempts[i].outcome = "sent"
  BY <1>7, <1>8 DEF Moves, AlertsState
<1>10. \A j \in DOMAIN attempts' : attempts'[j].at <= now' /\ CountedIn(j)'
  BY <1>1, <1>2 DEF Spaced, CountedIn, Kept
<1>11. \A o \in Kind, j \in DOMAIN attempts : IsLatest(o, j) => IsLatest(o, j)'
  BY <1>1 DEF IsLatest, Kept
<1>12. ASSUME NEW o \in Kind PROVE Logged(o)'
  <2>1. CASE o = k
    <3>1. IsLatest(k, i)' /\ i \in DOMAIN attempts
      BY <1>4, <1>11 DEF IsLatest
    <3> QED BY <1>1, <1>4, <1>9, <2>1, <3>1 DEF Logged, Kept
  <2>2. CASE o # k
    <3>1. job'[o] = job[o]
      BY <1>9, <2>2
    <3> QED BY <1>1, <1>11, <3>1 DEF Spaced, Logged, Kept, IsLatest
  <2> QED BY <2>1, <2>2
<1>13. ASSUME NEW o \in Kind PROVE Distant(o)'
  <2>1. job'[o].pc = "sending" => job'[o] = job[o]
    BY <1>9
  <2> QED BY <1>1, <1>2, <2>1 DEF Spaced, Distant, Kept
<1>14. ThrottleIsEarned'
  BY <1>1, <1>2 DEF Spaced, ThrottleIsEarned, Kept
<1>15. AlertsAreSpaced'
  BY <1>1 DEF Spaced, AlertsAreSpaced, Kept
<1> QED BY <1>10, <1>12, <1>13, <1>14, <1>15 DEF Spaced

LEMMA UpdateSpaced ==
  ASSUME AlertsState, Spaced, NEW k \in Kind, UpdateThrottle(k)
  PROVE  Spaced'
<1>2. job[k].pc = "recorded" /\ now' = now
  BY DEF UpdateThrottle, JobAt
<1>3. PICK i : i = Latest(k)
  OBVIOUS
<1>4. /\ IsLatest(k, i) /\ i \in DOMAIN attempts /\ attempts[i].project = job[k].project
      /\ attempts[i].outcome = "sent" /\ attempts[i].kind = k
  BY <1>2, <1>3, LoggedLatest DEF IsLatest
<1>1. /\ DOMAIN attempts' = DOMAIN attempts
      /\ \A j \in DOMAIN attempts :
           Kept(j) /\ (attempts'[j].counted => attempts[j].counted \/ j = i)
  BY <1>3, UpdateKeeps
<1>5. job' = [job EXCEPT ![k].pc = "notifying"]
  BY DEF UpdateThrottle
<1>6. PICK pc \in AtProject : pc = "notifying" /\ job[k].pc \in AtProject
  BY <1>2 DEF AtProject
<1>8. \E n : /\ Moves(k, n) /\ n.pc = pc
             /\ n.todo = job[k].todo /\ n.batch = job[k].batch
             /\ n.left = job[k].left /\ n.project = job[k].project
             /\ n.config = job[k].config /\ n.since = job[k].since
  BY <1>5, <1>6, StepMoves
<1>9. (\A o \in Kind \ {k} : job'[o] = job[o]) /\ job'[k].pc = "notifying"
  BY <1>6, <1>8 DEF Moves, AlertsState
<1>7. job[k].project \in Project
  BY <1>6, LogFacts
<1>t. \A p \in Project, o \in Kind :
        throttle'[p][o] = IF p = job[k].project /\ o = k THEN now ELSE throttle[p][o]
  BY <1>7 DEF UpdateThrottle, AlertsState
<1>n. None # now
  BY AlertsAssumption DEF AlertsState
<1>10. ASSUME NEW j \in DOMAIN attempts' PROVE attempts'[j].at <= now' /\ CountedIn(j)'
  <2>1. /\ j \in DOMAIN attempts /\ attempts'[j].at = attempts[j].at
        /\ attempts'[j].project = attempts[j].project /\ attempts'[j].kind = attempts[j].kind
        /\ attempts[j].project \in Project /\ attempts[j].kind \in Kind
        /\ attempts[j].at <= now
    BY <1>1, LogFacts DEF Kept, Spaced
  <2>2. throttle'[attempts[j].project][attempts[j].kind] \in
          {now, throttle[attempts[j].project][attempts[j].kind]}
    BY <1>t, <2>1
  <2>3. CASE j = i
    <3>1. throttle'[attempts[j].project][attempts[j].kind] = now
      BY <1>4, <1>7, <1>t, <2>3
    <3> QED BY <1>2, <1>n, <2>1, <3>1 DEF CountedIn
  <2>4. CASE j # i
    BY <1>1, <1>2, <1>n, <2>1, <2>2, <2>4 DEF Spaced, CountedIn
  <2> QED BY <2>3, <2>4
<1>11. \A o \in Kind, j \in DOMAIN attempts : IsLatest(o, j) => IsLatest(o, j)'
  BY <1>1 DEF IsLatest, Kept
<1>12. ASSUME NEW o \in Kind PROVE Logged(o)'
  <2>1. CASE o = k
    BY <1>9, <2>1 DEF Logged
  <2>2. CASE o # k
    <3>1. job'[o] = job[o]
      BY <1>9, <2>2
    <3> QED BY <1>1, <1>11, <3>1 DEF Spaced, Logged, Kept, IsLatest
  <2> QED BY <2>1, <2>2
<1>13. ASSUME NEW o \in Kind PROVE Distant(o)'
  <2>1. CASE o = k
    BY <1>9, <2>1 DEF Distant
  <2>2. CASE o # k
    <3>1. job'[o] = job[o]
      BY <1>9, <2>2
    <3>2. \A j \in DOMAIN attempts : attempts'[j].kind = o /\ attempts'[j].counted
            => attempts[j].counted
      BY <1>1, <1>4, <2>2 DEF Kept
    <3> QED BY <1>1, <1>2, <3>1, <3>2 DEF Spaced, Distant, Kept
  <2> QED BY <2>1, <2>2
<1>14. ThrottleIsEarned'
  <2>1. ASSUME NEW p \in Project, NEW o \in Kind, throttle'[p][o] # None
        PROVE  \E j \in DOMAIN attempts' :
                 /\ attempts'[j].project = p /\ attempts'[j].kind = o
                 /\ attempts'[j].outcome = "sent" /\ attempts'[j].at <= throttle'[p][o]
    <3>1. CASE p = job[k].project /\ o = k
      <4>1. throttle'[p][o] = now /\ attempts[i].at <= now
        BY <1>4, <1>t, <3>1 DEF Spaced
      <4> QED BY <1>1, <1>4, <3>1, <4>1 DEF Kept
    <3>2. CASE ~(p = job[k].project /\ o = k)
      <4>1. throttle'[p][o] = throttle[p][o]
        BY <1>t, <3>2
      <4> QED BY <1>1, <2>1, <4>1 DEF Spaced, ThrottleIsEarned, Kept
    <3> QED BY <3>1, <3>2
  <2> QED BY <2>1 DEF ThrottleIsEarned
<1>15. AlertsAreSpaced'
  <2>1. ASSUME NEW x \in DOMAIN attempts, NEW j \in DOMAIN attempts, x < j,
               attempts[x].project = attempts[j].project, attempts[x].kind = attempts[j].kind,
               attempts'[x].counted
        PROVE  attempts[j].at - attempts[x].at >= attempts[j].throttle
    <3>1. x # i
      BY <1>4, <2>1, LogFacts DEF IsLatest
    <3> QED BY <1>1, <2>1, <3>1 DEF Spaced, AlertsAreSpaced
  <2> QED BY <1>1, <2>1 DEF AlertsAreSpaced, Kept
<1> QED BY <1>10, <1>12, <1>13, <1>14, <1>15 DEF Spaced

LEMMA SpacedStep == AlertsState /\ Spaced /\ [AlertsNext]_alertVars => Spaced'
<1> SUFFICES ASSUME AlertsState, Spaced, [AlertsNext]_alertVars PROVE Spaced'
  OBVIOUS
<1>0. now \in Int /\ "changepoint" \in Kind
  BY DEF AlertsState, Kind
<1>1. CASE /\ UNCHANGED <<attempts, throttle, job>> /\ now' \in Int /\ now' >= now
  BY <1>0, <1>1, QuietStep
<1>2. CASE \/ Advance \/ RotateKey \/ SkipTurn
           \/ \E p \in Project : RecordDrift(p) \/ Disable(p)
           \/ \E p \in Project, typed \in BOOLEAN, chat \in Chat, minutes \in Throttle :
                SaveConfig(p, typed, chat, minutes)
  BY <1>0, <1>1, <1>2 DEF Advance, RotateKey, SkipTurn, RecordDrift, Disable, SaveConfig
<1>3. CASE Crash
  <2>1. \A k \in Kind : job'[k].pc = "idle"
    BY <1>3 DEF Crash, JobIdle
  <2>2. \A k \in Kind : Logged(k)' /\ Distant(k)'
    BY <2>1 DEF Logged, Distant
  <2> QED BY <1>3, <2>2 DEF Crash, Spaced, CountedIn, ThrottleIsEarned, AlertsAreSpaced
<1>4. ASSUME NEW k \in Kind, Start(k) \/ JobStep(k) PROVE Spaced'
  <2>0. \A o \in Kind \ {k} : job'[o] = job[o]
    <3>1. PICK n : Moves(k, n)
      BY <1>4, JobStepMoves
    <3> QED BY <3>1 DEF Moves, AlertsState
  <2>1. CASE /\ UNCHANGED <<attempts, throttle>> /\ now' = now
             /\ job'[k].pc \notin {"sending", "sent", "recorded"}
    BY <1>0, <2>0, <2>1, QuietStep
  <2>2. CASE Start(k)
    <3>1. job'[k].pc = "preparing"
      BY <2>2, StartMoves DEF Moves, AlertsState
    <3> QED BY <2>1, <2>2, <3>1 DEF Start
  <2>11. CASE ListProjects(k)
    <3>1. job'[k].pc = "visiting"
      BY <2>11, ListMoves DEF Moves, AlertsState
    <3> QED BY <2>1, <2>11, <3>1 DEF ListProjects
  <2>3. ASSUME NEW p \in Project, Visit(k, p) PROVE Spaced'
    <3>1. job'[k].pc \in {"visiting", "reading", "notifying"}
      <4>1. k \in {"schema_drift", "changepoint"}
        BY DEF Kind
      <4> QED BY <2>3, <4>1, VisitMoves DEF Moves, AlertsState
    <3> QED BY <2>1, <2>3, <3>1 DEF Visit
  <2>4. CASE ReadDrifts(k)
    <3>1. job'[k].pc = "notifying"
      BY <2>4, ReadDriftsMoves DEF Moves, AlertsState
    <3> QED BY <2>1, <2>4, <3>1 DEF ReadDrifts
  <2>5. ASSUME NEW batch \in job[k].todo, Choose(k, batch) PROVE Spaced'
    <3>1. job[k].pc = "notifying" /\ UNCHANGED <<attempts, throttle, now>>
      BY <2>5 DEF Choose, JobAt
    <3>2. /\ job'[k].pc = (IF Throttled(k) THEN "notifying" ELSE "sending")
          /\ job'[k].project = job[k].project /\ job'[k].config = job[k].config
      BY <2>5, ChooseMoves DEF Moves, AlertsState
    <3>3. CASE Throttled(k)
      BY <2>1, <3>1, <3>2, <3>3
    <3>4. CASE ~Throttled(k)
      <4>1. job'[k].pc = "sending" /\ job[k].pc \in AtProject
        BY <3>1, <3>2, <3>4 DEF AtProject
      <4> QED BY <1>0, <2>0, <3>1, <3>2, <3>4, <4>1, QuietStep
    <3> QED BY <3>3, <3>4
  <2>6. ASSUME NEW outcome \in Outcome, Send(k, outcome) PROVE Spaced'
    BY <2>6, SendSpaced
  <2>7. ASSUME NEW written \in BOOLEAN, Record(k, written) PROVE Spaced'
    BY <2>7, RecordSpaced
  <2>8. CASE UpdateThrottle(k)
    BY <2>8, UpdateSpaced
  <2>9. CASE FailToUpdate(k)
    <3>1. job'[k].pc = "notifying"
      BY <2>9 DEF FailToUpdate, AlertsState, JobState
    <3> QED BY <2>1, <2>9, <3>1 DEF FailToUpdate
  <2>10. CASE Proceed(k)
    <3>1. job'[k].pc \in {"idle", "visiting"}
      BY <2>10, ProceedMoves DEF Moves, AlertsState
    <3> QED BY <2>1, <2>10, <3>1 DEF Proceed
  <2> QED BY <1>4, <2>2, <2>3, <2>4, <2>5, <2>6, <2>7, <2>8, <2>9, <2>10, <2>11
          DEF JobStep
<1>5. CASE UNCHANGED alertVars
  BY <1>0, <1>1, <1>5 DEF alertVars
<1>6. CASE FailTurn
  <2>1. /\ "schema_drift" \in Kind /\ job'["schema_drift"].pc = "idle"
        /\ \A o \in Kind \ {"schema_drift"} : job'[o] = job[o]
    BY <1>6, FailMoves DEF Moves, AlertsState, JobIdle
  <2> QED BY <1>0, <1>6, <2>1, QuietStep DEF FailTurn
<1> QED BY <1>2, <1>3, <1>4, <1>5, <1>6 DEF AlertsNext

AlertsInv == AlertsState /\ Private /\ Spaced

LEMMA AlertsInvariance == AlertsSpec => []AlertsInv
<1>1. AlertsInit => AlertsInv
  <2> SUFFICES ASSUME AlertsInit PROVE AlertsInv
    OBVIOUS
  <2>1. DOMAIN attempts = {} /\ \A k \in Kind : job[k].pc = "idle" /\ job[k].config = None
    BY DEF AlertsInit, JobIdle
  <2>2. Private
    BY <2>1 DEF AlertsInit, Private, ChatsArePrivate
  <2>3. Spaced
    BY <2>1 DEF AlertsInit, Spaced, Logged, Distant, ThrottleIsEarned, AlertsAreSpaced
  <2> QED BY <2>2, <2>3, AlertsInitially DEF AlertsInv
<1>2. AlertsInv /\ [AlertsNext]_alertVars => AlertsInv'
  BY AlertsTyped, PrivateStep, SpacedStep DEF AlertsInv
<1> QED BY <1>1, <1>2, PTL DEF AlertsSpec

\* Alerts: an alert about a project goes to a chat of the project's own
\* settings, however these change while a job is under way; a throttle that
\* keeps alerts back was started by one that Telegram accepted; and alerts of a
\* kind keep the distance that the project asks for from each that was counted.
THEOREM AlertsAreAlwaysSound == AlertsSpec => []AlertsAreSound
<1>1. AlertsInv => AlertsAreSound
  <2> SUFFICES ASSUME AlertsInv PROVE AlertsAreSound
    OBVIOUS
  <2>1. \A p \in Project, k \in Kind : throttle[p][k] \in {None} \cup 0 .. now
    BY DEF AlertsInv, AlertsState
  <2>2. AlertsTypeOK
    BY <2>1 DEF AlertsInv, AlertsState, AlertsTypeOK, Config, HasSettings
  <2> QED BY <2>2 DEF AlertsInv, Private, Spaced, AlertsAreSound
<1> QED BY <1>1, AlertsInvariance, PTL

------------------------------------------------------------------------------
\* Drifts are announced

\* Who has settings and has left them alone since the drift, with a throttle
\* that ends before the next turn of a regular job, ...
Expects(d) ==
  LET p == d.project IN
  /\ TurnsAreRegular
  /\ p \in measured
  /\ config[p] # None /\ settled[p] < d.at
  /\ config[p].throttle <= Interval - Slack
  /\ d.at >= longest - Slack

Announced(d) == \E i \in DOMAIN attempts : d \in attempts[i].about

\* ... is told of it by the next turn, if it was recorded after the collection
\* of the one before, ...
Covers(start, d) == start = Interval \/ start - Interval + shortest <= d.at

\* ... or by the job that is under way: it has yet to visit the project, or is
\* at it with the drift still to be read or to be sent.
Awaited(d) ==
  LET j == job["schema_drift"] IN
  /\ j.pc # "idle" /\ Covers(j.since, d)
  /\ \/ j.pc = "preparing"
     \/ d.project \in j.left
     \/ /\ j.project = d.project /\ j.config = config[d.project]
        /\ \/ j.pc = "reading"
           \/ j.pc = "notifying" /\ \E batch \in j.todo : d \in batch
           \/ j.pc = "sending" /\ d \in j.batch

\* The projects that the drift job may still send an alert about.
Pending(p) ==
  LET j == job["schema_drift"] IN
  \/ j.pc = "preparing"
  \/ p \in j.left
  \/ j.project = p /\ (j.pc = "reading" \/ (j.pc = "notifying" /\ j.todo # {}))

\* Without faults, a regular turn of the drift job begins on time and ends before
\* the next; what it has still to do is not kept back by the turn before it.
Punctual ==
  LET j == job["schema_drift"] IN
  /\ \A p \in Project : config[p] # None => config[p].readable
  /\ longest >= 0
  /\ j.pc # "idle" => j.since + Interval = due /\ j.since <= now /\ now <= j.since + longest
  /\ j.pc \notin {"idle", "preparing"} => j.since + shortest <= now
  /\ j.pc = "idle" => due = Interval \/ due - Interval + shortest <= now
  /\ \A p \in Project : throttle[p]["schema_drift"] # None =>
       /\ throttle[p]["schema_drift"] <= due - Interval + longest
       /\ j.pc # "idle" /\ Pending(p) =>
            throttle[p]["schema_drift"] <= j.since - Interval + longest
  /\ j.pc \in AtProject => j.project \notin j.left
  /\ j.pc \in {"preparing", "visiting", "reading", "sending", "sent", "recorded"} => j.todo = {}
  /\ \A x, y \in j.todo : x = y
  /\ due <= now + Interval

DriftsAwaited ==
  \A d \in drifts :
    /\ d.at <= now
    /\ Expects(d) => Covers(due, d) \/ Announced(d) \/ Awaited(d)

DriftInv == faults = 0 /\ TurnsAreRegular => Punctual /\ DriftsAwaited

LEMMA DriftFacts ==
  ASSUME AlertsState
  PROVE  /\ "schema_drift" \in Kind /\ now \in Int /\ due \in Int
         /\ Interval \in Int /\ Interval > 0 /\ Slack \in Int /\ Slack >= 0
         /\ job["schema_drift"] \in JobState /\ job["schema_drift"].since \in Int
         /\ job["schema_drift"].left \subseteq Project
         /\ longest \in Int /\ shortest \in Int /\ shortest <= Interval
         /\ \A p \in Project, k \in Kind : throttle[p][k] # None =>
              throttle[p][k] \in Int /\ throttle[p][k] <= now
<1>1. "schema_drift" \in Kind /\ job["schema_drift"] \in JobState
  BY DEF AlertsState, Kind
<1>2. job["schema_drift"].since \in 0 .. MaxNow /\ job["schema_drift"].left \in SUBSET Project
  BY <1>1 DEF JobState
<1> QED BY <1>1, <1>2, LogFacts, AlertsAssumption DEF AlertsState

\* Without faults so far there were none before.
LEMMA FaultsGrow ==
  ASSUME AlertsState, [AlertsNext]_alertVars, faults' = 0
  PROVE  /\ faults = 0 /\ ~RotateKey /\ ~Crash /\ ~FailTurn
         /\ SkipTurn => ~JobAt("schema_drift", "idle")
         /\ \A k \in Kind : ~FailToUpdate(k)
         /\ \A k \in Kind, outcome \in Outcome : Send(k, outcome) => outcome = "sent"
<1>0. faults \in Nat
  BY DEF AlertsState
<1>1. ~RotateKey /\ ~Crash /\ ~FailTurn /\ \A k \in Kind : ~FailToUpdate(k)
  BY <1>0 DEF RotateKey, Crash, FailTurn, FailToUpdate
<1>5. SkipTurn => ~JobAt("schema_drift", "idle") /\ faults = 0
  BY <1>0 DEF SkipTurn
<1>2. ASSUME NEW k \in Kind, NEW outcome \in Outcome, Send(k, outcome)
      PROVE  outcome = "sent" /\ faults = 0
  BY <1>0, <1>2 DEF Send
<1>3. ASSUME NEW k \in Kind, NEW written \in BOOLEAN, Record(k, written)
      PROVE  faults = 0
  BY <1>0, <1>3 DEF Record
<1>4. faults = 0
  <2>1. CASE faults' = faults
    BY <2>1
  <2>2. ASSUME NEW k \in Kind, Start(k) \/ JobStep(k) PROVE faults = 0
    BY <1>1, <1>2, <1>3, <2>1, <2>2 DEF Start, JobStep, ListProjects, Visit, ReadDrifts, Choose,
       UpdateThrottle, Proceed
  <2> QED BY <1>1, <1>5, <2>1, <2>2
          DEF AlertsNext, alertVars, Advance, RecordDrift, Disable, SaveConfig
<1> QED BY <1>1, <1>2, <1>4, <1>5

\* Turns were regular before, and no turn has begun during another one.
LEMMA RegularBefore ==
  ASSUME AlertsState, [AlertsNext]_alertVars, TurnsAreRegular'
  PROVE  /\ TurnsAreRegular /\ longest <= longest' /\ shortest' <= shortest
         /\ measured' = measured
<1>1. longest \in Int /\ shortest \in Int /\ longest' \in Int /\ shortest' \in Int
      /\ Interval \in Int /\ Slack \in Int
  <2>1. AlertsState'
    BY AlertsTyped
  <2> QED BY <2>1, DriftFacts DEF AlertsState
<1>2. longest <= longest' /\ shortest' <= shortest /\ measured' = measured
  <2>1. CASE Advance
    <3>1. PICK taken : longest' = IF taken > longest THEN taken ELSE longest
      BY <2>1 DEF Advance
    <3> QED BY <1>1, <2>1, <3>1 DEF Advance
  <2>2. CASE \E k \in Kind : ListProjects(k)
    BY <1>1, <2>2 DEF ListProjects
  <2>3. CASE UNCHANGED turnVars
    BY <1>1, <2>3 DEF turnVars
  <2>4. ASSUME NEW k \in Kind, JobStep(k), ~ListProjects(k) PROVE UNCHANGED turnVars
    BY <2>4 DEF JobStep, Visit, ReadDrifts, Choose, Send, Record, UpdateThrottle,
                FailToUpdate, Proceed
  <2> QED BY <2>1, <2>2, <2>3, <2>4
          DEF AlertsNext, alertVars, RotateKey, Crash, SkipTurn, FailTurn, RecordDrift, Disable,
              SaveConfig, Start
<1>3. longest' < Interval /\ longest' - shortest' <= Slack
  BY DEF TurnsAreRegular
<1>4. longest < Interval /\ longest - shortest <= Slack
  <2>1. longest <= longest' /\ shortest' <= shortest
    BY <1>2
  <2> HIDE DEF TurnsAreRegular
  <2>2. ASSUME NEW a \in Int, NEW b \in Int, NEW c \in Int, NEW e \in Int,
               a <= b, e <= c, b < Interval, b - e <= Slack
        PROVE  a < Interval /\ a - c <= Slack
    BY <1>1, <2>2
  <2> QED BY <1>1, <1>3, <2>1, <2>2
<1> QED BY <1>2, <1>4 DEF TurnsAreRegular

LEMMA NoneIsSkipped ==
  ASSUME AlertsState, Punctual, TurnsAreRegular, [AlertsNext]_alertVars, faults' = 0
  PROVE  ~SkipTurn
  BY FaultsGrow, DriftFacts DEF SkipTurn, JobAt, Punctual, TurnsAreRegular

\* Steps that leave the drift job and its throttle alone.
LEMMA PunctualAside ==
  ASSUME AlertsState, Punctual, UNCHANGED <<now, due, longest, shortest>>,
         job'["schema_drift"] = job["schema_drift"],
         \A p \in Project : throttle'[p]["schema_drift"] = throttle[p]["schema_drift"],
         \A p \in Project : config'[p] # None => config'[p].readable
  PROVE  Punctual'
  BY DEF Punctual, Pending

\* Steps of the drift job itself that take no new turn.
LEMMA PunctualTurn ==
  ASSUME AlertsState, Punctual, UNCHANGED <<now, due, config, longest>>,
         NEW n, job'["schema_drift"] = n,
         job["schema_drift"].pc # "idle", n.pc # "preparing",
         job["schema_drift"].since + shortest' <= now,
         n.pc # "idle" => n.since = job["schema_drift"].since,
         \A p \in Project :
           \/ throttle'[p]["schema_drift"] = throttle[p]["schema_drift"]
           \/ throttle'[p]["schema_drift"] = now /\ ~Pending(p)',
         \A p \in Project : n.pc # "idle" /\ Pending(p)' => Pending(p),
         n.pc \in AtProject => n.project \notin n.left,
         n.pc \in {"visiting", "reading", "sending", "sent", "recorded"} => n.todo = {},
         \A x, y \in n.todo : x = y
  PROVE  Punctual'
<1> DEFINE j == job["schema_drift"]
<1>1. j.since + Interval = due /\ now <= j.since + longest /\ j.since <= now
  BY DEF Punctual
<1>2. ASSUME NEW p \in Project, throttle'[p]["schema_drift"] # None
      PROVE  /\ throttle'[p]["schema_drift"] <= due - Interval + longest
             /\ n.pc # "idle" /\ Pending(p)' =>
                  throttle'[p]["schema_drift"] <= j.since - Interval + longest
  <2>1. CASE throttle'[p]["schema_drift"] = throttle[p]["schema_drift"]
    BY <1>2, <2>1 DEF Punctual
  <2>2. CASE throttle'[p]["schema_drift"] = now /\ ~Pending(p)'
    BY <1>1, <2>2, DriftFacts
  <2> QED BY <2>1, <2>2
<1>3. \A p \in Project : config'[p] # None => config'[p].readable
  BY DEF Punctual
<1>4. n.pc # "idle" => n.since + Interval = due /\ now <= n.since + longest /\ n.since <= now
  BY <1>1
<1>5. due <= now + Interval /\ longest >= 0
  BY DEF Punctual
<1>7. /\ n.pc \notin {"idle", "preparing"} => n.since + shortest' <= now
      /\ n.pc = "idle" => due - Interval + shortest' <= now
  <2>1. due - Interval = j.since
    BY <1>1, DriftFacts
  <2> QED BY <2>1
<1>6. n.pc # "idle" => n.since = j.since
  OBVIOUS
<1> QED BY <1>2, <1>3, <1>4, <1>5, <1>6, <1>7 DEF Punctual

LEMMA PunctualStart ==
  ASSUME AlertsState, Punctual, Start("schema_drift")
  PROVE  Punctual'
<1> DEFINE k == "schema_drift"
<1>0. k \in Kind
  BY DEF Kind
<1>1. now = due /\ due' = now + Interval /\ UNCHANGED <<now, config, throttle, longest, shortest>>
  BY DEF Start, turnVars
<1>2. PICK n : /\ Moves(k, n) /\ n.pc = "preparing" /\ n.since = now /\ n.todo = {}
               /\ n.config = None /\ n.left = {}
  BY <1>0, StartMoves
<1>3. job'[k] = n
  BY <1>0, <1>2 DEF Moves, AlertsState
<1>4. ASSUME NEW p \in Project, throttle[p][k] # None
      PROVE  throttle[p][k] <= now - Interval + longest /\ throttle[p][k] \in Int
  BY <1>0, <1>1, <1>4, DriftFacts DEF Punctual
<1>5. /\ now' = now /\ due' = now + Interval /\ throttle' = throttle /\ config' = config
      /\ longest' = longest /\ longest >= 0
  BY <1>1 DEF Punctual
<1>6. ASSUME NEW p \in Project, throttle'[p][k] # None
      PROVE  /\ throttle'[p][k] <= due' - Interval + longest
             /\ throttle'[p][k] <= n.since - Interval + longest
  BY <1>2, <1>4, <1>5, <1>6, DriftFacts
<1>7. \A p \in Project : config'[p] # None => config'[p].readable
  BY <1>5 DEF Punctual
<1>8. n.since + Interval = due' /\ now' <= n.since + longest /\ n.since <= now'
  BY <1>2, <1>5, DriftFacts
<1> QED BY <1>2, <1>3, <1>5, <1>6, <1>7, <1>8, DriftFacts DEF Punctual, AtProject

LEMMA PunctualStep ==
  ASSUME AlertsState, Spaced, Punctual, faults = 0, TurnsAreRegular,
         [AlertsNext]_alertVars, faults' = 0
  PROVE  Punctual'
<1> DEFINE k == "schema_drift"
<1>0. k \in Kind /\ Kind = {k, "changepoint"}
  BY DEF Kind
<1>1. CASE Advance
  <2>1. /\ now' = now + 1 /\ now < due /\ UNCHANGED <<job, config, due, throttle, shortest>>
        /\ longest' \in Int /\ longest' >= longest
        /\ job[k].pc # "idle" => longest' >= now + 1 - job[k].since
    BY <1>1, DriftFacts DEF Advance, JobAt
  <2>2. ASSUME NEW p \in Project, throttle[p][k] # None
        PROVE  /\ throttle[p][k] <= due - Interval + longest'
               /\ job[k].pc # "idle" /\ Pending(p) =>
                    throttle[p][k] <= job[k].since - Interval + longest'
    BY <1>0, <2>1, <2>2, DriftFacts DEF Punctual
  <2>3. \A p \in Project : Pending(p)' => Pending(p)
    BY <2>1 DEF Pending
  <2>4. /\ longest' >= 0 /\ due <= now' + Interval
        /\ job[k].pc # "idle" => job[k].since <= now' /\ now' <= job[k].since + longest'
        /\ job[k].pc \notin {"idle", "preparing"} => job[k].since + shortest <= now'
        /\ job[k].pc = "idle" => due = Interval \/ due - Interval + shortest <= now'
    BY <2>1, DriftFacts DEF Punctual
  <2> QED BY <2>1, <2>2, <2>3, <2>4 DEF Punctual
<1>2. ASSUME NEW p \in Project, RecordDrift(p) PROVE Punctual'
  BY <1>2, PunctualAside DEF RecordDrift, Punctual, turnVars
<1>3. ASSUME NEW p \in Project, Disable(p) PROVE Punctual'
  <2>1. \A q \in Project : config'[q] # None => config'[q].readable
    BY <1>3 DEF Disable, Punctual, AlertsState
  <2> QED BY <1>3, <2>1, PunctualAside DEF Disable, turnVars
<1>4. ASSUME NEW p \in Project, NEW typed \in BOOLEAN, NEW chat \in Chat, NEW minutes \in Throttle,
             SaveConfig(p, typed, chat, minutes)
      PROVE  Punctual'
  <2>1. \A q \in Project : config'[q] # None => config'[q].readable
    <3>1. typed \/ config[p].readable
      BY <1>4 DEF SaveConfig, Punctual
    <3>2. config'[p].readable = (typed \/ config[p].readable)
      BY <1>4 DEF SaveConfig, AlertsState
    <3>3. \A q \in Project \ {p} : config'[q] = config[q]
      BY <1>4 DEF SaveConfig, AlertsState
    <3> QED BY <3>1, <3>2, <3>3 DEF Punctual
  <2> QED BY <1>4, <2>1, PunctualAside DEF SaveConfig, turnVars
<1>5. ASSUME Start("changepoint") \/ JobStep("changepoint") PROVE Punctual'
  <2>1. job'[k] = job[k]
    <3>1. PICK n : Moves("changepoint", n)
      BY <1>0, <1>5, JobStepMoves
    <3> QED BY <1>0, <3>1 DEF Moves, AlertsState
  <2>2. UNCHANGED <<now, due, config, longest, shortest>>
    BY <1>0, <1>5 DEF turnVars, Start, JobStep, ListProjects, Visit, ReadDrifts, Choose, Send, Record, UpdateThrottle,
                FailToUpdate, Proceed
  <2>3. \A p \in Project : throttle'[p][k] = throttle[p][k]
    <3>1. CASE UpdateThrottle("changepoint")
      <4>1. job["changepoint"].project \in Project
        BY <1>0, <3>1, LogFacts DEF UpdateThrottle, JobAt, AtProject
      <4> QED BY <1>0, <3>1, <4>1 DEF UpdateThrottle, AlertsState
    <3> QED BY <1>5, <3>1 DEF Start, JobStep, ListProjects, Visit, ReadDrifts, Choose, Send, Record,
                              FailToUpdate, Proceed
  <2> QED BY <2>1, <2>2, <2>3, PunctualAside DEF Punctual
<1>6. CASE Start(k)
  BY <1>6, PunctualStart
<1>7. ASSUME JobStep(k) PROVE Punctual'
  <2>0. UNCHANGED <<now, due, config, longest>>
    BY <1>7 DEF turnVars, JobStep, ListProjects, Visit, ReadDrifts, Choose, Send, Record, UpdateThrottle, FailToUpdate,
                Proceed
  <2>a. CASE ListProjects(k)
    <3>1. PICK n : /\ Moves(k, n) /\ n.pc = "visiting" /\ n.since = job[k].since
                   /\ n.todo = job[k].todo
      BY <1>0, <2>a, ListMoves
    <3>2. job'[k] = n
      BY <1>0, <3>1 DEF Moves, AlertsState
    <3>3. job[k].pc = "preparing" /\ job[k].todo = {} /\ throttle' = throttle
      BY <2>a DEF ListProjects, JobAt, Punctual
    <3>4. job[k].since + shortest' <= now
      BY <2>a, DriftFacts DEF ListProjects
    <3>5. \A q \in Project : Pending(q)
      BY <3>3 DEF Pending
    <3>6. n.pc \notin AtProject
      BY <3>1 DEF AtProject
    <3> QED BY <2>0, <3>1, <3>2, <3>3, <3>4, <3>5, <3>6, PunctualTurn
  <2>b. ASSUME ~ListProjects(k), job[k].pc \notin {"idle", "preparing"}
        PROVE  job[k].since + shortest' <= now
    <3>1. shortest' = shortest
      BY <1>7, <2>b DEF turnVars, JobStep, Visit, ReadDrifts, Choose, Send, Record,
                        UpdateThrottle, FailToUpdate, Proceed
    <3> QED BY <2>b, <3>1 DEF Punctual
  <2>1. ASSUME NEW p \in Project, Visit(k, p) PROVE Punctual'
    <3>1. PICK n : /\ Moves(k, n) /\ n.since = job[k].since /\ n.left = job[k].left \ {p}
                   /\ \/ /\ Loaded(p) = None \/ ~Looks(k, p)
                         /\ n.pc = "visiting" /\ n.project = job[k].project
                         /\ n.config = job[k].config /\ n.todo = job[k].todo
                      \/ /\ Loaded(p) # None /\ Looks(k, p) /\ n.project = p /\ n.config = Loaded(p)
                         /\ k = "schema_drift" => n.pc = "reading" /\ n.todo = {}
                         /\ k = "changepoint" => n.pc = "notifying"
      BY <1>0, <2>1, VisitMoves
    <3>2. job'[k] = n
      BY <1>0, <3>1 DEF Moves, AlertsState
    <3>3. job[k].pc = "visiting" /\ job[k].todo = {} /\ p \in job[k].left /\ throttle' = throttle
      BY <2>1 DEF Visit, JobAt, Punctual
    <3>4. n.todo = {} /\ n.pc \in {"visiting", "reading"}
      BY <3>1, <3>3
    <3>5. \A q \in Project : Pending(q)' => Pending(q)
      BY <3>1, <3>2, <3>3 DEF Pending
    <3>6. n.pc \in AtProject => n.project \notin n.left
      BY <3>1 DEF AtProject
    <3>s. ~ListProjects(k)
      BY <3>3 DEF ListProjects, JobAt
    <3> QED BY <2>b, <3>s, <2>0, <3>1, <3>2, <3>3, <3>4, <3>5, <3>6, PunctualTurn
  <2>2. CASE ReadDrifts(k)
    <3>1. PICK n : /\ Moves(k, n) /\ n.pc = "notifying"
                   /\ n.todo = (IF Seen(k) = {} THEN {} ELSE {Seen(k)})
                   /\ n.left = job[k].left /\ n.project = job[k].project
                   /\ n.config = job[k].config /\ n.since = job[k].since
      BY <1>0, <2>2, ReadDriftsMoves
    <3>2. job'[k] = n
      BY <1>0, <3>1 DEF Moves, AlertsState
    <3>3. job[k].pc = "reading" /\ throttle' = throttle /\ job[k].project \notin job[k].left
      BY <2>2 DEF ReadDrifts, JobAt, Punctual, AtProject
    <3>5. \A q \in Project : Pending(q)' => Pending(q)
      BY <3>1, <3>2, <3>3 DEF Pending
    <3>6. \A x, y \in n.todo : x = y
      BY <3>1
    <3>s. ~ListProjects(k)
      BY <3>3 DEF ListProjects, JobAt
    <3> QED BY <2>b, <3>s, <2>0, <3>1, <3>2, <3>3, <3>5, <3>6, PunctualTurn
  <2>3. ASSUME NEW batch \in job[k].todo, Choose(k, batch) PROVE Punctual'
    <3>1. PICK n : /\ Moves(k, n)
                   /\ n.pc = (IF Throttled(k) THEN "notifying" ELSE "sending")
                   /\ n.todo = job[k].todo \ {batch} /\ n.batch = batch
                   /\ n.left = job[k].left /\ n.project = job[k].project
                   /\ n.config = job[k].config /\ n.since = job[k].since
      BY <1>0, <2>3, ChooseMoves
    <3>2. job'[k] = n
      BY <1>0, <3>1 DEF Moves, AlertsState
    <3>3. job[k].pc = "notifying" /\ throttle' = throttle /\ job[k].project \notin job[k].left
      BY <2>3 DEF Choose, JobAt, Punctual, AtProject
    <3>4. n.todo = {}
      BY <2>3, <3>1 DEF Punctual
    <3>5. n.pc \in {"notifying", "sending"}
      BY <3>1, Zenon
    <3>6. \A q \in Project : Pending(q)' => Pending(q)
      BY <3>1, <3>2, <3>4, <3>5 DEF Pending
    <3>s. ~ListProjects(k)
      BY <3>3 DEF ListProjects, JobAt
    <3> QED BY <2>b, <3>s, <2>0, <3>1, <3>2, <3>3, <3>4, <3>5, <3>6, PunctualTurn
  <2>4. CASE /\ \E pc \in AtProject : job' = [job EXCEPT ![k].pc = pc]
             /\ job[k].pc \in {"sending", "sent", "recorded"}
             /\ job'[k].pc \in {"sent", "recorded", "notifying"}
             /\ \A p \in Project : throttle'[p][k] = throttle[p][k]
                                   \/ (throttle'[p][k] = now /\ p = job[k].project)
    <3>0. PICK pc \in AtProject : job' = [job EXCEPT ![k].pc = pc]
      BY <2>4
    <3>1. job[k].pc \in AtProject
      BY <2>4 DEF AtProject
    <3>2. \E n : /\ Moves(k, n) /\ n.pc = pc
                 /\ n.todo = job[k].todo /\ n.batch = job[k].batch
                 /\ n.left = job[k].left /\ n.project = job[k].project
                 /\ n.config = job[k].config /\ n.since = job[k].since
      BY <1>0, <3>0, <3>1, StepMoves
    <3>3. PICK n : /\ Moves(k, n) /\ n.todo = job[k].todo
                   /\ n.left = job[k].left /\ n.project = job[k].project
                   /\ n.config = job[k].config /\ n.since = job[k].since
      BY <3>2
    <3>4. job'[k] = n /\ n.pc \in {"sent", "recorded", "notifying"}
      BY <1>0, <2>4, <3>3 DEF Moves, AlertsState
    <3>5. job[k].todo = {} /\ job[k].project \notin job[k].left
      BY <2>4, <3>1 DEF Punctual
    <3>6. \A q \in Project : Pending(q)' => Pending(q) /\ q \in job[k].left
      BY <3>3, <3>4, <3>5 DEF Pending
    <3>7. \A p \in Project : \/ throttle'[p][k] = throttle[p][k]
                             \/ throttle'[p][k] = now /\ ~Pending(p)'
      BY <2>4, <3>5, <3>6
    <3>8. job[k].pc \notin {"idle", "preparing"}
      BY <2>4
    <3>s. ~ListProjects(k)
      BY <2>4 DEF ListProjects, JobAt
    <3> QED BY <2>b, <3>s, <2>0, <3>3, <3>4, <3>5, <3>6, <3>7, <3>8, PunctualTurn
  <2>5. ASSUME NEW outcome \in Outcome, Send(k, outcome) PROVE Punctual'
    <3>1. /\ job[k].pc = "sending" /\ job' = [job EXCEPT ![k].pc = "sent"]
          /\ throttle' = throttle
      BY <2>5 DEF Send, JobAt
    <3>2. job'[k].pc = "sent"
      BY <1>0, <3>1 DEF AlertsState, JobState
    <3> QED BY <2>4, <3>1, <3>2 DEF AtProject
  <2>6. ASSUME NEW written \in BOOLEAN, Record(k, written) PROVE Punctual'
    <3>1. /\ job[k].pc = "sent" /\ throttle' = throttle
          /\ \E pc \in {"recorded", "notifying"} : job' = [job EXCEPT ![k].pc = pc]
      BY <2>6 DEF Record, JobAt
    <3>2. job'[k].pc \in {"recorded", "notifying"}
      BY <1>0, <3>1 DEF AlertsState, JobState
    <3> QED BY <2>4, <3>1, <3>2 DEF AtProject
  <2>7. CASE UpdateThrottle(k)
    <3>1. /\ job[k].pc = "recorded" /\ job' = [job EXCEPT ![k].pc = "notifying"]
      BY <2>7 DEF UpdateThrottle, JobAt
    <3>2. job'[k].pc = "notifying"
      BY <1>0, <3>1 DEF AlertsState, JobState
    <3>3. job[k].project \in Project
      BY <1>0, <3>1, LogFacts DEF AtProject
    <3>4. \A p \in Project : throttle'[p][k] = throttle[p][k]
                             \/ (throttle'[p][k] = now /\ p = job[k].project)
      BY <1>0, <2>7, <3>3 DEF UpdateThrottle, AlertsState
    <3> QED BY <2>4, <3>1, <3>2, <3>4 DEF AtProject
  <2>8. CASE Proceed(k)
    <3>1. PICK n : /\ Moves(k, n)
                   /\ \/ /\ n.pc = "idle" /\ job[k].pc = "visiting" /\ job[k].left = {}
                         /\ n.config = None /\ n.todo = {}
                      \/ /\ n.pc = "visiting" /\ job[k].pc = "notifying" /\ job[k].todo = {}
                         /\ n.todo = {} /\ n.left = job[k].left /\ n.project = job[k].project
                         /\ n.config = job[k].config /\ n.since = job[k].since
      BY <1>0, <2>8, ProceedMoves
    <3>2. job'[k] = n /\ throttle' = throttle
      BY <1>0, <2>8, <3>1 DEF Moves, AlertsState, Proceed
    <3>3. n.pc = "visiting" => \A q \in Project : Pending(q)' => Pending(q)
      BY <3>1, <3>2 DEF Pending
    <3>4. n.todo = {}
      BY <3>1
    <3>5. n.pc \notin AtProject /\ job[k].pc # "idle"
      BY <3>1 DEF AtProject
    <3>s. ~ListProjects(k)
      BY <3>1 DEF ListProjects, JobAt
    <3> QED BY <2>b, <3>s, <2>0, <3>1, <3>2, <3>3, <3>4, <3>5, PunctualTurn
  <2>9. ~FailToUpdate(k)
    BY <1>0, FaultsGrow
  <2> QED BY <1>7, <2>1, <2>2, <2>3, <2>5, <2>6, <2>7, <2>8, <2>9, <2>a DEF JobStep
<1>8. CASE UNCHANGED alertVars
  BY <1>8, PunctualAside DEF alertVars, turnVars, Punctual
<1>9. ~RotateKey /\ ~Crash /\ ~FailTurn /\ ~SkipTurn
  BY FaultsGrow, NoneIsSkipped
<1> QED BY <1>0, <1>1, <1>2, <1>3, <1>4, <1>5, <1>6, <1>7, <1>8, <1>9 DEF AlertsNext

\* A drift stays announced, and a step that changes neither what the drift job
\* does nor its projects' settings leaves the others awaited.
LEMMA AnnouncedStays ==
  ASSUME AlertsState, NEW d, Announced(d), [AlertsNext]_alertVars
  PROVE  Announced(d)'
<1>1. PICK i \in DOMAIN attempts : d \in attempts[i].about
  BY DEF Announced
<1>2. CASE attempts' = attempts
  BY <1>1, <1>2 DEF Announced
<1>3. ASSUME NEW k \in Kind, NEW outcome \in Outcome, Send(k, outcome) PROVE Announced(d)'
  BY <1>1, <1>3, SendAppends DEF Announced
<1>4. ASSUME NEW k \in Kind, NEW written \in BOOLEAN, Record(k, written) PROVE Announced(d)'
  BY <1>1, <1>4, RecordKeeps DEF Announced, Kept
<1>5. ASSUME NEW k \in Kind, UpdateThrottle(k) PROVE Announced(d)'
  BY <1>1, <1>5, UpdateKeeps DEF Announced, Kept
<1>6. ASSUME NEW k \in Kind, Start(k) \/ JobStep(k) PROVE Announced(d)'
  BY <1>2, <1>3, <1>4, <1>5, <1>6
     DEF Start, JobStep, ListProjects, Visit, ReadDrifts, Choose, FailToUpdate, Proceed
<1> QED BY <1>2, <1>6 DEF AlertsNext, alertVars, Advance, RotateKey, Crash, SkipTurn, FailTurn, RecordDrift,
                          Disable, SaveConfig

\* Whoever expects a drift after a step did so before it, with the same settings.
LEMMA ExpectedBefore ==
  ASSUME AlertsState, NEW d \in drifts, d.at <= now, Expects(d)', [AlertsNext]_alertVars,
         ~RotateKey
  PROVE  Expects(d) /\ config'[d.project] = config[d.project]
<1>r. /\ TurnsAreRegular /\ measured' = measured
      /\ \A x \in Int : x >= longest' - Slack => x >= longest - Slack
  <2>1. AlertsState'
    BY AlertsTyped
  <2>2. TurnsAreRegular /\ measured' = measured /\ longest <= longest'
    BY RegularBefore DEF Expects
  <2>3. longest \in Int /\ longest' \in Int /\ Slack \in Int
    BY <2>1, DriftFacts DEF AlertsState
  <2>4. \A x \in Int : x >= longest' - Slack => x >= longest - Slack
    <3>1. ASSUME NEW a \in Int, NEW b \in Int, NEW c \in Int, NEW x \in Int, a <= b, x >= b - c
          PROVE  x >= a - c
      BY <3>1
    <3> QED BY <2>2, <2>3, <3>1
  <2> QED BY <2>2, <2>4
<1>0. d.project \in Project /\ d.at \in Int /\ now \in Int
  <2>1. d \in [project: Project, at: 0 .. MaxNow]
    BY DEF AlertsState
  <2> QED BY <2>1 DEF AlertsState
<1>1. CASE config'[d.project] = config[d.project] /\ settled'[d.project] = settled[d.project]
  BY <1>0, <1>1, <1>r DEF Expects
<1>2. ASSUME NEW p \in Project, Disable(p) PROVE Expects(d) /\ config'[d.project] = config[d.project]
  BY <1>0, <1>1, <1>2 DEF Disable, Expects, AlertsState
<1>3. ASSUME NEW p \in Project, NEW typed \in BOOLEAN, NEW chat \in Chat, NEW minutes \in Throttle,
             SaveConfig(p, typed, chat, minutes)
      PROVE  Expects(d) /\ config'[d.project] = config[d.project]
  <2>1. CASE p = d.project
    <3>1. settled'[d.project] = now
      BY <1>0, <1>3, <2>1 DEF SaveConfig, AlertsState
    <3> QED BY <1>0, <3>1 DEF Expects
  <2>2. CASE p # d.project
    <3>1. config'[d.project] = config[d.project] /\ settled'[d.project] = settled[d.project]
      BY <1>0, <1>3, <2>2 DEF SaveConfig, AlertsState
    <3> QED BY <1>1, <3>1
  <2> QED BY <2>1, <2>2
<1>4. CASE UNCHANGED <<config, settled>>
  BY <1>1, <1>4
<1>5. ASSUME NEW k \in Kind, Start(k) \/ JobStep(k) PROVE UNCHANGED <<config, settled>>
  BY <1>5 DEF Start, JobStep, ListProjects, Visit, ReadDrifts, Choose, Send, Record, UpdateThrottle,
              FailToUpdate, Proceed
<1> QED BY <1>2, <1>3, <1>4, <1>5
        DEF AlertsNext, alertVars, Advance, Crash, SkipTurn, FailTurn, RecordDrift

\* What is awaited of the drift job, it does or has still to do.
LEMMA AwaitedStep ==
  ASSUME AlertsState, Punctual, NEW d \in drifts, Expects(d), Awaited(d),
         config'[d.project] = config[d.project], JobStep("schema_drift"),
         ~FailToUpdate("schema_drift"), shortest' <= shortest, shortest' \in Int
  PROVE  Awaited(d)' \/ Announced(d)'
<1> DEFINE k == "schema_drift"
           j == job["schema_drift"]
<1>0. k \in Kind /\ d.project \in Project /\ d.at \in Int
  <2>1. d \in [project: Project, at: 0 .. MaxNow]
    BY DEF AlertsState
  <2> QED BY <2>1 DEF Kind
<1>1. /\ j.pc # "idle" /\ Covers(j.since, d)
      /\ j.since = Interval \/ j.since - Interval + shortest' <= d.at
  <2>1. j.since - Interval + shortest <= d.at => j.since - Interval + shortest' <= d.at
    BY <1>0, DriftFacts
  <2>2. Covers(j.since, d)
    BY DEF Awaited
  <2>3. j.since = Interval \/ j.since - Interval + shortest' <= d.at
    BY <2>1, <2>2 DEF Covers
  <2> QED BY <2>2, <2>3 DEF Awaited
<1>2. ASSUME d.project \in job'[k].left, job'[k].pc # "idle", job'[k].since = j.since
      PROVE  Awaited(d)'
  BY <1>1, <1>2 DEF Awaited, Covers
<1>3. ASSUME job'[k].project = d.project, job'[k].config = config[d.project],
             job'[k].pc # "idle", job'[k].since = j.since,
             \/ job'[k].pc = "reading"
             \/ job'[k].pc = "notifying" /\ \E batch \in job'[k].todo : d \in batch
             \/ job'[k].pc = "sending" /\ d \in job'[k].batch
      PROVE  Awaited(d)'
  BY <1>1, <1>3 DEF Awaited, Covers
<1>a. CASE ListProjects(k)
  <2>1. PICK n : /\ Moves(k, n) /\ n.pc = "visiting" /\ n.since = job[k].since
                 /\ n.left = {Legacy} \cup {p \in Project : config[p] # None}
    BY <1>0, <1>a, ListMoves
  <2>2. job'[k] = n
    BY <1>0, <2>1 DEF Moves, AlertsState
  <2>3. d.project \in n.left
    BY <1>0, <2>1 DEF Expects
  <2> QED BY <1>2, <2>1, <2>2, <2>3
<1>4. ASSUME NEW p \in Project, Visit(k, p) PROVE Awaited(d)'
  <2>1. PICK n : /\ Moves(k, n) /\ n.since = job[k].since /\ n.left = job[k].left \ {p}
                 /\ \/ /\ Loaded(p) = None \/ ~Looks(k, p)
                       /\ n.pc = "visiting" /\ n.project = job[k].project
                       /\ n.config = job[k].config /\ n.todo = job[k].todo
                    \/ /\ Loaded(p) # None /\ Looks(k, p) /\ n.project = p /\ n.config = Loaded(p)
                       /\ k = "schema_drift" => n.pc = "reading" /\ n.todo = {}
                       /\ k = "changepoint" => n.pc = "notifying"
    BY <1>0, <1>4, VisitMoves
  <2>2. job'[k] = n /\ n.pc \in {"visiting", "reading"}
    BY <1>0, <2>1 DEF Moves, AlertsState
  <2>3. j.pc = "visiting"
    BY <1>4 DEF Visit, JobAt
  <2>4. d.project \in j.left
    BY <2>3 DEF Awaited
  <2>5. CASE p # d.project
    BY <1>2, <2>1, <2>2, <2>4, <2>5
  <2>6. CASE p = d.project
    <3>1. config[p] # None /\ config[p].readable /\ Looks(k, p)
      BY <2>6 DEF Expects, Punctual, Looks
    <3>2. Loaded(p) = config[p]
      BY <3>1 DEF Loaded
    <3>3. n.project = p /\ n.config = config[p] /\ n.pc = "reading"
      BY <2>1, <3>1, <3>2
    <3> QED BY <1>3, <2>1, <2>2, <2>6, <3>3
  <2> QED BY <2>5, <2>6
<1>5. CASE ReadDrifts(k)
  <2>1. PICK n : /\ Moves(k, n) /\ n.pc = "notifying"
                 /\ n.todo = (IF Seen(k) = {} THEN {} ELSE {Seen(k)})
                 /\ n.left = job[k].left /\ n.project = job[k].project
                 /\ n.config = job[k].config /\ n.since = job[k].since
    BY <1>0, <1>5, ReadDriftsMoves
  <2>2. job'[k] = n /\ j.pc = "reading"
    BY <1>0, <1>5, <2>1 DEF Moves, AlertsState, ReadDrifts, JobAt
  <2>3. CASE d.project \in j.left
    BY <1>2, <2>1, <2>2, <2>3
  <2>4. CASE d.project \notin j.left
    <3>1. j.project = d.project /\ j.config = config[d.project]
      BY <2>2, <2>4 DEF Awaited
    <3>2. now <= j.since + longest /\ longest - shortest <= Slack /\ d.at >= longest - Slack
      BY <1>1 DEF Punctual, Expects, TurnsAreRegular
    <3>6. d.at >= now - (Interval + Slack)
      BY <1>0, <1>1, <3>2, DriftFacts DEF Covers
    <3>3. d \in Seen(k)
      BY <3>1, <3>6 DEF Seen, InWindow
    <3>4. n.todo = {Seen(k)}
      BY <2>1, <3>3
    <3>5. \E batch \in n.todo : d \in batch
      BY <3>3, <3>4
    <3> QED BY <1>3, <2>1, <2>2, <3>1, <3>5
  <2> QED BY <2>3, <2>4
<1>6. ASSUME NEW batch \in job[k].todo, Choose(k, batch) PROVE Awaited(d)'
  <2>1. PICK n : /\ Moves(k, n)
                 /\ n.pc = (IF Throttled(k) THEN "notifying" ELSE "sending")
                 /\ n.todo = job[k].todo \ {batch} /\ n.batch = batch
                 /\ n.left = job[k].left /\ n.project = job[k].project
                 /\ n.config = job[k].config /\ n.since = job[k].since
    BY <1>0, <1>6, ChooseMoves
  <2>2. job'[k] = n /\ j.pc = "notifying" /\ n.pc \in {"notifying", "sending"}
    <3>1. job'[k] = n /\ j.pc = "notifying"
      BY <1>0, <1>6, <2>1 DEF Moves, AlertsState, Choose, JobAt
    <3> QED BY <2>1, <3>1, Zenon
  <2>3. CASE d.project \in j.left
    BY <1>2, <2>1, <2>2, <2>3
  <2>4. CASE d.project \notin j.left
    <3>1. /\ j.project = d.project /\ j.config = config[d.project]
          /\ \E b \in j.todo : d \in b
      BY <2>2, <2>4 DEF Awaited
    <3>2. d \in batch
      BY <1>6, <3>1 DEF Punctual
    <3> DEFINE last == throttle[d.project][k]
    <3>3. ASSUME last # None PROVE now - last >= j.config.throttle
      <4>1. Pending(d.project)
        BY <1>6, <2>2, <3>1 DEF Pending
      <4>2. /\ last <= j.since - Interval + longest /\ j.since + shortest <= now
            /\ longest - shortest <= Slack
        BY <1>0, <1>1, <2>2, <3>3, <4>1 DEF Punctual, Expects, TurnsAreRegular
      <4>3. last \in Int /\ j.config.throttle \in Int /\ j.config.throttle <= Interval - Slack
        <5>1. j.config.throttle \in Int
          BY <1>0, <2>2, LogFacts DEF AtProject
        <5> QED BY <1>0, <3>1, <3>3, <5>1, DriftFacts DEF Expects
      <4> QED BY <4>2, <4>3, DriftFacts
    <3>4. ~Throttled(k)
      <4>1. \A x \in Int : last # None /\ last \in Int /\ now - last >= x => ~(now - last < x)
        BY DriftFacts
      <4>2. j.config.throttle \in Int /\ (last # None => last \in Int)
        BY <1>0, <2>2, LogFacts DEF AtProject
      <4> QED BY <3>1, <3>3, <4>1, <4>2 DEF Throttled
    <3>5. n.pc = "sending"
      BY <2>1, <3>4
    <3> QED BY <1>3, <2>1, <2>2, <3>1, <3>2, <3>5
  <2> QED BY <2>3, <2>4
<1>7. ASSUME NEW outcome \in Outcome, Send(k, outcome) PROVE Awaited(d)' \/ Announced(d)'
  <2>1. j.pc = "sending" /\ job' = [job EXCEPT ![k].pc = "sent"]
    BY <1>7 DEF Send, JobAt
  <2>2. job'[k].pc = "sent" /\ job'[k].left = j.left /\ job'[k].since = j.since
    BY <1>0, <2>1 DEF AlertsState, JobState
  <2>3. CASE d.project \in j.left
    BY <1>2, <2>2, <2>3
  <2>4. CASE d.project \notin j.left
    <3>1. d \in j.batch
      BY <2>1, <2>4 DEF Awaited
    <3>2. /\ Len(attempts) + 1 \in DOMAIN attempts'
          /\ attempts'[Len(attempts) + 1].about = j.batch
      BY <1>0, <1>7, SendAppends
    <3> QED BY <3>1, <3>2 DEF Announced
  <2> QED BY <2>3, <2>4
<1>8. CASE (\E written \in BOOLEAN : Record(k, written)) \/ UpdateThrottle(k)
  <2>1. /\ j.pc \in {"sent", "recorded"}
        /\ \E pc \in {"recorded", "notifying"} : job' = [job EXCEPT ![k].pc = pc]
    BY <1>8 DEF Record, UpdateThrottle, JobAt
  <2>2. /\ job'[k].pc \in {"recorded", "notifying"} /\ job'[k].left = j.left
        /\ job'[k].since = j.since
    BY <1>0, <2>1 DEF AlertsState, JobState
  <2>3. d.project \in j.left
    BY <2>1 DEF Awaited
  <2> QED BY <1>2, <2>2, <2>3
<1>9. CASE Proceed(k)
  <2>1. PICK n : /\ Moves(k, n)
                 /\ \/ /\ n.pc = "idle" /\ job[k].pc = "visiting" /\ job[k].left = {}
                       /\ n.config = None /\ n.todo = {}
                    \/ /\ n.pc = "visiting" /\ job[k].pc = "notifying" /\ job[k].todo = {}
                       /\ n.todo = {} /\ n.left = job[k].left /\ n.project = job[k].project
                       /\ n.config = job[k].config /\ n.since = job[k].since
    BY <1>0, <1>9, ProceedMoves
  <2>2. job'[k] = n
    BY <1>0, <2>1 DEF Moves, AlertsState
  <2>3. d.project \in j.left /\ n.pc = "visiting"
    BY <2>1 DEF Awaited
  <2> QED BY <1>2, <2>1, <2>2, <2>3
<1> QED BY <1>4, <1>5, <1>6, <1>7, <1>8, <1>9, <1>a DEF JobStep

LEMMA DriftsAwaitedStep ==
  ASSUME AlertsState, Punctual, DriftsAwaited, [AlertsNext]_alertVars, faults' = 0,
         TurnsAreRegular'
  PROVE  DriftsAwaited'
<1> DEFINE k == "schema_drift"
<1>0. k \in Kind /\ Kind = {k, "changepoint"} /\ drifts \subseteq [project: Project, at: 0 .. MaxNow]
  BY DEF Kind, AlertsState
<1>r. /\ TurnsAreRegular /\ shortest' <= shortest /\ shortest \in Int /\ shortest' \in Int
      /\ due \in Int /\ Interval \in Int
  <2>1. AlertsState'
    BY AlertsTyped
  <2> QED BY <2>1, RegularBefore, DriftFacts DEF AlertsState
<1>1. ~RotateKey /\ ~Crash /\ ~FailToUpdate(k) /\ ~FailTurn /\ ~SkipTurn
  BY <1>0, <1>r, FaultsGrow, NoneIsSkipped
<1>2. now' \in {now, now + 1} /\ now \in Int
  BY DriftFacts DEF AlertsNext, alertVars, Advance, RotateKey, Crash, SkipTurn, FailTurn, RecordDrift,
     Disable, SaveConfig, Start, JobStep, ListProjects, Visit, ReadDrifts, Choose, Send, Record, UpdateThrottle,
     FailToUpdate, Proceed
<1>3. ASSUME NEW d \in drifts, Expects(d)'
      PROVE  Covers(due, d)' \/ Announced(d)' \/ Awaited(d)'
  <2>0. d.project \in Project /\ d.at \in Int /\ d.at <= now
    BY <1>0 DEF DriftsAwaited
  <2>1. Expects(d) /\ config'[d.project] = config[d.project]
    BY <1>1, <1>3, <2>0, ExpectedBefore
  <2>2. CASE Announced(d)
    BY <2>2, AnnouncedStays
  <2>c. \A x \in Int : Covers(x, d) => x = Interval \/ x - Interval + shortest' <= d.at
    <3>1. \A x \in Int : x - Interval + shortest <= d.at => x - Interval + shortest' <= d.at
      BY <1>r, <2>0
    <3> QED BY <3>1 DEF Covers
  <2>3. CASE Covers(due, d)
    <3>1. CASE due' = due
      BY <1>r, <2>3, <2>c, <3>1 DEF Covers
    <3>2. CASE Start(k)
      <4>1. PICK n : Moves(k, n) /\ n.pc = "preparing" /\ n.since = now
        BY <1>0, <3>2, StartMoves
      <4>2. job'[k] = n /\ now = due
        BY <1>0, <3>2, <4>1 DEF Moves, AlertsState, Start
      <4> QED BY <1>r, <2>3, <2>c, <4>1, <4>2 DEF Awaited, Covers
    <3>3. CASE Start("changepoint")
      BY <3>1, <3>3 DEF Start
    <3>4. CASE \E o \in Kind : JobStep(o)
      <4>1. due' = due
        BY <3>4 DEF JobStep, ListProjects, Visit, ReadDrifts, Choose, Send, Record, UpdateThrottle,
                    FailToUpdate, Proceed
      <4> QED BY <3>1, <4>1
    <3> QED BY <1>0, <1>1, <3>1, <3>2, <3>3, <3>4
            DEF AlertsNext, alertVars, Advance, RecordDrift, Disable, SaveConfig
  <2>4. CASE Awaited(d)
    <3>1. CASE job'[k] = job[k]
      <4>1. job[k].since \in Int
        BY DriftFacts
      <4> QED BY <2>1, <2>4, <2>c, <3>1, <4>1 DEF Awaited, Covers
    <3>2. CASE JobStep(k)
      BY <1>1, <1>r, <2>1, <2>4, <3>2, AwaitedStep
    <3>3. ~Start(k)
      BY <2>4 DEF Start, JobAt, Awaited
    <3>4. CASE Start("changepoint") \/ JobStep("changepoint")
      <4>1. PICK n : Moves("changepoint", n)
        BY <1>0, <3>4, JobStepMoves
      <4>2. job'[k] = job[k]
        BY <1>0, <4>1 DEF Moves, AlertsState
      <4> QED BY <3>1, <4>2
    <3> QED BY <1>0, <1>1, <3>1, <3>2, <3>3, <3>4
            DEF AlertsNext, alertVars, Advance, RecordDrift, Disable, SaveConfig
  <2> QED BY <2>1, <2>2, <2>3, <2>4 DEF DriftsAwaited
<1>4. ASSUME NEW d \in drifts', d \notin drifts
      PROVE  d.at <= now' /\ (Covers(due, d)' \/ Awaited(d)')
  <2>1. PICK p \in Project : RecordDrift(p)
    BY <1>4 DEF AlertsNext, alertVars, Advance, RotateKey, Crash, SkipTurn, FailTurn, Disable,
       SaveConfig, Start, JobStep, ListProjects, Visit, ReadDrifts, Choose, Send, Record, UpdateThrottle, FailToUpdate, Proceed
  <2>2. /\ d.at = now /\ now' = now /\ due' = due /\ job' = job /\ shortest' = shortest
    BY <1>4, <2>1 DEF RecordDrift, turnVars
  <2>3. CASE job[k].pc # "preparing"
    <3>1. due = Interval \/ due - Interval + shortest <= now
      <4>1. job[k].pc # "idle" => due - Interval = job[k].since
        BY DriftFacts DEF Punctual
      <4> QED BY <2>3, <4>1 DEF Punctual
    <3> QED BY <1>2, <2>2, <3>1 DEF Covers
  <2>4. CASE job[k].pc = "preparing"
    <3>1. job[k].since - Interval + shortest <= now
      BY <2>4, DriftFacts DEF Punctual
    <3> QED BY <1>2, <2>2, <2>4, <3>1 DEF Covers, Awaited
  <2> QED BY <2>3, <2>4
<1>5. \A d \in drifts : d.at \in Int /\ d.at <= now
  BY <1>0 DEF DriftsAwaited
<1> QED BY <1>2, <1>3, <1>4, <1>5 DEF DriftsAwaited

LEMMA DriftInvariance == AlertsSpec => []DriftInv
<1>1. AlertsInit => DriftInv
  <2> SUFFICES ASSUME AlertsInit PROVE DriftInv
    OBVIOUS
  <2>1. "schema_drift" \in Kind /\ job["schema_drift"] = JobIdle
    BY DEF AlertsInit, Kind
  <2>2. JobIdle.pc = "idle" /\ JobIdle.todo = {}
    BY DEF JobIdle
  <2>3. Punctual
    BY <2>1, <2>2, AlertsAssumption DEF AlertsInit, Punctual, AtProject
  <2> QED BY <2>3 DEF AlertsInit, DriftInv, DriftsAwaited
<1>2. AlertsInv /\ DriftInv /\ [AlertsNext]_alertVars => DriftInv'
  <2> SUFFICES ASSUME AlertsInv, DriftInv, [AlertsNext]_alertVars, faults' = 0,
                      TurnsAreRegular'
               PROVE  Punctual' /\ DriftsAwaited'
    BY DEF DriftInv
  <2>1. faults = 0 /\ TurnsAreRegular /\ AlertsState /\ Spaced
    BY FaultsGrow, RegularBefore DEF AlertsInv
  <2>2. Punctual /\ DriftsAwaited
    BY <2>1 DEF DriftInv
  <2> QED BY <2>1, <2>2, PunctualStep, DriftsAwaitedStep
<1> QED BY <1>1, <1>2, AlertsInvariance, PTL DEF AlertsSpec

\* Drifts are announced: as long as nothing fails, turns of the drift job end
\* before the next is due and what they collect first takes the same time within
\* Slack, its windows overlap enough, and a throttle of less than a turn keeps
\* back little enough, that every drift recorded in a table with metrics is sent
\* in time to a project that has settings (_notify_schema_drift_events).
THEOREM DriftsAreAlwaysAnnounced == AlertsSpec => []DriftIsAnnounced
<1>1. AlertsInv /\ DriftInv => DriftIsAnnounced
  <2> SUFFICES ASSUME AlertsInv, DriftInv, NEW d \in drifts, faults = 0,
                      TurnsAreRegular, d.project \in measured,
                      config[d.project] # None, settled[d.project] < d.at,
                      config[d.project].throttle <= Interval - Slack,
                      d.at >= longest - Slack,
                      now > d.at + Interval + Slack
               PROVE  \E i \in DOMAIN attempts : d \in attempts[i].about
    BY DEF DriftIsAnnounced
  <2>1. AlertsState /\ Punctual /\ DriftsAwaited
    BY DEF AlertsInv, DriftInv
  <2>2. d.at \in Int
    <3>1. d \in [project: Project, at: 0 .. MaxNow]
      BY <2>1 DEF AlertsState
    <3> QED BY <3>1
  <2>3. Covers(due, d) \/ Announced(d) \/ Awaited(d)
    BY <2>1 DEF DriftsAwaited, Expects
  <2>4. due >= now
    BY <2>1 DEF AlertsState
  <2>a. longest - shortest <= Slack /\ longest >= 0 /\ d.at >= 0
    <3>1. d \in [project: Project, at: 0 .. MaxNow]
      BY <2>1 DEF AlertsState
    <3> QED BY <2>1, <3>1 DEF Punctual, TurnsAreRegular
  <2>5. ~Covers(due, d)
    BY <2>1, <2>2, <2>4, <2>a, DriftFacts DEF Covers
  <2>6. ~Awaited(d)
    <3>1. ASSUME Awaited(d) PROVE FALSE
      <4>1. Covers(job["schema_drift"].since, d) /\ now <= job["schema_drift"].since + longest
        BY <2>1, <3>1 DEF Awaited, Punctual
      <4> QED BY <2>1, <2>2, <2>a, <4>1, DriftFacts DEF Covers
    <3> QED BY <3>1
  <2> QED BY <2>3, <2>5, <2>6 DEF Announced
<1> QED BY <1>1, AlertsInvariance, DriftInvariance, PTL

------------------------------------------------------------------------------
\* The models that the application fits (ModelFiles)

\* A set of positive numbers up to a bound has a greatest element.
LEMMA GreatestOfAll ==
  ASSUME NEW n \in Nat, NEW S, S \subseteq 1 .. n, S # {}
  PROVE  Max(S) \in S
<1> DEFINE R == {ss \in Nat \X Nat : ss[1] < ss[2]}
           T == {n - x : x \in S}
<1>1. IsWellFoundedOn(R, Nat)
  BY NatLessThanWellFounded DEF OpToRel
<1>2. T \subseteq Nat /\ T # {}
  <2>1. \A x \in S : n - x \in Nat
    OBVIOUS
  <2> QED BY <2>1
<1> HIDE DEF R, T
<1>3. PICK t \in T : \A y \in T : <<y, t>> \notin R
  BY <1>1, <1>2, WFMin
<1>4. PICK x \in S : t = n - x
  BY DEF T
<1>5. ASSUME NEW y \in S PROVE x >= y
  <2>1. n - y \in T /\ n - y \in Nat /\ t \in Nat
    BY <1>2 DEF T
  <2>2. ~(n - y < t)
    BY <1>3, <2>1 DEF R
  <2> QED BY <1>4, <2>2
<1>6. \E m \in S : \A y \in S : m >= y
  BY <1>5
<1> QED BY <1>6 DEF Max

ShiftState == [at: 1 .. MaxHour, severe: BOOLEAN]

WorkerStep ==
  {"idle", "training", "fitting", "dumping", "writing", "asked", "asked for shift", "loading",
   "reloading", "predicting"}

WorkerState ==
  [pc: WorkerStep, model: Model \cup {None}, asked: BOOLEAN, last: {None} \cup 1 .. MaxHour,
   knows: {None} \cup 1 .. MaxHour, shift: ShiftState \cup {None}, fitted: Payload \cup {None},
   used: Payload \cup {None}, quiet: BOOLEAN,
   outcome: {None, "insufficient", "trained", "error", "predicted"}]

\* A trained model was fitted to the past, and not across a severe drop that is
\* not old.
PayloadSound(x, h) ==
  x \in Payload =>
    /\ x.last <= h /\ ~x.line
    /\ x.drop => x.knows \in Int /\ (h - x.knows < Old => x.since >= x.knows)

HasRead(q) == q.asked /\ q.model = "forecast" /\ q.pc \notin {"idle", "asked"}

UsedSound(x, h) == (x \in Payload => ~x.line) => PayloadSound(x, h)

WorkerSound(q, h) ==
  /\ q.pc # "idle" => q.model \in Model
  /\ q.shift # None => q.shift.at <= h
  /\ PayloadSound(q.fitted, h) /\ UsedSound(q.used, h)
  /\ q.pc \in {"dumping", "writing", "reloading"} => q.fitted # None
  /\ HasRead(q) => q.last \in 1 .. h
  /\ q.pc = "reloading" => q.asked

ShiftAt == IF LastShift = None THEN None ELSE LastShift.at

Served(q) == q.pc = "predicting" \/ (q.pc = "idle" /\ q.outcome = "predicted")

\* What a worker has read is still so while nothing disturbs it, its file is its
\* own, and what it uses is fresh.
QuietSound(w, q) ==
  q.quiet =>
    /\ q.pc = "fitting" => q.shift = LastShift
    /\ HasRead(q) => Points # {} /\ q.last = LastPoint
    /\ HasRead(q) /\ q.pc # "asked for shift" => q.knows = ShiftAt
    /\ HasRead(q) /\ q.pc \in {"dumping", "writing", "reloading"} =>
         q.fitted.knows = q.knows /\ q.fitted.last = q.last
    /\ q.pc = "writing" => writing[q.model] = {w}
    /\ q.pc = "reloading" /\ diskFaults = 0 =>
         q.fitted # None /\ file[q.model] = q.fitted /\ writing[q.model] = {}
    /\ q.asked /\ q.model = "forecast" /\ Served(q) /\ diskFaults = 0 =>
         /\ q.used # None /\ ~q.used.line
         /\ q.used.knows = q.knows /\ q.used.last >= q.last - 1
    /\ q.asked /\ q.pc = "idle" /\ diskFaults = 0 => q.outcome # "error"

ModelState ==
  /\ hour \in 0 .. MaxHour /\ series \subseteq 1 .. hour
  /\ shift = None \/ (shift \in ShiftState /\ shift.at <= hour)
  /\ file \in [Model -> Payload \cup {None, Torn}]
  /\ \A m \in Model : PayloadSound(file[m], hour)
  /\ writing \in [Model -> SUBSET Worker]
  /\ worker \in [Worker -> WorkerState]
  /\ \A w \in Worker : WorkerSound(worker[w], hour)
  /\ diskFaults \in 0 .. MaxDiskFaults

\* The workers that have a file open are those at that step.
OpenFiles ==
  \A m \in Model, w \in Worker :
    w \in writing[m] <=> (worker[w].model = m /\ worker[w].pc = "writing")

ModelInv ==
  /\ ModelState
  /\ OpenFiles
  /\ \A w \in Worker : QuietSound(w, worker[w])

LEMMA OffIsAState == Off \in WorkerState /\ \A h : WorkerSound(Off, h)
  BY ModelFilesAssumption
     DEF Off, WorkerState, WorkerStep, WorkerSound, UsedSound, HasRead, PayloadSound

\* A step of one worker that touches no file.
LEMMA WorkerStepSound ==
  ASSUME ModelInv, UNCHANGED <<historyVars, file, writing, diskFaults>>,
         NEW w \in Worker, NEW q \in WorkerState, worker' = [worker EXCEPT ![w] = q],
         WorkerSound(q, hour), QuietSound(w, q),
         worker[w].pc # "writing", q.pc # "writing"
  PROVE  ModelInv'
<1>1. worker' \in [Worker -> WorkerState] /\ UNCHANGED <<hour, series, shift, shifts>>
  BY DEF ModelInv, ModelState, historyVars
<1>2. \A v \in Worker : worker'[v] = IF v = w THEN q ELSE worker[v]
  BY DEF ModelInv, ModelState
<1>3. \A v \in Worker : WorkerSound(worker'[v], hour)
  BY <1>2 DEF ModelInv, ModelState
<1>4. ModelState'
  BY <1>1, <1>3 DEF ModelInv, ModelState
<1>5. OpenFiles'
  BY <1>2 DEF ModelInv, OpenFiles
<1>6. Points' = Points /\ LastShift' = LastShift /\ LastPoint' = LastPoint /\ ShiftAt' = ShiftAt
  BY <1>1 DEF Points, LastShift, LastPoint, ShiftAt
<1>7. ASSUME NEW v \in Worker PROVE QuietSound(v, worker[v])'
  <2>1. QuietSound(v, worker'[v])
    BY <1>2 DEF ModelInv
  <2> QED BY <1>1, <1>6, <2>1 DEF QuietSound, HasRead, Served
<1> QED BY <1>4, <1>5, <1>7 DEF ModelInv

LEMMA EndSound ==
  ASSUME ModelInv, UNCHANGED <<historyVars, file, writing, diskFaults>>, NEW w \in Worker,
         NEW outcome \in {"insufficient", "error", "predicted"},
         End(w, outcome), worker[w].pc \notin {"idle", "writing"},
         outcome = "error" /\ worker[w].asked /\ worker[w].quiet => diskFaults # 0,
         outcome = "predicted" => worker[w].pc = "predicting"
  PROVE  ModelInv'
<1> DEFINE old == worker[w]
           ended == [old EXCEPT !.pc = "idle", !.outcome = outcome, !.fitted = None,
                                !.shift = None]
<1>0. old \in WorkerState /\ WorkerSound(old, hour) /\ QuietSound(w, old)
  BY DEF ModelInv, ModelState
<1>1. worker' = [worker EXCEPT ![w] = IF ~old.asked \/ ~old.quiet THEN Off ELSE ended]
  BY DEF End
<1> HIDE DEF ended
<1>2. CASE ~old.asked \/ ~old.quiet
  <2>1. worker' = [worker EXCEPT ![w] = Off]
    BY <1>1, <1>2
  <2>2. Off.pc = "idle" /\ ~Off.asked
    BY DEF Off
  <2>3. QuietSound(w, Off)
    BY <2>2 DEF QuietSound, HasRead
  <2> QED BY <2>1, <2>2, <2>3, OffIsAState, WorkerStepSound
<1>3. CASE old.asked /\ old.quiet
  <2>1. worker' = [worker EXCEPT ![w] = ended]
    BY <1>1, <1>3
  <2> HIDE DEF old
  <2>2. ended \in WorkerState
    BY <1>0 DEF WorkerState, WorkerStep, ended
  <2>3. /\ ended.pc = "idle" /\ ended.asked = old.asked /\ ended.model = old.model
        /\ ended.last = old.last /\ ended.knows = old.knows /\ ended.used = old.used
        /\ ended.outcome = outcome /\ ended.fitted = None /\ ended.shift = None
        /\ ended.quiet = old.quiet
    BY <1>0 DEF WorkerState, ended
  <2>4. WorkerSound(ended, hour)
    BY <1>0, <2>3, ModelFilesAssumption DEF WorkerSound, UsedSound, HasRead, PayloadSound
  <2>5. QuietSound(w, ended)
    <3>1. ended.outcome = "predicted" => Served(old)
      BY <2>3 DEF Served, old
    <3>2. Served(ended) => ended.outcome = "predicted"
      BY <2>3 DEF Served
    <3>3. outcome = "error" => diskFaults # 0
      BY <1>3 DEF old
    <3> QED BY <1>0, <2>3, <3>1, <3>2, <3>3 DEF QuietSound, HasRead
  <2> QED BY <2>1, <2>2, <2>3, <2>4, <2>5, WorkerStepSound DEF old
<1> QED BY <1>2, <1>3

\* A worker that begins.
LEMMA BeginSound ==
  ASSUME ModelInv, NEW w \in Worker, NEW m \in Model,
         NEW pc \in {"training", "asked"}, NEW asked \in BOOLEAN, asked => pc = "asked",
         worker[w].pc = "idle",
         worker' = [worker EXCEPT ![w] = [Off EXCEPT !.pc = pc, !.model = m, !.asked = asked]],
         UNCHANGED <<historyVars, file, writing, diskFaults>>
  PROVE  ModelInv'
<1> DEFINE q == [Off EXCEPT !.pc = pc, !.model = m, !.asked = asked]
<1>1. q \in WorkerState
  BY OffIsAState DEF WorkerState, WorkerStep
<1>2. /\ q.pc = pc /\ q.model = m /\ q.fitted = None /\ q.used = None /\ q.shift = None
      /\ q.asked = asked
  BY OffIsAState DEF WorkerState, Off
<1>3. worker' = [worker EXCEPT ![w] = q]
  OBVIOUS
<1> HIDE DEF q
<1>4. WorkerSound(q, hour)
  BY <1>2, ModelFilesAssumption DEF WorkerSound, UsedSound, HasRead, PayloadSound
<1>5. QuietSound(w, q)
  BY <1>2 DEF QuietSound, HasRead, Served
<1> QED BY <1>1, <1>2, <1>3, <1>4, <1>5, WorkerStepSound

\* What a worker is and knows.
LEMMA OfWorker ==
  ASSUME ModelInv, NEW w \in Worker
  PROVE  /\ worker[w] \in WorkerState /\ WorkerSound(worker[w], hour)
         /\ QuietSound(w, worker[w])
  BY DEF ModelInv, ModelState

\* The last point is one of those that are read.
LEMMA LastPointIsOne ==
  ASSUME ModelState
  PROVE  /\ hour \in Nat /\ MaxHour \in Nat /\ hour <= MaxHour /\ Points \subseteq 1 .. hour
         /\ Points # {} => LastPoint \in Points /\ LastPoint \in 1 .. hour
         /\ LastPoint \in {None} \cup 1 .. MaxHour
<1>1. MaxHour \in Nat
  BY ModelFilesAssumption
<1>2. hour \in 0 .. MaxHour /\ Points \subseteq 1 .. hour
  BY DEF ModelState, Points
<1>3. hour \in Nat /\ hour <= MaxHour
  BY <1>1, <1>2
<1>4. Points # {} => Max(Points) \in Points
  BY <1>2, <1>3, GreatestOfAll
<1>5. Points = {} => LastPoint = None
  BY DEF LastPoint
<1>6. Points # {} => LastPoint = Max(Points)
  BY DEF LastPoint
<1>7. 1 .. hour \subseteq 1 .. MaxHour
  BY <1>1, <1>3
<1>8. Points # {} => LastPoint \in Points
  BY Zenon, <1>4, <1>6
<1>9. Points # {} => LastPoint \in 1 .. hour
  BY Zenon, <1>2, <1>8
<1>10. Points # {} => LastPoint \in 1 .. MaxHour
  BY Zenon, <1>7, <1>9
<1> QED BY Zenon, <1>1, <1>2, <1>3, <1>5, <1>8, <1>9, <1>10

\* The change-point that is read is one on record.
LEMMA LastShiftIsOne ==
  ASSUME ModelState
  PROVE  LastShift = None \/ (LastShift \in ShiftState /\ LastShift.at <= hour)
  BY DEF ModelState, LastShift

LEMMA ReadShiftSound ==
  ASSUME ModelInv, NEW w \in Worker, ReadShift(w)
  PROVE  ModelInv'
<1> DEFINE old == worker[w]
           q == [old EXCEPT !.pc = "fitting", !.shift = LastShift]
<1>1. old \in WorkerState /\ WorkerSound(old, hour) /\ QuietSound(w, old)
  BY OfWorker
<1>2. /\ old.pc = "training" /\ worker' = [worker EXCEPT ![w] = q]
      /\ UNCHANGED <<historyVars, file, writing, diskFaults>>
  BY DEF ReadShift, Doing
<1>3. LastShift = None \/ (LastShift \in ShiftState /\ LastShift.at <= hour)
  BY LastShiftIsOne DEF ModelInv
<1> HIDE DEF old
<1>4. q \in WorkerState
  BY <1>1, <1>3 DEF WorkerState, WorkerStep
<1>5. /\ q.pc = "fitting" /\ q.shift = LastShift /\ q.model = old.model /\ q.asked = old.asked
      /\ q.last = old.last /\ q.knows = old.knows /\ q.fitted = old.fitted
      /\ q.used = old.used /\ q.quiet = old.quiet /\ q.outcome = old.outcome
  BY <1>1 DEF WorkerState
<1> HIDE DEF q
<1>6. WorkerSound(q, hour)
  BY <1>1, <1>2, <1>3, <1>5 DEF WorkerSound, UsedSound, HasRead
<1>7. QuietSound(w, q)
  BY <1>1, <1>2, <1>5 DEF QuietSound, HasRead, Served
<1> QED BY <1>2, <1>4, <1>5, <1>6, <1>7, WorkerStepSound DEF old

LEMMA ReadPointsSound ==
  ASSUME ModelInv, NEW w \in Worker, ReadPoints(w)
  PROVE  ModelInv'
<1> DEFINE old == worker[w]
           q == [old EXCEPT !.pc = "asked for shift", !.last = LastPoint]
           few == old.model = "forecast" /\ Cardinality(Points) < MinPoints["forecast"]
<1>1. old \in WorkerState /\ WorkerSound(old, hour) /\ QuietSound(w, old)
  BY OfWorker
<1>2. old.pc = "asked" /\ UNCHANGED <<historyVars, file, writing, diskFaults>>
  BY DEF ReadPoints, Doing
<1>3. few => End(w, "insufficient")
  BY DEF ReadPoints
<1>4. ~few => worker' = [worker EXCEPT ![w] = q]
  BY DEF ReadPoints
<1>5. CASE few
  BY <1>2, <1>3, <1>5, EndSound
<1>6. CASE ~few
  <2>2. LastPoint \in {None} \cup 1 .. MaxHour
    BY LastPointIsOne DEF ModelInv
  <2>3. old.model = "forecast" => Points # {}
    <3>1. Cardinality({}) = 0
      BY FS_EmptySet
    <3>2. MinPoints["forecast"] \in Nat \ {0}
      BY ModelFilesAssumption DEF Model
    <3> QED BY <1>6, <3>1, <3>2
  <2> HIDE DEF old
  <2>4. q \in WorkerState
    BY <1>1, <2>2 DEF WorkerState, WorkerStep
  <2>5. /\ q.pc = "asked for shift" /\ q.last = LastPoint /\ q.model = old.model
        /\ q.asked = old.asked /\ q.shift = old.shift /\ q.knows = old.knows
        /\ q.fitted = old.fitted /\ q.used = old.used /\ q.quiet = old.quiet
        /\ q.outcome = old.outcome
    BY <1>1 DEF WorkerState
  <2>a. old.model = "forecast" => LastPoint \in 1 .. hour
    BY <2>3, LastPointIsOne DEF ModelInv
  <2> HIDE DEF q, few
  <2>6. WorkerSound(q, hour)
    BY <1>1, <1>2, <2>5, <2>a DEF WorkerSound, UsedSound, HasRead
  <2>7. QuietSound(w, q)
    BY <1>1, <1>2, <2>3, <2>5 DEF QuietSound, HasRead, Served
  <2> QED BY <1>2, <1>4, <1>6, <2>4, <2>5, <2>6, <2>7, WorkerStepSound DEF old
<1> QED BY <1>5, <1>6

LEMMA ReadLastShiftSound ==
  ASSUME ModelInv, NEW w \in Worker, ReadLastShift(w)
  PROVE  ModelInv'
<1> DEFINE old == worker[w]
           q == [old EXCEPT !.pc = "loading", !.knows = ShiftAt]
<1>1. old \in WorkerState /\ WorkerSound(old, hour) /\ QuietSound(w, old)
  BY OfWorker
<1>2. /\ old.pc = "asked for shift" /\ worker' = [worker EXCEPT ![w] = q]
      /\ UNCHANGED <<historyVars, file, writing, diskFaults>>
  BY DEF ReadLastShift, Doing, ShiftAt
<1>3. ShiftAt \in {None} \cup 1 .. MaxHour
  BY LastShiftIsOne DEF ModelInv, ShiftAt, ShiftState
<1> HIDE DEF old
<1>4. q \in WorkerState
  BY <1>1, <1>3 DEF WorkerState, WorkerStep
<1>5. /\ q.pc = "loading" /\ q.knows = ShiftAt /\ q.model = old.model /\ q.asked = old.asked
      /\ q.last = old.last /\ q.shift = old.shift /\ q.fitted = old.fitted
      /\ q.used = old.used /\ q.quiet = old.quiet /\ q.outcome = old.outcome
  BY <1>1 DEF WorkerState
<1> HIDE DEF q
<1>6. WorkerSound(q, hour)
  BY <1>1, <1>2, <1>5 DEF WorkerSound, UsedSound, HasRead
<1>7. QuietSound(w, q)
  BY <1>1, <1>2, <1>5 DEF QuietSound, HasRead, Served
<1> QED BY <1>2, <1>4, <1>5, <1>6, <1>7, WorkerStepSound DEF old

LEMMA LoadSound ==
  ASSUME ModelInv, NEW w \in Worker, Load(w)
  PROVE  ModelInv'
<1> DEFINE old == worker[w]
           payload == LoadFile(old.model)
           q == [old EXCEPT !.pc = "predicting", !.used = payload]
           r == [old EXCEPT !.pc = "training"]
<1>1. old \in WorkerState /\ WorkerSound(old, hour) /\ QuietSound(w, old)
  BY OfWorker
<1>2. /\ old.pc = "loading" /\ UNCHANGED <<historyVars, file, writing, diskFaults>>
      /\ worker' = IF payload # None /\ IsFresh(w, payload) THEN [worker EXCEPT ![w] = q]
                                                            ELSE [worker EXCEPT ![w] = r]
  BY DEF Load, Doing
<1>3. payload \in Payload \cup {None} /\ PayloadSound(payload, hour)
  <2>1. old.model \in Model
    BY <1>1, <1>2 DEF WorkerSound, UsedSound, HasRead
  <2>2. file[old.model] \in Payload \cup {None, Torn} /\ PayloadSound(file[old.model], hour)
    BY <2>1 DEF ModelInv, ModelState
  <2> QED BY <2>2, ModelFilesAssumption DEF LoadFile, PayloadSound
<1>4. IsFresh(w, payload) =>
        (old.model = "anomaly" \/ (payload.last >= old.last - 1 /\ payload.knows = old.knows))
  BY DEF IsFresh
<1>l. payload # None => ~payload.line
  BY <1>3 DEF PayloadSound
<1> HIDE DEF old, payload
<1>5. CASE payload # None /\ IsFresh(w, payload)
  <2>1. q \in WorkerState
    BY <1>1, <1>3 DEF WorkerState, WorkerStep
  <2>2. /\ q.pc = "predicting" /\ q.used = payload /\ q.model = old.model /\ q.asked = old.asked
        /\ q.last = old.last /\ q.shift = old.shift /\ q.fitted = old.fitted
        /\ q.knows = old.knows /\ q.quiet = old.quiet /\ q.outcome = old.outcome
    BY <1>1 DEF WorkerState
  <2> HIDE DEF q
  <2>3. WorkerSound(q, hour)
    BY <1>1, <1>2, <1>3, <2>2 DEF WorkerSound, UsedSound, HasRead
  <2>4. QuietSound(w, q)
    BY <1>1, <1>2, <1>4, <1>5, <1>l, <2>2 DEF QuietSound, HasRead, Served
  <2> QED BY <1>2, <1>5, <2>1, <2>2, <2>3, <2>4, WorkerStepSound DEF old
<1>6. CASE ~(payload # None /\ IsFresh(w, payload))
  <2>1. r \in WorkerState
    BY <1>1 DEF WorkerState, WorkerStep
  <2>2. /\ r.pc = "training" /\ r.used = old.used /\ r.model = old.model /\ r.asked = old.asked
        /\ r.last = old.last /\ r.shift = old.shift /\ r.fitted = old.fitted
        /\ r.knows = old.knows /\ r.quiet = old.quiet /\ r.outcome = old.outcome
    BY <1>1 DEF WorkerState
  <2> HIDE DEF r
  <2>3. WorkerSound(r, hour)
    BY <1>1, <1>2, <2>2 DEF WorkerSound, UsedSound, HasRead
  <2>4. QuietSound(w, r)
    BY <1>1, <1>2, <2>2 DEF QuietSound, HasRead, Served
  <2> QED BY <1>2, <1>6, <2>1, <2>2, <2>3, <2>4, WorkerStepSound DEF old
<1> QED BY <1>5, <1>6

LEMMA ReloadSound ==
  ASSUME ModelInv, NEW w \in Worker, Reload(w)
  PROVE  ModelInv'
<1> DEFINE old == worker[w]
           payload == LoadFile(old.model)
           model == IF payload = None THEN Line(w) ELSE payload
           q == [old EXCEPT !.pc = "predicting", !.used = model]
           lost == payload = None /\ old.model = "anomaly"
<1>1. old \in WorkerState /\ WorkerSound(old, hour) /\ QuietSound(w, old)
  BY OfWorker
<1>2. old.pc = "reloading" /\ UNCHANGED <<historyVars, file, writing, diskFaults>>
  BY DEF Reload, Doing
<1>3. lost => End(w, "error")
  BY DEF Reload
<1>4. ~lost => worker' = [worker EXCEPT ![w] = q]
  BY DEF Reload
<1>5. payload \in Payload \cup {None} /\ PayloadSound(payload, hour)
  <2>1. old.model \in Model
    BY <1>1, <1>2 DEF WorkerSound, UsedSound, HasRead
  <2>2. file[old.model] \in Payload \cup {None, Torn} /\ PayloadSound(file[old.model], hour)
    BY <2>1 DEF ModelInv, ModelState
  <2> QED BY <2>2, ModelFilesAssumption DEF LoadFile, PayloadSound
<1>6. old.quiet /\ diskFaults = 0 => payload = old.fitted /\ payload # None /\ ~payload.line
  <2>1. old.fitted \in Payload \cup {None}
    BY <1>1 DEF WorkerState
  <2>2. old.fitted \in Payload => ~old.fitted.line
    BY <1>1 DEF WorkerSound, PayloadSound
  <2> QED BY <1>1, <1>2, <2>1, <2>2, ModelFilesAssumption DEF QuietSound, LoadFile
<1>7. CASE lost
  BY <1>2, <1>3, <1>6, <1>7, EndSound
<1>8. CASE ~lost
  <2>a. model \in Payload /\ UsedSound(model, hour)
    <3>1. CASE payload # None
      BY <1>5, <3>1 DEF UsedSound
    <3>2. CASE payload = None
      <4>1. old.model = "forecast" /\ old.fitted \in Payload
        BY <1>1, <1>2, <1>8, <3>2 DEF WorkerSound, WorkerState, Model
      <4>2. old.asked
        BY <1>1, <1>2 DEF WorkerSound
      <4>3. old.last \in 1 .. MaxHour
        <5>1. old.last \in 1 .. hour
          BY <1>1, <1>2, <4>1, <4>2 DEF WorkerSound, HasRead
        <5> QED BY <5>1, LastPointIsOne DEF ModelInv
      <4>4. model = [old.fitted EXCEPT !.since = 0, !.last = old.last, !.line = TRUE]
        BY <3>2 DEF Line
      <4> HIDE DEF old, model
      <4>5. MaxHour \in Nat
        BY ModelFilesAssumption
      <4>6. model \in Payload /\ model.line
        <5>1. PICK x \in Payload : x = old.fitted
          BY <4>1
        <5>2. PICK n \in 1 .. MaxHour : n = old.last
          BY <4>3
        <5>3. model = [x EXCEPT !.since = 0, !.last = n, !.line = TRUE]
          BY <4>4, <5>1, <5>2
        <5>4. 0 \in 0 .. MaxHour
          BY <4>5
        <5> QED BY <5>3, <5>4 DEF Payload
      <4> QED BY <4>6 DEF UsedSound
    <3> QED BY <3>1, <3>2
  <2>b. old.quiet /\ diskFaults = 0 => model = old.fitted /\ ~model.line
    BY <1>6
  <2> HIDE DEF old, payload, model
  <2>1. q \in WorkerState
    BY <1>1, <2>a DEF WorkerState, WorkerStep
  <2>2. /\ q.pc = "predicting" /\ q.used = model /\ q.model = old.model /\ q.asked = old.asked
        /\ q.last = old.last /\ q.shift = old.shift /\ q.fitted = old.fitted
        /\ q.knows = old.knows /\ q.quiet = old.quiet /\ q.outcome = old.outcome
    BY <1>1 DEF WorkerState
  <2> HIDE DEF q, lost
  <2>3. WorkerSound(q, hour)
    BY <1>1, <1>2, <2>2, <2>a DEF WorkerSound, UsedSound, HasRead
  <2>4. HasRead(old) /\ old.quiet => old.last \in Int
    <3>1. Points # {} => LastPoint \in 1 .. hour
      BY LastPointIsOne DEF ModelInv
    <3>2. HasRead(old) /\ old.quiet => Points # {} /\ old.last = LastPoint
      BY <1>1 DEF QuietSound
    <3> QED BY <3>1, <3>2
  <2>5. HasRead(q) => HasRead(old)
    BY <1>2, <2>2 DEF HasRead
  <2>6. q.asked /\ q.model = "forecast" => HasRead(q)
    BY <2>2 DEF HasRead
  <2>7. HasRead(old) /\ old.quiet => old.fitted.knows = old.knows /\ old.fitted.last = old.last
    BY <1>1, <1>2 DEF QuietSound
  <2>8. q.quiet /\ HasRead(q) /\ diskFaults = 0 =>
          /\ q.used # None /\ ~q.used.line
          /\ q.used.knows = q.knows /\ q.used.last >= q.last - 1
    BY <2>2, <2>4, <2>5, <2>7, <2>a, <2>b, ModelFilesAssumption
  <2>9. QuietSound(w, q)
    BY <1>1, <1>2, <2>2, <2>5, <2>6, <2>8 DEF QuietSound
  <2> QED BY <1>2, <1>4, <1>8, <2>1, <2>2, <2>3, <2>9, WorkerStepSound DEF old
<1> QED BY <1>7, <1>8

LEMMA PredictSound ==
  ASSUME ModelInv, NEW w \in Worker, Predict(w)
  PROVE  ModelInv'
<1>1. worker[w].pc = "predicting" /\ End(w, "predicted")
  BY DEF Predict, Doing
<1>2. UNCHANGED <<historyVars, file, writing, diskFaults>>
  BY DEF Predict
<1> QED BY <1>1, <1>2, EndSound

\* What a model is fitted to: the points since the drop, unless the drop is old.
LEMMA FittedIsSound ==
  ASSUME ModelState, NEW m \in Model, NEW s \in ShiftState \cup {None},
         s # None => s.at <= hour, Enough(m, s)
  PROVE  /\ Fitted(m, s) \in Payload /\ PayloadSound(Fitted(m, s), hour)
         /\ Fitted(m, s).knows = IF m = "forecast" /\ s # None THEN s.at ELSE None
         /\ Points # {} => Fitted(m, s).last = LastPoint
<1>1. /\ hour \in Nat /\ MaxHour \in Nat /\ hour <= MaxHour /\ Points \subseteq 1 .. hour
      /\ Points # {} => LastPoint \in 1 .. hour
  BY LastPointIsOne
<1>2. s # None => s.at \in 1 .. MaxHour /\ s.severe \in BOOLEAN
  BY DEF ShiftState
<1>3. Since(s) \in 0 .. MaxHour
  BY <1>1, <1>2 DEF Since
<1>4. Points # {} \/ s # None
  <2>1. SUFFICES ASSUME Points = {}, ~Flat(s) PROVE FALSE
    BY DEF Flat
  <2>2. Cardinality(Points) = 0
    BY <2>1, FS_EmptySet
  <2>3. {t \in Points : t >= Since(s)} = {}
    BY <2>1
  <2>4. Cardinality({t \in Points : t >= Since(s)}) = 0
    BY <2>3, FS_EmptySet
  <2>5. MinPoints[m] \in Nat \ {0}
    BY ModelFilesAssumption
  <2> QED BY <2>1, <2>2, <2>4, <2>5 DEF Enough
<1> DEFINE last == IF Points = {} /\ s # None THEN s.at ELSE LastPoint
           knows == IF m = "forecast" /\ s # None THEN s.at ELSE None
           drop == m = "forecast" /\ s # None /\ s.severe
           since == IF m = "forecast" THEN Since(s) ELSE 0
<1>5. last \in 1 .. MaxHour /\ last <= hour
  BY <1>1, <1>2, <1>4
<1>6. knows \in {None} \cup 1 .. MaxHour
  BY <1>2
<1>7. drop \in BOOLEAN
  BY Zenon
<1>8. since \in 0 .. MaxHour
  BY <1>1, <1>3
<1>9. drop => knows \in Int /\ (hour - knows < Old => since >= knows)
  <2>1. Old \in Nat
    BY ModelFilesAssumption
  <2>2. ASSUME drop, hour - s.at < Old PROVE Since(s) = s.at
    BY <1>1, <1>2, <2>1, <2>2 DEF Since, IsOld
  <2> QED BY <1>1, <1>2, <2>2
<1>10. Fitted(m, s) = [since |-> since, last |-> last, knows |-> knows, drop |-> drop,
                       line |-> FALSE]
  BY Zenon DEF Fitted
<1>11. Points # {} => last = LastPoint
  OBVIOUS
<1>12. knows = IF m = "forecast" /\ s # None THEN s.at ELSE None
  OBVIOUS
<1> HIDE DEF since, last, knows, drop
<1> DEFINE x == [since |-> since, last |-> last, knows |-> knows, drop |-> drop,
                       line |-> FALSE]
<1>13. x \in Payload
  BY <1>5, <1>6, <1>7, <1>8 DEF Payload
<1>14. x.since = since /\ x.last = last /\ x.knows = knows /\ x.drop = drop /\ ~x.line
  OBVIOUS
<1> HIDE DEF x
<1>15. PayloadSound(x, hour)
  BY <1>5, <1>9, <1>14 DEF PayloadSound
<1>16. Fitted(m, s) = x
  BY <1>10 DEF x
<1> QED BY <1>11, <1>12, <1>13, <1>14, <1>15, <1>16

LEMMA FitSound ==
  ASSUME ModelInv, NEW w \in Worker, Fit(w)
  PROVE  ModelInv'
<1> DEFINE old == worker[w]
           x == Fitted(old.model, old.shift)
           q == [old EXCEPT !.pc = "dumping", !.fitted = x]
<1>1. old \in WorkerState /\ WorkerSound(old, hour) /\ QuietSound(w, old)
  BY OfWorker
<1>2. old.pc = "fitting" /\ UNCHANGED <<historyVars, file, writing, diskFaults>>
  BY DEF Fit, Doing
<1>3. Enough(old.model, old.shift) => worker' = [worker EXCEPT ![w] = q]
  BY Zenon DEF Fit
<1>4. ~Enough(old.model, old.shift) => End(w, "insufficient")
  BY DEF Fit
<1>5. CASE ~Enough(old.model, old.shift)
  BY <1>2, <1>4, <1>5, EndSound
<1>6. CASE Enough(old.model, old.shift)
  <2> HIDE DEF old
  <2>1. old.model \in Model /\ old.shift \in ShiftState \cup {None}
    BY <1>1, <1>2 DEF WorkerSound, UsedSound, HasRead, WorkerState
  <2>2. /\ x \in Payload /\ PayloadSound(x, hour)
        /\ x.knows = IF old.model = "forecast" /\ old.shift # None THEN old.shift.at ELSE None
        /\ Points # {} => x.last = LastPoint
    BY <1>1, <1>6, <2>1, FittedIsSound DEF WorkerSound, UsedSound, HasRead, ModelInv
  <2> HIDE DEF x
  <2>3. q \in WorkerState
    BY <1>1, <2>2 DEF WorkerState, WorkerStep
  <2>4. /\ q.pc = "dumping" /\ q.fitted = x /\ q.model = old.model /\ q.asked = old.asked
        /\ q.last = old.last /\ q.shift = old.shift /\ q.used = old.used
        /\ q.knows = old.knows /\ q.quiet = old.quiet /\ q.outcome = old.outcome
    BY <1>1 DEF WorkerState
  <2> HIDE DEF q
  <2>5. WorkerSound(q, hour)
    BY <1>1, <1>2, <2>2, <2>4, ModelFilesAssumption DEF WorkerSound, UsedSound, HasRead
  <2>6. old.quiet /\ HasRead(old) =>
          Points # {} /\ old.last = LastPoint /\ old.knows = ShiftAt /\ old.shift = LastShift
    BY <1>1, <1>2 DEF QuietSound
  <2>7. HasRead(q) <=> HasRead(old)
    BY <1>2, <2>4 DEF HasRead
  <2>8. HasRead(old) => old.model = "forecast"
    BY DEF HasRead
  <2>9. old.quiet /\ HasRead(old) => x.knows = old.knows /\ x.last = old.last
    BY <2>2, <2>6, <2>8 DEF ShiftAt
  <2>10. QuietSound(w, q)
    BY <1>2, <2>4, <2>6, <2>7, <2>9 DEF QuietSound, Served
  <2> QED BY <1>2, <1>3, <1>6, <2>3, <2>4, <2>5, <2>10, WorkerStepSound DEF old
<1> QED BY <1>5, <1>6

\* What was fitted to the past stays so.
LEMMA PayloadsAge ==
  ASSUME NEW x, NEW h \in Int, NEW g \in Int, h <= g, PayloadSound(x, h)
  PROVE  PayloadSound(x, g)
<1> SUFFICES ASSUME x \in Payload
             PROVE  x.last <= g
                    /\ (x.drop => x.knows \in Int /\ (g - x.knows < Old => x.since >= x.knows))
  BY DEF PayloadSound
<1>1. x.last \in Int /\ x.since \in Int
  BY DEF Payload
<1>2. x.last <= h /\ (x.drop => x.knows \in Int /\ (h - x.knows < Old => x.since >= x.knows))
  BY DEF PayloadSound
<1>3. Old \in Nat
  BY ModelFilesAssumption
<1> QED BY <1>1, <1>2, <1>3

LEMMA WorkersAge ==
  ASSUME NEW q \in WorkerState, NEW h \in Int, NEW g \in Int, h <= g, WorkerSound(q, h)
  PROVE  WorkerSound(q, g)
<1>1. PayloadSound(q.fitted, g) /\ UsedSound(q.used, g)
  BY PayloadsAge DEF WorkerSound, UsedSound
<1>2. q.shift # None => q.shift.at \in Int
  BY DEF WorkerState, ShiftState
<1>3. q.last \in 1 .. h => q.last \in 1 .. g
  OBVIOUS
<1> QED BY <1>1, <1>2, <1>3 DEF WorkerSound, UsedSound, HasRead

\* A worker that is disturbed goes on, but what it read may be stale.
LEMMA DisturbedIsSound ==
  ASSUME ModelInv, NEW ws, NEW v \in Worker
  PROVE  /\ Disturbed(ws)[v] \in WorkerState /\ WorkerSound(Disturbed(ws)[v], hour)
         /\ v \notin ws => Disturbed(ws)[v] = worker[v]
         /\ v \in ws => Disturbed(ws)[v] = Off \/ ~Disturbed(ws)[v].quiet
         /\ Disturbed(ws)[v].pc = worker[v].pc
         /\ worker[v].pc # "idle" => Disturbed(ws)[v].model = worker[v].model
<1> DEFINE old == worker[v]
           q == [old EXCEPT !.quiet = FALSE]
<1>1. old \in WorkerState /\ WorkerSound(old, hour)
  BY OfWorker
<1>2. Disturbed(ws)[v] = IF v \notin ws THEN old ELSE IF old.pc = "idle" THEN Off ELSE q
  BY DEF Disturbed, Doing
<1> HIDE DEF old
<1>3. q \in WorkerState
  BY <1>1 DEF WorkerState
<1>4. /\ q.pc = old.pc /\ q.used = old.used /\ q.model = old.model /\ q.asked = old.asked
      /\ q.last = old.last /\ q.shift = old.shift /\ q.fitted = old.fitted
      /\ q.knows = old.knows /\ q.quiet = FALSE
  BY <1>1 DEF WorkerState
<1> HIDE DEF q
<1>5. WorkerSound(q, hour)
  BY <1>1, <1>4 DEF WorkerSound, UsedSound, HasRead
<1>6. Off.pc = "idle" /\ ~Off.asked
  BY DEF Off
<1>7. CASE v \notin ws
  BY <1>1, <1>2, <1>7 DEF old
<1>8. CASE v \in ws /\ old.pc = "idle"
  BY <1>2, <1>6, <1>8, OffIsAState DEF old
<1>9. CASE v \in ws /\ old.pc # "idle"
  BY <1>2, <1>3, <1>4, <1>5, <1>9 DEF old
<1> QED BY <1>7, <1>8, <1>9

\* Nothing is asked of a worker that was disturbed, or that is off.
LEMMA DisturbedIsQuiet ==
  ASSUME NEW v, NEW q, q = Off \/ ~q.quiet
  PROVE  QuietSound(v, q)
<1>1. Off.pc = "idle" /\ ~Off.asked
  BY DEF Off
<1> QED BY <1>1 DEF QuietSound, HasRead

\* The others, when nothing moves that they rely on.
LEMMA OthersStaySound ==
  ASSUME ModelInv, NEW v \in Worker, worker'[v] = worker[v], UNCHANGED historyVars,
         diskFaults' = 0 => diskFaults = 0,
         worker[v].pc = "writing" /\ writing[worker[v].model] = {v} =>
           writing'[worker[v].model] = {v},
         worker[v].pc = "reloading" /\ writing[worker[v].model] = {} =>
           /\ writing'[worker[v].model] = {}
           /\ file'[worker[v].model] = file[worker[v].model]
  PROVE  QuietSound(v, worker[v])'
<1> DEFINE q == worker[v]
<1>1. UNCHANGED <<hour, series, shift, shifts>>
  BY DEF historyVars
<1>2. Points' = Points /\ LastShift' = LastShift /\ LastPoint' = LastPoint /\ ShiftAt' = ShiftAt
  BY <1>1 DEF Points, LastShift, LastPoint, ShiftAt
<1>3. QuietSound(v, q)
  BY OfWorker
<1>4. PICK x : x = worker[v] /\ x = worker'[v]
  OBVIOUS
<1>5. QuietSound(v, x)
  BY <1>3, <1>4
<1>6. QuietSound(v, x)'
  BY <1>1, <1>2, <1>4, <1>5 DEF QuietSound
<1> QED BY <1>4, <1>6 DEF QuietSound, HasRead, Served

\* The rest of the invariant, when files and disturbed workers change.
LEMMA FilesStaySound ==
  ASSUME ModelInv, UNCHANGED <<hour, series, shift, shifts>>,
         file' \in [Model -> Payload \cup {None, Torn}],
         \A m \in Model : PayloadSound(file'[m], hour),
         writing' \in [Model -> SUBSET Worker],
         worker' \in [Worker -> WorkerState],
         \A v \in Worker : WorkerSound(worker'[v], hour),
         diskFaults' \in 0 .. MaxDiskFaults
  PROVE  ModelState'
  BY DEF ModelInv, ModelState, historyVars

LEMMA OpenFileSound ==
  ASSUME ModelInv, NEW w \in Worker, OpenFile(w)
  PROVE  ModelInv'
<1> DEFINE m == worker[w].model
           ws == {v \in Worker : v # w /\ worker[v].model = m}
           others == Disturbed(ws)
           old == worker[w]
           q == [old EXCEPT !.pc = "writing", !.quiet = old.quiet /\ writing[m] = {}]
<1>1. /\ old.pc = "dumping" /\ file' = [file EXCEPT ![m] = Torn]
      /\ writing' = [writing EXCEPT ![m] = writing[m] \cup {w}]
      /\ UNCHANGED <<historyVars, diskFaults>>
  BY DEF OpenFile, Doing
<1>2. UNCHANGED <<hour, series, shift, shifts>>
  BY <1>1 DEF historyVars
<1>3. old \in WorkerState /\ WorkerSound(old, hour) /\ QuietSound(w, old)
  BY OfWorker
<1>4. m \in Model
  BY <1>1, <1>3 DEF WorkerSound, UsedSound, HasRead
<1>5. others \in [Worker -> WorkerState] /\ others[w] = old
  <2>1. \A v \in Worker : others[v] \in WorkerState
    BY DisturbedIsSound
  <2> QED BY <2>1, DisturbedIsSound DEF Disturbed
<1>6. worker' = [others EXCEPT ![w] = q]
  <2>1. worker' = [others EXCEPT ![w].pc = "writing", ![w].quiet = @ /\ writing[m] = {}]
    BY DEF OpenFile
  <2> HIDE DEF others
  <2> QED BY <1>5, <2>1
<1>7. \A v \in Worker : worker'[v] = IF v = w THEN q ELSE others[v]
  BY <1>5, <1>6
<1> HIDE DEF old
<1>8. q \in WorkerState
  <2>1. (old.quiet /\ writing[m] = {}) \in BOOLEAN
    BY Zenon
  <2> QED BY <1>3, <2>1 DEF WorkerState, WorkerStep
<1>9. /\ q.pc = "writing" /\ q.used = old.used /\ q.model = old.model /\ q.asked = old.asked
      /\ q.last = old.last /\ q.shift = old.shift /\ q.fitted = old.fitted
      /\ q.knows = old.knows
  BY <1>3 DEF WorkerState
<1>10. q.quiet = (old.quiet /\ writing[m] = {})
  BY <1>3 DEF WorkerState
<1> HIDE DEF q
<1>11. WorkerSound(q, hour)
  BY <1>1, <1>3, <1>9 DEF WorkerSound, UsedSound, HasRead
<1>12. ASSUME NEW v \in Worker, v # w
       PROVE  /\ worker'[v] \in WorkerState /\ WorkerSound(worker'[v], hour)
              /\ worker'[v].pc = worker[v].pc
              /\ worker[v].pc # "idle" => worker'[v].model = worker[v].model
              /\ v \notin ws => worker'[v] = worker[v]
              /\ v \in ws => worker'[v] = Off \/ ~worker'[v].quiet
  BY <1>7, <1>12, DisturbedIsSound
<1>13. \A v \in Worker : worker'[v] \in WorkerState /\ WorkerSound(worker'[v], hour)
  BY <1>7, <1>8, <1>11, <1>12
<1>14. worker' \in [Worker -> WorkerState]
  <2> HIDE DEF others
  <2> QED BY <1>5, <1>6, <1>8
<1>15. /\ file \in [Model -> Payload \cup {None, Torn}] /\ writing \in [Model -> SUBSET Worker]
       /\ \A n \in Model : PayloadSound(file[n], hour)
       /\ diskFaults \in 0 .. MaxDiskFaults
  BY DEF ModelInv, ModelState
<1>16. PayloadSound(Torn, hour)
  BY ModelFilesAssumption DEF PayloadSound
<1>17. /\ file'[m] = Torn /\ writing'[m] = writing[m] \cup {w}
       /\ \A n \in Model \ {m} : file'[n] = file[n] /\ writing'[n] = writing[n]
  BY <1>1, <1>4, <1>15
<1>18. ModelState'
  <2>1. \A n \in Model : PayloadSound(file'[n], hour)
    BY <1>15, <1>16, <1>17
  <2>2. /\ file' \in [Model -> Payload \cup {None, Torn}]
        /\ writing' \in [Model -> SUBSET Worker]
    BY <1>1, <1>15
  <2>3. diskFaults' \in 0 .. MaxDiskFaults
    BY <1>1, <1>15
  <2> QED BY <1>2, <1>13, <1>14, <2>1, <2>2, <2>3, FilesStaySound
<1>19. ASSUME NEW n \in Model, NEW v \in Worker
       PROVE  v \in writing'[n] <=> (worker'[v].model = n /\ worker'[v].pc = "writing")
  <2>1. v \in writing[n] <=> (worker[v].model = n /\ worker[v].pc = "writing")
    BY DEF ModelInv, OpenFiles
  <2>2. CASE v = w
    <3>1. worker'[v].model = m /\ worker'[v].pc = "writing"
      BY <1>7, <1>9, <2>2 DEF old
    <3>2. CASE n = m
      <4>1. w \in writing'[m]
        BY <1>17
      <4> QED BY <2>2, <3>1, <3>2, <4>1
    <3>3. CASE n # m
      <4>1. writing'[n] = writing[n]
        BY <1>17, <3>3
      <4> QED BY <2>1, <2>2, <3>1, <3>3, <4>1
    <3> QED BY <3>2, <3>3
  <2>3. CASE v # w
    BY <1>12, <1>17, <2>1, <2>3
  <2> QED BY <2>2, <2>3
<1>20. OpenFiles'
  BY <1>19 DEF OpenFiles
<1>21. Points' = Points /\ LastShift' = LastShift /\ LastPoint' = LastPoint /\ ShiftAt' = ShiftAt
  BY <1>2 DEF Points, LastShift, LastPoint, ShiftAt
<1>22. ASSUME NEW v \in Worker PROVE QuietSound(v, worker[v])'
  <2>1. CASE v = w
    <3>1. worker'[v] = q
      BY <1>7, <2>1
    <3>2. q.quiet => old.quiet /\ writing'[q.model] = {w}
      BY <1>9, <1>10, <1>17 DEF old
    <3>3. q.quiet /\ HasRead(q) =>
            /\ Points # {} /\ q.last = LastPoint /\ q.knows = ShiftAt
            /\ q.fitted.knows = q.knows /\ q.fitted.last = q.last
      BY <1>1, <1>3, <1>9, <3>2 DEF QuietSound, HasRead, old
    <3> QED BY <1>2, <1>9, <1>21, <2>1, <3>1, <3>2, <3>3 DEF QuietSound, HasRead, Served
  <2>2. CASE v \in ws
    <3>1. worker'[v] = Off \/ ~worker'[v].quiet
      BY <1>12, <2>2
    <3>2. Off.pc = "idle" /\ ~Off.asked
      BY DEF Off
    <3> QED BY <3>1, <3>2 DEF QuietSound, HasRead
  <2>3. CASE v # w /\ v \notin ws
    <3>1. worker'[v] = worker[v] /\ worker[v].model # m
      BY <1>12, <2>3
    <3>2. worker[v].pc # "idle" => worker[v].model \in Model
      BY OfWorker DEF WorkerSound, UsedSound, HasRead
    <3>3. worker[v].pc # "idle" =>
            /\ writing'[worker[v].model] = writing[worker[v].model]
            /\ file'[worker[v].model] = file[worker[v].model]
      BY <1>17, <3>1, <3>2
    <3>4. diskFaults' = 0 => diskFaults = 0
      BY <1>1
    <3>5. UNCHANGED historyVars
      BY <1>1
    <3> QED BY <3>1, <3>3, <3>4, <3>5, OthersStaySound
  <2> QED BY <2>1, <2>2, <2>3
<1> QED BY <1>18, <1>20, <1>22 DEF ModelInv

\* A worker that is done with its file: the others never wrote to it at once
\* with one that nothing disturbed.
LEMMA DoneWritingSound ==
  ASSUME ModelInv, NEW w \in Worker, NEW q \in WorkerState,
         worker[w].pc \in {"dumping", "writing"},
         worker' = [worker EXCEPT ![w] = q], q.pc # "writing",
         WorkerSound(q, hour), QuietSound(w, q)',
         writing' = [writing EXCEPT ![worker[w].model] = @ \ {w}],
         UNCHANGED historyVars,
         diskFaults' \in 0 .. MaxDiskFaults, diskFaults' = 0 => diskFaults = 0,
         \/ file' = file
         \/ /\ worker[w].pc = "writing"
            /\ \E x \in Payload \cup {Torn} :
                 PayloadSound(x, hour) /\ file' = [file EXCEPT ![worker[w].model] = x]
  PROVE  ModelInv'
<1> DEFINE m == worker[w].model
<1>1. UNCHANGED <<hour, series, shift, shifts>>
  BY DEF historyVars
<1>2. /\ worker \in [Worker -> WorkerState] /\ writing \in [Model -> SUBSET Worker]
      /\ file \in [Model -> Payload \cup {None, Torn}]
      /\ \A v \in Worker : WorkerSound(worker[v], hour)
      /\ \A n \in Model : PayloadSound(file[n], hour)
  BY DEF ModelInv, ModelState
<1>3. m \in Model
  BY <1>2 DEF WorkerSound, UsedSound, HasRead
<1>4. \A v \in Worker : worker'[v] = IF v = w THEN q ELSE worker[v]
  BY <1>2
<1>5. /\ writing'[m] = writing[m] \ {w}
      /\ \A n \in Model \ {m} : writing'[n] = writing[n] /\ file'[n] = file[n]
  BY <1>2, <1>3
<1>6. file' \in [Model -> Payload \cup {None, Torn}]
      /\ \A n \in Model : PayloadSound(file'[n], hour)
  <2>1. CASE file' = file
    BY <1>2, <2>1
  <2>2. ASSUME NEW x \in Payload \cup {Torn}, PayloadSound(x, hour),
               file' = [file EXCEPT ![m] = x]
        PROVE  /\ file' \in [Model -> Payload \cup {None, Torn}]
               /\ \A n \in Model : PayloadSound(file'[n], hour)
    BY <1>2, <1>3, <2>2
  <2> QED BY <2>1, <2>2
<1>7. ModelState'
  <2>1. worker' \in [Worker -> WorkerState] /\ writing' \in [Model -> SUBSET Worker]
    BY <1>2
  <2>2. \A v \in Worker : WorkerSound(worker'[v], hour)
    BY <1>2, <1>4
  <2> QED BY <1>1, <1>6, <2>1, <2>2, FilesStaySound
<1>8. ASSUME NEW n \in Model, NEW v \in Worker
      PROVE  v \in writing'[n] <=> (worker'[v].model = n /\ worker'[v].pc = "writing")
  <2>1. v \in writing[n] <=> (worker[v].model = n /\ worker[v].pc = "writing")
    BY DEF ModelInv, OpenFiles
  <2>2. v # w => (v \in writing'[n] <=> v \in writing[n])
    BY <1>5
  <2>3. w \in writing'[n] => n = m
    <3>1. w \in writing[n] => n = m
      BY DEF ModelInv, OpenFiles
    <3> QED BY <1>5, <3>1
  <2>4. w \notin writing'[m]
    BY <1>5
  <2> QED BY <1>4, <2>1, <2>2, <2>3, <2>4
<1>9. OpenFiles'
  BY <1>8 DEF OpenFiles
<1>10. ASSUME NEW v \in Worker PROVE QuietSound(v, worker[v])'
  <2>1. CASE v = w
    <3>1. PICK x : x = q
      OBVIOUS
    <3>2. QuietSound(w, x)'
      BY <3>1
    <3>3. worker'[v] = x
      BY <1>4, <2>1, <3>1
    <3> QED BY <2>1, <3>2, <3>3 DEF QuietSound, HasRead, Served
  <2>2. CASE v # w
    <3> DEFINE n == worker[v].model
    <3>1. worker'[v] = worker[v]
      BY <1>4, <2>2
    <3>2. worker[v].pc # "idle" => n \in Model
      BY <1>2 DEF WorkerSound, UsedSound, HasRead
    <3>3. worker[w].pc = "writing" => w \in writing[m]
      BY <1>3 DEF ModelInv, OpenFiles
    <3>4. worker[v].pc = "writing" /\ writing[n] = {v} => writing'[n] = {v}
      BY <1>5, <2>2, <3>2
    <3>5. worker[v].pc = "reloading" /\ writing[n] = {} =>
            writing'[n] = {} /\ file'[n] = file[n]
      <4>1. CASE n # m
        BY <1>5, <3>2, <4>1
      <4>2. CASE n = m
        BY <1>5, <3>3, <4>2
      <4> QED BY <4>1, <4>2
    <3> QED BY <3>1, <3>4, <3>5, OthersStaySound
  <2> QED BY <2>1, <2>2
<1> QED BY <1>7, <1>9, <1>10 DEF ModelInv

\* What a worker becomes that is done with its file.
LEMMA DoneWithFile ==
  ASSUME ModelInv, NEW w \in Worker, worker[w].pc \in {"dumping", "writing"},
         IF worker[w].asked THEN worker' = [worker EXCEPT ![w].pc = "reloading"]
                            ELSE End(w, "trained")
  PROVE  \E q \in WorkerState :
           /\ worker' = [worker EXCEPT ![w] = q] /\ WorkerSound(q, hour)
           /\ \/ q = Off
              \/ /\ worker[w].asked /\ q.pc = "reloading" /\ q.model = worker[w].model
                 /\ q.asked = worker[w].asked /\ q.last = worker[w].last
                 /\ q.knows = worker[w].knows /\ q.fitted = worker[w].fitted
                 /\ q.quiet = worker[w].quiet
<1> DEFINE old == worker[w]
           q == [old EXCEPT !.pc = "reloading"]
<1>1. old \in WorkerState /\ WorkerSound(old, hour)
  BY OfWorker
<1>2. CASE old.asked
  <2>1. worker' = [worker EXCEPT ![w] = q]
    BY <1>2
  <2> HIDE DEF old
  <2>2. q \in WorkerState
    BY <1>1 DEF WorkerState, WorkerStep
  <2>3. /\ q.pc = "reloading" /\ q.used = old.used /\ q.model = old.model /\ q.asked = old.asked
        /\ q.last = old.last /\ q.shift = old.shift /\ q.fitted = old.fitted
        /\ q.knows = old.knows /\ q.quiet = old.quiet
    BY <1>1 DEF WorkerState
  <2> HIDE DEF q
  <2>4. WorkerSound(q, hour)
    BY <1>1, <1>2, <2>3 DEF WorkerSound, UsedSound, HasRead, old
  <2> QED BY <1>2, <2>1, <2>2, <2>3, <2>4 DEF old
<1>3. CASE ~old.asked
  <2>1. worker' = [worker EXCEPT ![w] = Off]
    BY <1>3 DEF End
  <2> QED BY <2>1, OffIsAState
<1> QED BY <1>2, <1>3

LEMMA CloseFileSound ==
  ASSUME ModelInv, NEW w \in Worker, CloseFile(w)
  PROVE  ModelInv'
<1> DEFINE m == worker[w].model
<1>1. /\ worker[w].pc = "writing"
      /\ writing' = [writing EXCEPT ![m] = @ \ {w}]
      /\ UNCHANGED <<historyVars, diskFaults>>
      /\ \/ file' = [file EXCEPT ![m] = worker[w].fitted]
         \/ ~worker[w].quiet /\ file' = [file EXCEPT ![m] = Torn]
  BY DEF CloseFile, Doing
<1>2. worker[w] \in WorkerState /\ WorkerSound(worker[w], hour) /\ QuietSound(w, worker[w])
  BY OfWorker
<1>3. /\ m \in Model /\ worker[w].fitted \in Payload
      /\ PayloadSound(worker[w].fitted, hour)
  BY <1>1, <1>2 DEF WorkerSound, UsedSound, HasRead, WorkerState
<1>4. PICK q \in WorkerState :
        /\ worker' = [worker EXCEPT ![w] = q] /\ WorkerSound(q, hour)
        /\ \/ q = Off
           \/ /\ worker[w].asked /\ q.pc = "reloading" /\ q.model = worker[w].model
              /\ q.asked = worker[w].asked /\ q.last = worker[w].last
              /\ q.knows = worker[w].knows /\ q.fitted = worker[w].fitted
              /\ q.quiet = worker[w].quiet
  <2>1. IF worker[w].asked THEN worker' = [worker EXCEPT ![w].pc = "reloading"]
                           ELSE End(w, "trained")
    BY DEF CloseFile
  <2> QED BY <1>1, <2>1, DoneWithFile
<1>5. UNCHANGED <<hour, series, shift, shifts>> /\ UNCHANGED historyVars
      /\ diskFaults' = diskFaults
  BY <1>1 DEF historyVars
<1>6. diskFaults' \in 0 .. MaxDiskFaults /\ (diskFaults' = 0 => diskFaults = 0)
  BY <1>5 DEF ModelInv, ModelState
<1>7. \/ file' = file
      \/ /\ worker[w].pc = "writing"
         /\ \E x \in Payload \cup {Torn} :
              PayloadSound(x, hour) /\ file' = [file EXCEPT ![m] = x]
  <2>1. PayloadSound(Torn, hour)
    BY ModelFilesAssumption DEF PayloadSound
  <2> QED BY <1>1, <1>3, <2>1
<1>8. Points' = Points /\ LastShift' = LastShift /\ LastPoint' = LastPoint /\ ShiftAt' = ShiftAt
  BY <1>5 DEF Points, LastShift, LastPoint, ShiftAt
<1>9. QuietSound(w, q)'
  <2>1. Off.pc = "idle" /\ ~Off.asked
    BY DEF Off
  <2>2. CASE q = Off
    BY <2>1, <2>2 DEF QuietSound, HasRead
  <2>3. CASE q # Off /\ q.quiet
    <3>1. /\ worker[w].asked /\ q.pc = "reloading" /\ q.model = worker[w].model
          /\ q.asked = worker[w].asked /\ q.last = worker[w].last
          /\ q.knows = worker[w].knows /\ q.fitted = worker[w].fitted
          /\ q.quiet = worker[w].quiet
      BY <1>4, <2>3
    <3>2. writing[m] = {w}
      BY <1>1, <1>2, <2>3, <3>1 DEF QuietSound
    <3>3. writing'[q.model] = {} /\ file'[q.model] = q.fitted /\ q.fitted # None
      <4>1. writing \in [Model -> SUBSET Worker] /\ file \in [Model -> Payload \cup {None, Torn}]
        BY DEF ModelInv, ModelState
      <4>2. file' = [file EXCEPT ![m] = worker[w].fitted]
        BY <1>1, <2>3, <3>1
      <4> QED BY <1>1, <1>3, <3>1, <3>2, <4>1, <4>2, ModelFilesAssumption
    <3>4. HasRead(q) =>
            /\ Points # {} /\ q.last = LastPoint /\ q.knows = ShiftAt
            /\ q.fitted.knows = q.knows /\ q.fitted.last = q.last
      BY <1>1, <1>2, <2>3, <3>1 DEF QuietSound, HasRead
    <3> QED BY <1>5, <1>8, <3>1, <3>3, <3>4 DEF QuietSound, HasRead, Served
  <2>4. CASE ~q.quiet
    BY <2>4 DEF QuietSound
  <2> QED BY <2>2, <2>3, <2>4
<1>10. q.pc # "writing"
  BY <1>4 DEF Off
<1> QED BY <1>1, <1>4, <1>5, <1>6, <1>7, <1>9, <1>10, DoneWritingSound

LEMMA FailToDumpSound ==
  ASSUME ModelInv, NEW w \in Worker, FailToDump(w)
  PROVE  ModelInv'
<1> DEFINE m == worker[w].model
<1>1. /\ worker[w].pc \in {"dumping", "writing"}
      /\ writing' = [writing EXCEPT ![m] = @ \ {w}]
      /\ UNCHANGED <<historyVars, file>>
      /\ diskFaults < MaxDiskFaults /\ diskFaults' = diskFaults + 1
  BY DEF FailToDump, Doing
<1>2. worker[w] \in WorkerState /\ WorkerSound(worker[w], hour) /\ QuietSound(w, worker[w])
  BY OfWorker
<1>3. PICK q \in WorkerState :
        /\ worker' = [worker EXCEPT ![w] = q] /\ WorkerSound(q, hour)
        /\ \/ q = Off
           \/ /\ worker[w].asked /\ q.pc = "reloading" /\ q.model = worker[w].model
              /\ q.asked = worker[w].asked /\ q.last = worker[w].last
              /\ q.knows = worker[w].knows /\ q.fitted = worker[w].fitted
              /\ q.quiet = worker[w].quiet
  <2>1. IF worker[w].asked THEN worker' = [worker EXCEPT ![w].pc = "reloading"]
                           ELSE End(w, "trained")
    BY DEF FailToDump
  <2> QED BY <1>1, <2>1, DoneWithFile
<1>4. UNCHANGED <<hour, series, shift, shifts>> /\ UNCHANGED historyVars /\ file' = file
  BY <1>1 DEF historyVars
<1>5. diskFaults' \in 0 .. MaxDiskFaults /\ diskFaults' # 0
  <2>1. MaxDiskFaults \in Nat
    BY ModelFilesAssumption
  <2>2. diskFaults \in 0 .. MaxDiskFaults
    BY DEF ModelInv, ModelState
  <2> QED BY <1>1, <2>1, <2>2
<1>6. Points' = Points /\ LastShift' = LastShift /\ LastPoint' = LastPoint /\ ShiftAt' = ShiftAt
  BY <1>4 DEF Points, LastShift, LastPoint, ShiftAt
<1>7. QuietSound(w, q)'
  <2>1. Off.pc = "idle" /\ ~Off.asked
    BY DEF Off
  <2>2. CASE q = Off
    BY <2>1, <2>2 DEF QuietSound, HasRead
  <2>3. CASE q # Off /\ q.quiet
    <3>1. /\ worker[w].asked /\ q.pc = "reloading" /\ q.model = worker[w].model
          /\ q.asked = worker[w].asked /\ q.last = worker[w].last
          /\ q.knows = worker[w].knows /\ q.fitted = worker[w].fitted
          /\ q.quiet = worker[w].quiet
      BY <1>3, <2>3
    <3>2. HasRead(q) =>
            /\ Points # {} /\ q.last = LastPoint /\ q.knows = ShiftAt
            /\ q.fitted.knows = q.knows /\ q.fitted.last = q.last
      BY <1>1, <1>2, <2>3, <3>1 DEF QuietSound, HasRead
    <3> QED BY <1>4, <1>5, <1>6, <3>1, <3>2 DEF QuietSound, HasRead, Served
  <2>4. CASE ~q.quiet
    BY <2>4 DEF QuietSound
  <2> QED BY <2>2, <2>3, <2>4
<1>8. q.pc # "writing"
  BY <1>3 DEF Off
<1> QED BY <1>1, <1>3, <1>4, <1>5, <1>7, <1>8, DoneWritingSound

\* When the series moves, whoever is at work is disturbed.
LEMMA SeriesMovesSound ==
  ASSUME ModelInv, worker' = Disturbed(Worker), UNCHANGED <<file, writing, diskFaults>>,
         hour' \in 0 .. MaxHour, hour <= hour', series' \subseteq 1 .. hour',
         shift' = None \/ (shift' \in ShiftState /\ shift'.at <= hour')
  PROVE  ModelInv'
<1>1. hour \in Int /\ hour' \in Int /\ MaxHour \in Nat
  BY LastPointIsOne DEF ModelInv
<1>2. ASSUME NEW v \in Worker
      PROVE  /\ worker'[v] \in WorkerState /\ WorkerSound(worker'[v], hour')
             /\ worker'[v] = Off \/ ~worker'[v].quiet
             /\ worker'[v].pc = worker[v].pc
             /\ worker[v].pc # "idle" => worker'[v].model = worker[v].model
  BY <1>1, DisturbedIsSound, WorkersAge
<1>3. worker' \in [Worker -> WorkerState]
  BY <1>2 DEF Disturbed
<1>4. \A m \in Model : PayloadSound(file[m], hour')
  BY <1>1, PayloadsAge DEF ModelInv, ModelState
<1>5. ModelState'
  BY <1>2, <1>3, <1>4 DEF ModelInv, ModelState
<1>6. OpenFiles'
  BY <1>2 DEF ModelInv, OpenFiles
<1>7. ASSUME NEW v \in Worker PROVE QuietSound(v, worker[v])'
  <2>1. Off.pc = "idle" /\ ~Off.asked
    BY DEF Off
  <2>2. worker'[v] = Off \/ ~worker'[v].quiet
    BY <1>2
  <2> QED BY <2>1, <2>2 DEF QuietSound, HasRead
<1> QED BY <1>5, <1>6, <1>7 DEF ModelInv

LEMMA CollectPointSound ==
  ASSUME ModelInv, CollectPoint
  PROVE  ModelInv'
<1>1. /\ hour \in Nat /\ MaxHour \in Nat /\ series \subseteq 1 .. hour
      /\ shift = None \/ (shift \in ShiftState /\ shift.at <= hour)
  BY LastPointIsOne DEF ModelInv, ModelState
<1>2. /\ hour < MaxHour /\ hour' = hour + 1 /\ series' \in {series, series \cup {hour + 1}}
      /\ worker' = Disturbed(Worker) /\ shift' = shift
      /\ UNCHANGED <<file, writing, diskFaults>>
  BY DEF CollectPoint
<1>3. hour' \in 0 .. MaxHour /\ hour <= hour' /\ series' \subseteq 1 .. hour'
  BY <1>1, <1>2
<1>4. shift' = None \/ (shift' \in ShiftState /\ shift'.at <= hour')
  BY <1>1, <1>2 DEF ShiftState
<1> QED BY <1>2, <1>3, <1>4, SeriesMovesSound

LEMMA RecordShiftSound ==
  ASSUME ModelInv, NEW at \in 1 .. MaxHour, NEW severe \in BOOLEAN, RecordShift(at, severe)
  PROVE  ModelInv'
<1>1. hour \in Nat /\ MaxHour \in Nat /\ hour <= MaxHour /\ series \subseteq 1 .. hour
  BY LastPointIsOne DEF ModelInv, ModelState
<1>2. /\ at \in 1 .. hour /\ shift' = [at |-> at, severe |-> severe]
      /\ worker' = Disturbed(Worker) /\ hour' = hour /\ series' = series
      /\ UNCHANGED <<file, writing, diskFaults>>
  BY DEF RecordShift
<1>3. shift' \in ShiftState /\ shift'.at <= hour'
  BY <1>1, <1>2 DEF ShiftState
<1>4. hour' \in 0 .. MaxHour /\ hour <= hour' /\ series' \subseteq 1 .. hour'
  BY <1>1, <1>2
<1> QED BY <1>2, <1>3, <1>4, SeriesMovesSound

LEMMA WorkSound ==
  ASSUME ModelInv, NEW w \in Worker, Work(w)
  PROVE  ModelInv'
  BY ReadShiftSound, FitSound, OpenFileSound, CloseFileSound, FailToDumpSound, ReadPointsSound,
     ReadLastShiftSound, LoadSound, ReloadSound, PredictSound
  DEF Work

LEMMA ModelInitSound == ModelInit => ModelInv
<1> SUFFICES ASSUME ModelInit PROVE ModelInv
  OBVIOUS
<1>1. /\ hour = 0 /\ series = {} /\ shift = None /\ file = [m \in Model |-> None]
      /\ writing = [m \in Model |-> {}] /\ worker = [w \in Worker |-> Off] /\ diskFaults = 0
  BY DEF ModelInit
<1>2. MaxHour \in Nat /\ MaxDiskFaults \in Nat
  BY ModelFilesAssumption
<1>3. PayloadSound(None, 0)
  BY ModelFilesAssumption DEF PayloadSound
<1>4. \A w \in Worker : worker[w] = Off
  BY <1>1
<1>5. Off.pc = "idle" /\ ~Off.asked
  BY DEF Off
<1>6. ModelState
  BY <1>1, <1>2, <1>3, <1>4, OffIsAState DEF ModelState
<1>7. OpenFiles
  BY <1>1, <1>4, <1>5 DEF OpenFiles
<1>8. \A w \in Worker : QuietSound(w, worker[w])
  BY <1>4, DisturbedIsQuiet
<1> QED BY <1>6, <1>7, <1>8 DEF ModelInv

LEMMA ModelStepSound == ModelInv /\ [ModelNext]_modelVars => ModelInv'
<1> SUFFICES ASSUME ModelInv, [ModelNext]_modelVars PROVE ModelInv'
  OBVIOUS
<1>1. CASE CollectPoint
  BY <1>1, CollectPointSound
<1>2. ASSUME NEW at \in 1 .. MaxHour, NEW severe \in BOOLEAN, RecordShift(at, severe)
      PROVE  ModelInv'
  BY <1>2, RecordShiftSound
<1>3. ASSUME NEW m \in Model, StartTraining(m) PROVE ModelInv'
  <2>1. [Off EXCEPT !.pc = "training", !.model = m]
          = [Off EXCEPT !.pc = "training", !.model = m, !.asked = FALSE]
    <3>1. PICK off \in WorkerState : off = Off /\ ~off.asked
      BY OffIsAState DEF Off
    <3>2. [off EXCEPT !.pc = "training", !.model = m]
            = [off EXCEPT !.pc = "training", !.model = m, !.asked = FALSE]
      BY <3>1 DEF WorkerState
    <3> QED BY <3>1, <3>2
  <2>2. /\ worker[Nightly].pc = "idle" /\ Nightly \in Worker
        /\ worker' = [worker EXCEPT ![Nightly] =
                        [Off EXCEPT !.pc = "training", !.model = m, !.asked = FALSE]]
        /\ UNCHANGED <<historyVars, file, writing, diskFaults>>
    BY <1>3, <2>1, ModelFilesAssumption DEF StartTraining, Doing
  <2> QED BY <2>2, BeginSound
<1>4. ASSUME NEW m \in Model, NEW w \in Worker \ {Nightly}, Ask(w, m) PROVE ModelInv'
  BY <1>4, BeginSound DEF Ask, Doing
<1>5. ASSUME NEW w \in Worker, Work(w) PROVE ModelInv'
  BY <1>5, WorkSound
<1>6. CASE UNCHANGED modelVars
  <2>1. UNCHANGED <<hour, series, shift, shifts, file, writing, worker, diskFaults>>
    BY <1>6 DEF modelVars, historyVars
  <2>2. ModelState' /\ OpenFiles'
    BY <2>1 DEF ModelInv, ModelState, OpenFiles
  <2>3. ASSUME NEW v \in Worker PROVE QuietSound(v, worker[v])'
    BY <2>1, OthersStaySound DEF historyVars
  <2> QED BY <2>2, <2>3 DEF ModelInv
<1> QED BY <1>1, <1>2, <1>3, <1>4, <1>5, <1>6 DEF ModelNext

LEMMA ModelInvIsSound == ModelInv => ModelsAreSound
<1> SUFFICES ASSUME ModelInv PROVE ModelsAreSound
  OBVIOUS
<1>1. hour \in Nat /\ hour <= MaxHour /\ MaxHour \in Nat
  BY LastPointIsOne DEF ModelInv
<1>2. ModelTypeOK
  <2>1. shift = None \/ shift \in [at: 1 .. hour, severe: BOOLEAN]
    BY <1>1 DEF ModelInv, ModelState, ShiftState
  <2>2. ASSUME NEW m \in Model
        PROVE  writing[m] = {w \in Worker : worker[w].model = m /\ Doing(w, "writing")}
    BY DEF ModelInv, ModelState, OpenFiles, Doing
  <2>3. ASSUME NEW m \in Model, file[m] \notin {None, Torn} PROVE file[m].last \in 1 .. hour
    <3>1. file[m] \in Payload /\ PayloadSound(file[m], hour)
      BY <2>3 DEF ModelInv, ModelState
    <3> QED BY <1>1, <3>1 DEF PayloadSound, Payload
  <2> QED BY <2>1, <2>2, <2>3 DEF ModelTypeOK, ModelInv, ModelState
<1>3. ASSUME NEW w \in Worker,
             worker[w].asked /\ Doing(w, "idle") /\ worker[w].quiet /\ diskFaults = 0
      PROVE  /\ worker[w].outcome # "error"
             /\ worker[w].outcome = "predicted" /\ worker[w].model = "forecast" =>
                  /\ worker[w].used # None /\ ~worker[w].used.line
                  /\ worker[w].used.knows = worker[w].knows
                  /\ worker[w].used.last >= worker[w].last - 1
  BY <1>3, OfWorker DEF QuietSound, Doing, Served
<1>4. ASSUME NEW x, x \in Payload, PayloadSound(x, hour) PROVE ~x.line /\ ~AcrossRecentDrop(x)
  <2>1. x.since \in Int
    BY <1>4 DEF Payload
  <2> QED BY <1>4, <2>1 DEF PayloadSound, AcrossRecentDrop
<1>5. ServedIsFresh
  BY <1>3 DEF ServedIsFresh
<1>6. DropsAreNotExtrapolated
  <2>1. ASSUME NEW w \in Worker, worker[w].used # None, ~worker[w].used.line
        PROVE  ~AcrossRecentDrop(worker[w].used)
    <3>1. worker[w].used \in Payload /\ PayloadSound(worker[w].used, hour)
      BY <2>1, OfWorker DEF WorkerState, WorkerSound, UsedSound
    <3> QED BY <1>4, <3>1
  <2>2. ASSUME NEW m \in Model, file[m] \notin {None, Torn}
        PROVE  ~file[m].line /\ ~AcrossRecentDrop(file[m])
    <3>1. file[m] \in Payload /\ PayloadSound(file[m], hour)
      BY <2>2 DEF ModelInv, ModelState
    <3> QED BY <1>4, <3>1
  <2> QED BY <2>1, <2>2 DEF DropsAreNotExtrapolated
<1> QED BY <1>2, <1>5, <1>6 DEF ModelsAreSound

\* However many workers train and ask at once, files torn or not, a request that
\* nothing disturbs is served by a trained model that knows the last change-point
\* and the last point; no trained forecast, in use or in a file, extends a severe
\* drop that is not old.  The line that stands in for a file that cannot be read
\* back does, and is never written (forecast, train).
THEOREM ModelsAreAlwaysSound == ModelSpec => []ModelsAreSound
<1>1. ModelSpec => []ModelInv
  BY ModelInitSound, ModelStepSound, PTL DEF ModelSpec
<1> QED BY <1>1, ModelInvIsSound, PTL

------------------------------------------------------------------------------
\* Change-points: one of a shift is stored, and only a stronger one replaces it.

\* The instants of points: a point is known by its instant.
PointsOf(S) == \A e \in S : e.ts \in Nat

OneEach(S) == \A d, e \in S : d.ts = e.ts => d = e

\* Finitely many events at different instants can be put in order.
LEMMA OrderExists ==
  ASSUME NEW es, IsFiniteSet(es), PointsOf(es), OneEach(es)
  PROVE  /\ Cardinality(es) \in Nat /\ InOrder(es) \in [1 .. Cardinality(es) -> es]
<1> DEFINE Ordered(T, s) == \A i, j \in 1 .. Cardinality(T) : i < j => s[i].ts < s[j].ts
           Order(T) == \E s \in [1 .. Cardinality(T) -> T] : Ordered(T, s)
           Sorted(T) == IsFiniteSet(T) /\ Order(T)
           Sizes == {T \in SUBSET es : IsFiniteSet(T)}
           G == {n \in Nat : \A T \in SUBSET es : Cardinality(T) = n => Order(T)}
<1>0. \A T \in SUBSET es : IsFiniteSet(T) /\ Cardinality(T) \in Nat
  BY FS_Subset, FS_CardinalityType
<1>1. 0 \in G
  <2> SUFFICES ASSUME NEW T \in SUBSET es, Cardinality(T) = 0 PROVE Order(T)
    OBVIOUS
  <2>1. T = {}
    BY <1>0, FS_EmptySet
  <2> DEFINE s == [i \in 1 .. 0 |-> i]
  <2>2. 1 .. Cardinality(T) = {} /\ 1 .. 0 = {}
    OBVIOUS
  <2>3. s \in [1 .. Cardinality(T) -> T] /\ Ordered(T, s)
    BY <2>2
  <2> QED BY <2>3
<1>2. ASSUME NEW n \in Nat, n \in G PROVE n + 1 \in G
  <2> SUFFICES ASSUME NEW T \in SUBSET es, Cardinality(T) = n + 1 PROVE Order(T)
    OBVIOUS
  <2>1. IsFiniteSet(T) /\ T # {}
    BY <1>0, FS_EmptySet
  <2> DEFINE at == [e \in T |-> e.ts]
             times == {at[e] : e \in T}
  <2>2. IsFiniteSet(times)
    BY <2>1, FiniteImage
  <2>3. times \subseteq Nat /\ times # {}
    BY <2>1 DEF PointsOf
  <2>4. Max(times) \in times /\ \A t \in times : Max(times) >= t
    <3> HIDE DEF times
    <3> QED BY <2>2, <2>3, GreatestOfFinite
  <2>5. PICK m \in T : \A e \in T : m.ts >= e.ts
    BY <2>4
  <2> DEFINE U == T \ {m}
  <2>6. U \in SUBSET es /\ Cardinality(U) = n
    <3>1. Cardinality(T \ {m}) = Cardinality(T) - 1
      BY <2>1, FS_RemoveElement
    <3> QED BY <3>1
  <2>7. PICK s \in [1 .. n -> U] : \A i, j \in 1 .. n : i < j => s[i].ts < s[j].ts
    BY <1>2, <2>6
  <2> DEFINE r == [i \in 1 .. n + 1 |-> IF i <= n THEN s[i] ELSE m]
  <2>8. r \in [1 .. n + 1 -> T]
    OBVIOUS
  <2>9. ASSUME NEW i \in 1 .. n + 1, NEW j \in 1 .. n + 1, i < j PROVE r[i].ts < r[j].ts
    <3>1. i \in 1 .. n /\ r[i] = s[i] /\ s[i] \in U
      BY <2>9
    <3>2. CASE j <= n
      BY <2>7, <3>1, <3>2, <2>9
    <3>3. CASE j > n
      <4>1. r[j] = m
        BY <3>3
      <4>2. s[i].ts # m.ts /\ s[i].ts <= m.ts /\ s[i].ts \in Nat /\ m.ts \in Nat
        BY <2>5, <3>1 DEF OneEach, PointsOf
      <4> QED BY <3>1, <4>1, <4>2
    <3> QED BY <3>2, <3>3
  <2> HIDE DEF r
  <2> QED BY <2>8, <2>9
<1> HIDE DEF G
<1>3. \A n \in Nat : n \in G
  BY <1>1, <1>2, NaturalInduction
<1>4. Order(es)
  BY <1>0, <1>3 DEF G
<1>5. InOrder(es) = CHOOSE s \in [1 .. Cardinality(es) -> es] : Ordered(es, s)
  BY DEF InOrder
<1> HIDE DEF Ordered
<1>6. InOrder(es) \in [1 .. Cardinality(es) -> es]
  BY <1>4, <1>5
<1> QED BY <1>0, <1>6

------------------------------------------------------------------------------
\* A detection deduplicates its events into change-points.

Candidate == [ts: Time, up: BOOLEAN, score: Score, shift: Shift]

LEMMA CollapseKeeps ==
  ASSUME NEW E, NEW rest \in Seq(E), NEW e \in E
  PROVE  Collapse(rest, e) \in Seq(E)
<1>1. <<e>> \in Seq(E) /\ Append(rest, e) \in Seq(E)
  OBVIOUS
<1>2. CASE rest = <<>>
  BY <1>1, <1>2 DEF Collapse
<1>3. CASE rest # <<>>
  <2>1. Len(rest) \in Nat /\ Len(rest) # 0 /\ Len(rest) - 1 \in 0 .. Len(rest)
    BY <1>3
  <2>2. Front(rest) \in Seq(E)
    BY <2>1, SubSeqProperties DEF Front
  <2>3. Append(Front(rest), e) \in Seq(E)
    BY <2>2, AppendProperties
  <2> QED BY <1>1, <1>3, <2>3 DEF Collapse
<1> QED BY <1>2, <1>3

LEMMA EmittedType ==
  ASSUME NEW E, NEW events \in Seq(E)
  PROVE  Emitted(events) \in Seq(E)
<1> DEFINE n == Len(events)
           P(f) == f = [i \in 0 .. n |-> IF i = 0 THEN <<>> ELSE Collapse(f[i - 1], events[i])]
           K == CHOOSE f : P(f)
           next == [i \in 1 .. n |-> [k \in Seq(E) |-> Collapse(k, events[i])]]
<1>0. n \in Nat /\ \A i \in 1 .. n : events[i] \in E
  OBVIOUS
<1>1. Emitted(events) = K[n]
  BY DEF Emitted
<1>2. next \in [1 .. n -> [Seq(E) -> Seq(E)]]
  BY <1>0, CollapseKeeps
<1>3. <<>> \in Seq(E)
  OBVIOUS
<1> HIDE DEF next
<1>4. PICK g \in [0 .. n -> Seq(E)] :
        g[0] = <<>> /\ \A i \in 1 .. n : g[i] = next[i][g[i - 1]]
  <2> DEFINE State == Seq(E)
             base == <<>>
  <2>1. n \in Nat /\ base \in State /\ next \in [1 .. n -> [State -> State]]
    BY <1>0, <1>2, <1>3
  <2>2. \E f \in [0 .. n -> State] :
          f[0] = base /\ \A i \in 1 .. n : f[i] = next[i][f[i - 1]]
    <3> HIDE DEF n, State, base, P, K
    <3> QED BY <2>1, FoldExists
  <2> QED BY <2>2
<1>5. \A i \in 1 .. n : g[i] = Collapse(g[i - 1], events[i])
  <2> SUFFICES ASSUME NEW i \in 1 .. n PROVE g[i] = Collapse(g[i - 1], events[i])
    OBVIOUS
  <2>1. i - 1 \in 0 .. n
    BY <1>0
  <2>2. g[i - 1] \in Seq(E)
    BY <2>1
  <2>3. next[i][g[i - 1]] = Collapse(g[i - 1], events[i])
    BY <2>2 DEF next
  <2> QED BY <1>4, <2>3
<1>6. P(g)
  <2> DEFINE h == [i \in 0 .. n |-> IF i = 0 THEN <<>> ELSE Collapse(g[i - 1], events[i])]
  <2>1. \A i \in 0 .. n : g[i] = h[i]
    BY <1>0, <1>4, <1>5
  <2>2. g = [i \in 0 .. n |-> g[i]] /\ h = [i \in 0 .. n |-> h[i]]
    OBVIOUS
  <2> QED BY <2>1, <2>2
<1>7. P(K)
  <2> HIDE DEF P
  <2> QED BY <1>6
<1> HIDE DEF K
<1>8. K[0] \in Seq(E)
  BY <1>0, <1>3, <1>7
<1>9. ASSUME NEW i \in 1 .. n, K[i - 1] \in Seq(E) PROVE K[i] \in Seq(E)
  <2>1. i \in 0 .. n /\ i # 0
    BY <1>0
  <2>2. K[i] = Collapse(K[i - 1], events[i])
    BY <1>7, <2>1
  <2> QED BY <1>0, <1>9, <2>2, CollapseKeeps
<1>10. K[n] \in Seq(E)
  <2> HIDE DEF P, n
  <2> QED BY <1>0, <1>8, <1>9, FoldKeeps
<1> QED BY <1>1, <1>10

LEMMA DedupeType ==
  ASSUME NEW events \in Seq(Candidate)
  PROVE  Dedupe(events) \in Seq(Point)
<1> DEFINE k == Emitted(events)
<1>1. k \in Seq(Candidate)
  BY EmittedType
<1> HIDE DEF k
<1>2. Len(k) \in Nat /\ DOMAIN k = 1 .. Len(k) /\ \A i \in 1 .. Len(k) : k[i] \in Candidate
  BY <1>1
<1>3. \A e \in Candidate : Row(e) \in Point
  BY DEF Candidate, Row, Point
<1>4. Dedupe(events) = [i \in 1 .. Len(k) |-> Row(k[i])]
  BY <1>2 DEF Dedupe, k
<1>5. [i \in 1 .. Len(k) |-> Row(k[i])] \in [1 .. Len(k) -> Point]
  BY <1>2, <1>3
<1> QED BY <1>2, <1>4, <1>5

LEMMA DetectionType ==
  ASSUME NEW proposed \in Proposals
  PROVE  Dedupe(InOrder(Events(proposed))) \in Seq(Point)
<1> DEFINE es == Events(proposed)
           ev == [t \in DOMAIN proposed |->
                    [ts |-> t, up |-> proposed[t].up, score |-> proposed[t].score,
                     shift |-> proposed[t].shift]]
           T == DOMAIN proposed
<1>1. T \subseteq Time /\ IsFiniteSet(T)
      /\ \A t \in T : proposed[t] \in [up: BOOLEAN, score: Score, shift: Shift]
  BY ChangepointAssumption, FS_Subset DEF Proposals
<1>2. \A t \in T : ev[t] \in Candidate /\ ev[t].ts = t
  BY <1>1 DEF Candidate
<1>3. IsFiniteSet({ev[t] : t \in T})
  <2>1. DOMAIN ev = T /\ ev = [t \in T |-> ev[t]]
    OBVIOUS
  <2> HIDE DEF T, ev
  <2> QED BY <1>1, <2>1, FiniteImage
<1>4. es \subseteq {ev[t] : t \in T}
  BY DEF Events
<1>5. IsFiniteSet(es)
  BY <1>3, <1>4, FS_Subset
<1>6. PointsOf(es) /\ OneEach(es) /\ es \subseteq Candidate
  <2> HIDE DEF ev, es, T
  <2>1. \A e \in es : \E t \in T : e = ev[t]
    BY <1>4
  <2>2. \A e \in es : \E t \in T : e = ev[t] /\ e \in Candidate /\ e.ts = t /\ t \in Nat
    BY <1>1, <1>2, <2>1, ChangepointAssumption
  <2>3. PointsOf(es) /\ es \subseteq Candidate
    BY <2>2 DEF PointsOf
  <2>4. OneEach(es)
    BY <2>2 DEF OneEach
  <2> QED BY <2>3, <2>4
<1>7. InOrder(es) \in [1 .. Cardinality(es) -> es] /\ Cardinality(es) \in Nat
  <2> HIDE DEF es
  <2> QED BY <1>5, <1>6, OrderExists
<1>8. InOrder(es) \in Seq(Candidate)
  <2> HIDE DEF es
  <2> QED BY <1>6, <1>7
<1> HIDE DEF es
<1>9. Dedupe(InOrder(es)) \in Seq(Point)
  BY <1>8, DedupeType
<1> QED BY <1>9 DEF es

------------------------------------------------------------------------------
\* Storing keeps one point of a shift, and loses one only to a stronger.

OneShift(rows) == \A a, b \in rows : a # b /\ a.up = b.up => Apart(a, b) > Window

Replaces(new, old) ==
  \/ new.up = old.up /\ Apart(new, old) <= Window /\ new.score > old.score
  \/ new.ts = old.ts

SavedOver(base) ==
  {q \in [rows: SUBSET Point, saved: SUBSET Point] :
     /\ IsFiniteSet(q.rows) /\ OneShift(q.rows)
     /\ \A old \in base \ q.rows : \E new \in q.saved : Replaces(new, old)}

LEMMA PointFacts ==
  /\ Window \in Nat
  /\ \A a, b \in Point :
       /\ a.ts \in Nat /\ a.score \in Nat
       /\ Apart(a, b) \in Nat /\ Apart(a, b) = Apart(b, a) /\ Apart(a, a) = 0
<1>1. Window \in Nat /\ \A a \in Point : a.ts \in Nat /\ a.score \in Nat
  BY ChangepointAssumption DEF Point
<1>2. ASSUME NEW a \in Point, NEW b \in Point
      PROVE  Apart(a, b) \in Nat /\ Apart(a, b) = Apart(b, a) /\ Apart(a, a) = 0
  <2> DEFINE m == a.ts
             n == b.ts
  <2>1. m \in Nat /\ n \in Nat
    BY <1>1
  <2>2. /\ Apart(a, b) = IF m > n THEN m - n ELSE n - m
        /\ Apart(b, a) = IF n > m THEN n - m ELSE m - n
        /\ Apart(a, a) = IF m > m THEN m - m ELSE m - m
    BY DEF Apart
  <2> HIDE DEF m, n
  <2> QED BY <2>1, <2>2
<1> QED BY <1>1, <1>2

LEMMA SaveOneKeeps ==
  ASSUME NEW base, NEW q \in SavedOver(base), NEW e \in Point
  PROVE  SaveOne(q, e) \in SavedOver(base)
<1> DEFINE c == Cluster(q.rows, e)
           left == q.rows \ c
           rest == {r \in left : r.ts # e.ts}
           new == [rows |-> rest \cup {e}, saved |-> q.saved \cup {e}]
<1>1. /\ q.rows \subseteq Point /\ q.saved \subseteq Point /\ IsFiniteSet(q.rows)
      /\ OneShift(q.rows)
      /\ \A old \in base \ q.rows : \E x \in q.saved : Replaces(x, old)
  BY DEF SavedOver
<1>2. c \subseteq q.rows /\ \A r \in q.rows : r \in c <=> (r.up = e.up /\ Apart(r, e) <= Window)
  BY DEF Cluster
<1> HIDE DEF c
<1>3. \/ SaveOne(q, e) = q
      \/ SaveOne(q, e) = new /\ (c = {} \/ Beats(e, c))
  <2>1. CASE c = {}
    <3>1. left = q.rows
      BY <2>1
    <3>2. SaveOne(q, e) = new
      BY <2>1, <3>1 DEF SaveOne, Upsert, c
    <3> QED BY <2>1, <3>2
  <2>2. CASE c # {} /\ Beats(e, c)
    BY <2>2 DEF SaveOne, Upsert, Retire, c
  <2>3. CASE c # {} /\ ~Beats(e, c)
    BY <2>3 DEF SaveOne, c
  <2> QED BY <2>1, <2>2, <2>3
<1>4. ASSUME c = {} \/ Beats(e, c), NEW r \in c PROVE e.score > r.score
  <2> DEFINE sc == [x \in c |-> x.score]
             scores == {sc[x] : x \in c}
  <2>1. IsFiniteSet(c)
    BY <1>1, <1>2, FS_Subset
  <2>2. IsFiniteSet(scores)
    BY <2>1, FiniteImage
  <2>3. scores \subseteq Nat /\ scores # {} /\ r.score \in scores
    BY <1>1, <1>2, PointFacts
  <2>4. scores = {x.score : x \in c}
    OBVIOUS
  <2> HIDE DEF scores
  <2>5. Max(scores) >= r.score /\ Max(scores) \in Nat
    BY <2>2, <2>3, GreatestOfFinite
  <2>6. e.score > Max(scores)
    BY <1>4, <2>4 DEF Beats
  <2>7. r.score \in Nat /\ e.score \in Nat
    BY <1>1, <1>2, PointFacts
  <2> QED BY <2>5, <2>6, <2>7
<1>5. ASSUME c = {} \/ Beats(e, c) PROVE new \in SavedOver(base)
  <2>1. rest \subseteq q.rows /\ new \in [rows: SUBSET Point, saved: SUBSET Point]
    BY <1>1
  <2>2. IsFiniteSet(rest \cup {e})
    <3>1. IsFiniteSet(rest)
      BY <1>1, <2>1, FS_Subset
    <3> QED BY <3>1, FS_AddElement
  <2>3. ASSUME NEW a \in rest PROVE a.up = e.up => Apart(a, e) > Window
    BY <1>1, <1>2, PointFacts
  <2>4. OneShift(rest \cup {e})
    <3> SUFFICES ASSUME NEW a \in rest \cup {e}, NEW b \in rest \cup {e}, a # b, a.up = b.up
                 PROVE  Apart(a, b) > Window
      BY DEF OneShift
    <3>1. CASE a = e
      <4>1. b \in rest /\ b \in Point
        BY <1>1, <2>1, <3>1
      <4>2. Apart(b, e) > Window /\ Apart(e, b) = Apart(b, e)
        BY <2>3, <3>1, <4>1, PointFacts
      <4> QED BY <3>1, <4>2
    <3>2. CASE b = e
      BY <2>3, <3>2
    <3>3. CASE a # e /\ b # e
      BY <1>1, <2>1, <3>3 DEF OneShift
    <3> QED BY <3>1, <3>2, <3>3
  <2>5. ASSUME NEW old \in base \ (rest \cup {e})
        PROVE  \E x \in q.saved \cup {e} : Replaces(x, old)
    <3>1. CASE old \notin q.rows
      BY <1>1, <3>1
    <3>2. CASE old \in c
      <4>1. old \in Point /\ old.up = e.up /\ Apart(old, e) <= Window /\ Apart(e, old) = Apart(old, e)
        BY <1>1, <1>2, <3>2, PointFacts
      <4>2. Replaces(e, old)
        BY <1>4, <1>5, <3>2, <4>1 DEF Replaces
      <4> QED BY <4>2
    <3>3. CASE old \in q.rows /\ old \notin c
      <4>1. old.ts = e.ts
        BY <2>5, <3>3
      <4> QED BY <4>1 DEF Replaces
    <3> QED BY <3>1, <3>2, <3>3
  <2>6. new.rows = rest \cup {e} /\ new.saved = q.saved \cup {e}
    OBVIOUS
  <2> HIDE DEF new, rest
  <2> QED BY <2>1, <2>2, <2>4, <2>5, <2>6 DEF SavedOver
<1> QED BY <1>3, <1>5

LEMMA SaveType ==
  ASSUME NEW base, base \subseteq Point, IsFiniteSet(base), OneShift(base),
         NEW events \in Seq(Point), base = stored
  PROVE  SaveChangepoints(events) \in SavedOver(base)
<1> DEFINE n == Len(events)
           none == [rows |-> base, saved |-> {}]
           P(f) == f = [i \in 0 .. n |->
                          IF i = 0 THEN [rows |-> base, saved |-> {}]
                          ELSE SaveOne(f[i - 1], events[i])]
           K == CHOOSE f : P(f)
           next == [i \in 1 .. n |-> [q \in SavedOver(base) |-> SaveOne(q, events[i])]]
<1>0. n \in Nat /\ \A i \in 1 .. n : events[i] \in Point
  OBVIOUS
<1>1. SaveChangepoints(events) = K[n]
  BY DEF SaveChangepoints
<1>2. next \in [1 .. n -> [SavedOver(base) -> SavedOver(base)]]
  BY <1>0, SaveOneKeeps
<1>3. none \in SavedOver(base)
  BY DEF SavedOver
<1> HIDE DEF next
<1>4. PICK g \in [0 .. n -> SavedOver(base)] :
        g[0] = none /\ \A i \in 1 .. n : g[i] = next[i][g[i - 1]]
  <2> DEFINE State == SavedOver(base)
  <2>1. n \in Nat /\ none \in State /\ next \in [1 .. n -> [State -> State]]
    BY <1>0, <1>2, <1>3
  <2>2. \E f \in [0 .. n -> State] : f[0] = none /\ \A i \in 1 .. n : f[i] = next[i][f[i - 1]]
    <3> HIDE DEF n, State, none, P, K
    <3> QED BY <2>1, FoldExists, Z3
  <2> QED BY <2>2
<1>5. \A i \in 1 .. n : g[i] = SaveOne(g[i - 1], events[i])
  <2> SUFFICES ASSUME NEW i \in 1 .. n PROVE g[i] = SaveOne(g[i - 1], events[i])
    OBVIOUS
  <2>1. i - 1 \in 0 .. n
    BY <1>0
  <2>2. g[i - 1] \in SavedOver(base)
    BY <2>1
  <2>3. next[i][g[i - 1]] = SaveOne(g[i - 1], events[i])
    BY <2>2 DEF next
  <2> QED BY <1>4, <2>3
<1>6. P(g)
  <2> DEFINE h == [i \in 0 .. n |-> IF i = 0 THEN [rows |-> base, saved |-> {}]
                                  ELSE SaveOne(g[i - 1], events[i])]
  <2>1. \A i \in 0 .. n : g[i] = h[i]
    BY <1>0, <1>4, <1>5
  <2>2. g = [i \in 0 .. n |-> g[i]] /\ h = [i \in 0 .. n |-> h[i]]
    OBVIOUS
  <2> QED BY <2>1, <2>2
<1>7. P(K)
  <2> HIDE DEF P
  <2> QED BY <1>6
<1> HIDE DEF K
<1>8. K[0] \in SavedOver(base)
  BY <1>0, <1>3, <1>7
<1>9. ASSUME NEW i \in 1 .. n, K[i - 1] \in SavedOver(base) PROVE K[i] \in SavedOver(base)
  <2>1. i \in 0 .. n /\ i # 0
    BY <1>0
  <2>2. K[i] = SaveOne(K[i - 1], events[i])
    BY <1>7, <2>1
  <2> QED BY <1>0, <1>9, <2>2, SaveOneKeeps
<1>10. K[n] \in SavedOver(base)
  <2> HIDE DEF P, n
  <2> QED BY <1>0, <1>8, <1>9, FoldKeeps
<1> QED BY <1>1, <1>10

\* Finitely many points are stored, one of a shift, and a detection is a
\* sequence of points.
ShiftInv ==
  /\ stored \subseteq Point /\ IsFiniteSet(stored) /\ OneShift(stored)
  /\ announced \subseteq Point
  /\ detected \in Seq(Point)

LEMMA ShiftInit == ChangepointInit => ShiftInv
<1> SUFFICES ASSUME ChangepointInit PROVE ShiftInv
  OBVIOUS
<1>1. IsFiniteSet({}) /\ <<>> \in Seq(Point)
  BY FS_EmptySet
<1> QED BY <1>1 DEF ChangepointInit, ShiftInv, OneShift

LEMMA StoreStep ==
  ASSUME ShiftInv, StoreChangepoints
  PROVE  /\ ShiftInv'
         /\ \A old \in stored \ stored' : \E new \in announced' : Replaces(new, old)
<1> DEFINE q == SaveChangepoints(detected)
<1>1. q \in SavedOver(stored)
  BY SaveType DEF ShiftInv
<1>2. stored' = q.rows /\ announced' = q.saved /\ detected' = <<>>
  BY DEF StoreChangepoints
<1> HIDE DEF q
<1>3. /\ q.rows \subseteq Point /\ q.saved \subseteq Point /\ IsFiniteSet(q.rows)
      /\ OneShift(q.rows)
      /\ \A old \in stored \ q.rows : \E x \in q.saved : Replaces(x, old)
  BY <1>1 DEF SavedOver
<1>4. <<>> \in Seq(Point)
  OBVIOUS
<1>5. ShiftInv'
  BY <1>2, <1>3, <1>4 DEF ShiftInv, OneShift
<1> QED BY <1>2, <1>3, <1>5

LEMMA ShiftStep == ShiftInv /\ [ChangepointNext]_changepointVars => ShiftInv'
<1> SUFFICES ASSUME ShiftInv, [ChangepointNext]_changepointVars PROVE ShiftInv'
  OBVIOUS
<1>1. ASSUME NEW proposed \in Proposals, DetectChangepoints(proposed) PROVE ShiftInv'
  <2>1. detected' \in Seq(Point)
    BY <1>1, DetectionType DEF DetectChangepoints
  <2> QED BY <1>1, <2>1 DEF DetectChangepoints, ShiftInv, OneShift
<1>2. CASE StoreChangepoints
  BY <1>2, StoreStep
<1>3. CASE LoseDetection
  <2>1. <<>> \in Seq(Point)
    OBVIOUS
  <2> QED BY <1>3, <2>1 DEF LoseDetection, ShiftInv, OneShift
<1>4. CASE UNCHANGED changepointVars
  BY <1>4 DEF changepointVars, ShiftInv, OneShift
<1> QED BY <1>1, <1>2, <1>3, <1>4 DEF ChangepointNext

LEMMA ShiftInvariance == ChangepointSpec => []ShiftInv
<1> QED BY ShiftInit, ShiftStep, PTL DEF ChangepointSpec

\* After any sequence of detections the stored change-points are change-points
\* of the series, and of one direction at most one is stored within the window.
THEOREM ShiftsAreAlwaysSound == ChangepointSpec => []ShiftsAreSound
<1>1. ShiftInv => ShiftsAreSound
  <2> SUFFICES ASSUME ShiftInv PROVE ShiftsAreSound
    OBVIOUS
  <2>1. ToSet(detected) \subseteq Point
    BY DEF ShiftInv, ToSet
  <2> QED BY <2>1 DEF ShiftInv, OneShift, ShiftsAreSound, ChangepointTypeOK, OnePerShift
<1> QED BY <1>1, ShiftInvariance, PTL

\* A transaction of save_changepoints removes a stored point only for one it
\* tells its caller of: a stronger one of the same shift, or one at its instant.
THEOREM StrongerAlwaysWins == ChangepointSpec => StrongerWins
<1> DEFINE Won == \A old \in stored \ stored' :
                    \E new \in announced' :
                      \/ new.up = old.up /\ Apart(new, old) <= Window /\ new.score > old.score
                      \/ new.ts = old.ts
<1>1. ShiftInv /\ [ChangepointNext]_changepointVars => [Won]_changepointVars
  <2> SUFFICES ASSUME ShiftInv, ChangepointNext PROVE Won
    OBVIOUS
  <2>1. CASE StoreChangepoints
    BY <2>1, StoreStep DEF Replaces
  <2>2. CASE stored' = stored
    BY <2>2
  <2> QED BY <2>1, <2>2 DEF ChangepointNext, DetectChangepoints, LoseDetection
<1>2. StrongerWins <=> [][Won]_changepointVars
  BY DEF StrongerWins
<1> QED BY <1>1, <1>2, ShiftInvariance, PTL DEF ChangepointSpec
==============================================================================
