----------------------------- MODULE LiveReads -----------------------------
(***************************************************************************)
(* Which database answers a live read (app/db.py, #54).  The process has   *)
(* one engine and one adapter, of DATABASE_URL; two context variables      *)
(* override them for the length of a block.  A tick reads through the      *)
(* module's functions, which look the variables up, in its own thread and  *)
(* in worker threads with a budget of time; a page of a project reads      *)
(* through an adapter of its own.  The sweep of the global job, and pages  *)
(* for nobody, are made by the same threads without an override.  Any read *)
(* may fail.                                                               *)
(*                                                                         *)
(* Abstracted: what the reads return; an engine, an adapter and the        *)
(* database they lead to are one.                                          *)
(***************************************************************************)
EXTENDS Absent, Naturals, Sequences

CONSTANTS
  Database,     \* the monitored databases; a connection is named by its own
  Catalogue,    \* those that are Iceberg catalogs: adapters without an engine
  Global,       \* the one of DATABASE_URL
  Pooled,       \* the threads, which serve one request or job after another
  MaxTables     \* bound: tables read in one block

ASSUME ReadsAssumption ==
  /\ Catalogue \subseteq Database /\ Global \in Database
  /\ None \notin Database /\ MaxTables \in Nat

VARIABLES
  context,      \* the two variables, as each thread sees them
  block,        \* what each thread is doing
  answered      \* for whom a read was made, and who answered it (history)

readsVars == <<context, block, answered>>

Context == [engine: Database \cup {None}, adapter: Database \cup {None}]
Unset == [engine |-> None, adapter |-> None]

(***************************************************************************)
(* One read: a method of an adapter, called on the block's own adapter or  *)
(* through the module (which picks one), here or in a worker thread.       *)
(***************************************************************************)
Method == {"list", "size", "stats", "nulls", "distribution", "schema"}
LiveRead == [method: Method, own: BOOLEAN, timed: BOOLEAN]
Of(method)      == [method |-> method, own |-> FALSE, timed |-> FALSE]
OwnRead(method) == [method |-> method, own |-> TRUE, timed |-> FALSE]
Timed(method)   == [method |-> method, own |-> FALSE, timed |-> TRUE]

\* list_tables and the cheap size check are called on the tick's adapter.
TickStart == <<[method |-> "list", own |-> TRUE, timed |-> TRUE]>>
TickTable == <<OwnRead("size"), Of("stats"), Of("nulls"), Of("distribution"),
               Timed("schema")>>
MetadataTable == <<Timed("schema")>>

PageReads == {<<OwnRead("list")>>, <<OwnRead("schema")>>}
SweepStart == <<Of("list")>>
SweepTable == <<Of("schema")>>

\* What an override that is not set leaves in place.
Or(override, default) == IF override # None THEN override ELSE default

AdapterOf(ctx, db, read) ==
  IF read.own THEN db ELSE Or(ctx.adapter, Global)

\* Mutant: Iceberg inherits the generic distribution, a query on the engine.
AnswerGeneric(ctx, db, read) ==
  LET a == AdapterOf(ctx, db, read)
  IN IF a \in Catalogue /\ read.method # "distribution"
     THEN a ELSE Or(ctx.engine, Global)

\* An Iceberg adapter reads its catalog, and has no distributions to give; the
\* others send their query to the engine that is in place.
Answer(ctx, db, read) ==
  LET a == AdapterOf(ctx, db, read)
  IN IF a \notin Catalogue THEN Or(ctx.engine, Global)
     ELSE IF read.method = "distribution" THEN None ELSE a

------------------------------------------------------------------------------
Kind == {"idle", "tick", "metadata", "page", "sweep"}
Block(kind, db, saved, reads) ==
  [kind |-> kind, db |-> db, saved |-> saved, reads |-> reads,
   worker |-> None, tables |-> 0]
Resting == Block("idle", Global, Unset, <<>>)

ReadsInit ==
  /\ context = [r \in Pooled |-> Unset]
  /\ block = [r \in Pooled |-> Resting]
  /\ answered = {}

\* using_engine.  Without an engine, the one in place stays.
Overridden(ctx, db) ==
  [engine |-> IF db \in Catalogue THEN ctx.engine ELSE db, adapter |-> db]

\* A tick, or one live read of a page of a project.
EnterBlock(r, kind, db, reads) ==
  /\ block[r].kind = "idle"
  /\ block' = [block EXCEPT ![r] = Block(kind, db, context[r], reads)]
  /\ context' = [context EXCEPT ![r] = Overridden(@, db)]
  /\ UNCHANGED answered

\* The global job, or a page for nobody: no override.
EnterSweep(r) ==
  /\ block[r].kind = "idle"
  /\ block' = [block EXCEPT ![r] = Block("sweep", Global, context[r], SweepStart)]
  /\ UNCHANGED <<context, answered>>

\* Mutant: a block that fails leaves its variables set.
LeaveWhenDone(r) ==
  /\ block' = [block EXCEPT ![r] = Resting]
  /\ context' = IF block[r].reads = <<>>
                THEN [context EXCEPT ![r] = block[r].saved] ELSE context

\* The end of the block, reached in any way: the variables are reset.
LeaveBlock(r) ==
  /\ block' = [block EXCEPT ![r] = Resting]
  /\ context' = [context EXCEPT ![r] = block[r].saved]

\* A failed read ends a page, a listing and the size check end a tick; what
\* fails in MetricsCollector or in collect_table_schema is caught there.
Ends(r) ==
  \/ block[r].kind = "page"
  \/ Head(block[r].reads).method \in {"list", "size"}

\* The read is over, well or not.
Proceed(r) ==
  \/ /\ block' = [block EXCEPT ![r].reads = Tail(@), ![r].worker = None]
     /\ UNCHANGED context
  \/ Ends(r) /\ LeaveBlock(r)

Answered(r, ctx) ==
  LET from == Answer(ctx, block[r].db, Head(block[r].reads))
  IN answered' = IF from = None THEN answered
                 ELSE answered \cup {[for |-> block[r].db, from |-> from]}

Reading(r) == block[r].kind # "idle" /\ block[r].reads # <<>>

ReadHere(r) ==
  /\ Reading(r) /\ ~Head(block[r].reads).timed
  /\ Answered(r, context[r])
  /\ Proceed(r)

\* Mutant: the worker starts with a context of its own.
SeenByWorkerAfresh(r) == Unset

\* copy_context
SeenByWorker(r) == context[r]

\* _run_with_timeout: the worker takes the context that it was given.
StartWorker(r) ==
  /\ Reading(r) /\ Head(block[r].reads).timed /\ block[r].worker = None
  /\ block' = [block EXCEPT ![r].worker = SeenByWorker(r)]
  /\ UNCHANGED <<context, answered>>

ReadInWorker(r) ==
  /\ Reading(r) /\ block[r].worker # None
  /\ Answered(r, block[r].worker)
  /\ Proceed(r)

TableReads(kind) ==
  CASE kind = "tick" -> TickTable
    [] kind = "metadata" -> MetadataTable
    [] kind = "sweep" -> SweepTable

ReadTable(r) ==
  /\ block[r].kind \in {"tick", "metadata", "sweep"}
  /\ block[r].reads = <<>> /\ block[r].tables < MaxTables
  /\ block' = [block EXCEPT ![r].reads = TableReads(block[r].kind),
                            ![r].tables = @ + 1]
  /\ UNCHANGED <<context, answered>>

EndBlock(r) ==
  /\ block[r].kind # "idle" /\ block[r].reads = <<>>
  /\ LeaveBlock(r)
  /\ UNCHANGED answered

ReadsNext ==
  \E r \in Pooled :
    \/ \E db \in Database, kind \in {"tick", "metadata"} :
         EnterBlock(r, kind, db, TickStart)
    \/ \E db \in Database, reads \in PageReads :
         EnterBlock(r, "page", db, reads)
    \/ EnterSweep(r) \/ ReadHere(r) \/ StartWorker(r) \/ ReadInWorker(r)
    \/ ReadTable(r) \/ EndBlock(r)

ReadsSpec == ReadsInit /\ [][ReadsNext]_readsVars

(***************************************************************************)
(* Properties.                                                             *)
(***************************************************************************)
\* What a connection's tick or page reads comes from that connection's
\* database, in whichever thread it is read, and what the global job reads
\* comes from the global one, whatever blocks ran, or failed, in its thread
\* before (using_engine, _run_with_timeout, _with_project_adapter).
ReadsStayHome == \A a \in answered : a.from = a.for
=============================================================================
