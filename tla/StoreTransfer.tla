--------------------------- MODULE StoreTransfer ---------------------------
(***************************************************************************)
(* scripts/migrate_metrics_to_timescale.py: an operator copies a SQLite    *)
(* store into PostgreSQL, table by table, in batches with a commit every   *)
(* few of them.  A run may fail anywhere and be repeated, with --reset or  *)
(* without; the application goes on writing to the source meanwhile.       *)
(*                                                                         *)
(* A row of a keyed table has a version, 0 when there is none; a row of an *)
(* append table is written once, and may be in the target several times.   *)
(* Columns that a source lacks get their defaults and are left out.        *)
(***************************************************************************)
EXTENDS Integers, Sequences, FiniteSets

CONSTANTS
  KeyedCopied, AppendCopied,   \* the tables the instance looks at, in order
  Record,
  MaxVersion,                  \* bound: versions of a row
  BatchSize,                   \* 1000
  CommitEvery,                 \* 10 batches
  MaxTransfers                 \* bound: runs

KeyedTables == {"source_schema_snapshots", "changepoints", "schema_snapshots",
                "anomaly_scores", "drift_reports", "llm_explanations",
                "telegram_throttle", "users", "projects", "connections"}
AppendTables == {"metrics", "schema_events", "notifications", "failed_login_attempts"}

ASSUME TransferAssumption ==
  /\ KeyedCopied \in Seq(KeyedTables) /\ AppendCopied \in Seq(AppendTables)
  /\ KeyedCopied \o AppendCopied # <<>>
  /\ IsFiniteSet(Record)
  /\ {MaxVersion, BatchSize, CommitEvery} \subseteq Nat \ {0}
  /\ MaxTransfers \in Nat

Copied == KeyedCopied \o AppendCopied
IsKeyed(t) == t \in KeyedTables

VARIABLES
  source, target,     \* versions or copies of each row, by table
  transfer,           \* the run under way
  transfers           \* how many were begun

transferVars == <<source, target, transfer, transfers>>

Nothing == [r \in Record |-> 0]

\* The last components are a history: what the run read of each table, and
\* whether it has completed.
NoTransfer == [pc |-> "idle", reset |-> FALSE, table |-> 1, unread |-> {}, batch |-> {},
               uncommitted |-> {}, batches |-> 0,
               read |-> [i \in 1 .. Len(Copied) |-> Nothing]]

TransferInit ==
  /\ source = [i \in 1 .. Len(Copied) |-> Nothing]
  /\ target = [i \in 1 .. Len(Copied) |-> Nothing]
  /\ transfer = NoTransfer
  /\ transfers = 0

InTransfer(pc) == transfer.pc = pc

\* The application: keyed rows come, change and go, append rows come.
WriteSource(i, r) ==
  /\ IF IsKeyed(Copied[i]) THEN source[i][r] < MaxVersion ELSE source[i][r] = 0
  /\ source' = [source EXCEPT ![i][r] = @ + 1]
  /\ UNCHANGED <<target, transfer, transfers>>

DeleteFromSource(i, r) ==
  /\ IsKeyed(Copied[i]) /\ source[i][r] > 0
  /\ source' = [source EXCEPT ![i][r] = 0]
  /\ UNCHANGED <<target, transfer, transfers>>

------------------------------------------------------------------------------
\* migrate

Begin(reset) ==
  /\ InTransfer("idle") \/ InTransfer("complete")
  /\ transfers < MaxTransfers
  /\ transfers' = transfers + 1
  /\ transfer' = [NoTransfer EXCEPT !.pc = IF reset THEN "truncating" ELSE "selecting",
                                    !.reset = reset]
  /\ UNCHANGED <<source, target>>

Truncate ==
  /\ InTransfer("truncating")
  /\ target' = [i \in 1 .. Len(Copied) |-> IF IsKeyed(Copied[i]) THEN target[i] ELSE Nothing]
  /\ transfer' = [transfer EXCEPT !.pc = "selecting"]
  /\ UNCHANGED <<source, transfers>>

\* One SELECT reads one state of the source.
Select ==
  LET i == transfer.table IN
  /\ InTransfer("selecting")
  /\ transfer' = [transfer EXCEPT !.pc = "copying", !.read[i] = source[i],
                                  !.unread = {r \in Record : source[i][r] > 0}]
  /\ UNCHANGED <<source, target, transfers>>

\* Rows become visible in the target when they are committed: an upsert by
\* key, or one more copy.
Upserted(i, rs) ==
  [target EXCEPT ![i] = [r \in Record |->
     IF r \notin rs THEN @[r]
     ELSE IF IsKeyed(Copied[i]) THEN transfer.read[i][r] ELSE @[r] + 1]]

TakeRow(r) ==
  /\ InTransfer("copying")
  /\ r \in transfer.unread
  /\ Cardinality(transfer.batch) < BatchSize
  /\ transfer' = [transfer EXCEPT !.unread = @ \ {r}, !.batch = @ \cup {r}]
  /\ UNCHANGED <<source, target, transfers>>

ExecuteBatch ==
  LET sent == transfer.uncommitted \cup transfer.batch
      commits == transfer.batches + 1 = CommitEvery IN
  /\ InTransfer("copying")
  /\ Cardinality(transfer.batch) = BatchSize
  /\ transfer' = [transfer EXCEPT !.batch = {}, !.uncommitted = IF commits THEN {} ELSE sent,
                                  !.batches = IF commits THEN 0 ELSE @ + 1]
  /\ target' = IF commits THEN Upserted(transfer.table, sent) ELSE target
  /\ UNCHANGED <<source, transfers>>

NextCopied ==
  transfer' = [transfer EXCEPT !.batch = {}, !.uncommitted = {}, !.batches = 0,
                 !.table = IF @ = Len(Copied) THEN 1 ELSE @ + 1,
                 !.pc = IF transfer.table = Len(Copied) THEN "complete" ELSE "selecting"]

\* Mutant: a batch that is not full is forgotten.
FinishFullBatches ==
  /\ InTransfer("copying") /\ transfer.unread = {}
  /\ Cardinality(transfer.batch) < BatchSize
  /\ target' = Upserted(transfer.table, transfer.uncommitted)
  /\ NextCopied
  /\ UNCHANGED <<source, transfers>>

FinishTable ==
  /\ InTransfer("copying") /\ transfer.unread = {}
  /\ Cardinality(transfer.batch) < BatchSize
  /\ target' = Upserted(transfer.table, transfer.uncommitted \cup transfer.batch)
  /\ NextCopied
  /\ UNCHANGED <<source, transfers>>

\* An error rolls back what was not committed and ends the run; so does the
\* death of the script.
FailTransfer ==
  /\ ~InTransfer("idle") /\ ~InTransfer("complete")
  /\ transfer' = NoTransfer
  /\ UNCHANGED <<source, target, transfers>>

TransferNext ==
  \/ \E i \in 1 .. Len(Copied), r \in Record : WriteSource(i, r) \/ DeleteFromSource(i, r)
  \/ \E reset \in BOOLEAN : Begin(reset)
  \/ Truncate \/ Select \/ ExecuteBatch \/ FinishTable \/ FailTransfer
  \/ \E r \in Record : TakeRow(r)

TransferSpec == TransferInit /\ [][TransferNext]_transferVars

------------------------------------------------------------------------------
\* Properties

\* A run that completes has brought every row it read, in the version it
\* read, whatever earlier runs left half done; and with --reset no append row
\* is there twice or without having been read (migrate, _insert_batched).
TransferIsComplete ==
  InTransfer("complete") =>
    \A i \in 1 .. Len(Copied), r \in Record :
      LET read == transfer.read[i][r] IN
      IF IsKeyed(Copied[i]) THEN read > 0 => target[i][r] = read
      ELSE target[i][r] >= read /\ (transfer.reset => target[i][r] = read)

=============================================================================
