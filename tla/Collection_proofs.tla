-------------------------- MODULE Collection_proofs --------------------------
(***************************************************************************)
(* Theorems about what runs without a browser: whose database a read       *)
(* reaches, the jobs that visit every project, the metrics store as it     *)
(* comes up and its copy to another one, what a tick says of itself, what  *)
(* is measured of a table and what the pages show of it; for all           *)
(* databases, catalogs, threads, projects, tables, rows and batch sizes.   *)
(***************************************************************************)
EXTENDS CollectorTick, TableReads, LiveReads, GlobalJobs, MetricsStore, History,
        SequenceTheorems, Induction_proofs, TLAPS

\* What a thread sees while it is in a block of this kind, for db.
Seen(kind, db) ==
  IF kind \in {"tick", "metadata", "page"} THEN Overridden(Unset, db) ELSE Unset

Fields == {"kind", "db", "saved", "reads", "worker", "tables"}

\* The strengthening: the variables of a thread are those of its block and,
\* outside of one, unset; a worker sees what its caller does.
ReadsInv ==
  /\ DOMAIN context = Pooled
  /\ DOMAIN block = Pooled
  /\ context = [r \in Pooled |-> context[r]]
  /\ \A r \in Pooled :
       LET b == block[r] IN
       /\ DOMAIN b = Fields
       /\ b.kind \in Kind /\ b.db \in Database /\ b.saved = Unset
       /\ b.kind \in {"idle", "sweep"} => b.db = Global
       /\ context[r] = Seen(b.kind, b.db)
       /\ b.worker = None \/ b.worker = context[r]
  /\ block = [r \in Pooled |-> block[r]]
  /\ ReadsStayHome

LEMMA InitInv == ReadsInit => ReadsInv
  BY ReadsAssumption
     DEF ReadsInit, ReadsInv, Resting, Block, Seen, ReadsStayHome, Fields, Kind

\* A block's own context leads to the block's own database, or nowhere.
LEMMA AnswerIsHome ==
  ASSUME NEW db \in Database, NEW kind \in Kind, NEW read,
         kind \in {"idle", "sweep"} => db = Global
  PROVE  Answer(Seen(kind, db), db, read) \in {db, None}
  BY ReadsAssumption DEF Answer, AdapterOf, Or, Seen, Overridden, Unset, Kind

\* The end of a block puts the variables back.
LEMMA LeaveKeepsInv ==
  ASSUME ReadsInv, NEW r \in Pooled, LeaveBlock(r), ReadsStayHome'
  PROVE  ReadsInv'
<1>1. block[r].saved = Unset
  BY DEF ReadsInv
<1>2. context' = [context EXCEPT ![r] = Unset]
  BY <1>1 DEF LeaveBlock
<1> QED
  BY <1>2, ReadsAssumption DEF ReadsInv, LeaveBlock, Resting, Seen, Block, Fields, Kind

\* So does a read that is over.
LEMMA ProceedKeepsInv ==
  ASSUME ReadsInv, NEW r \in Pooled, Proceed(r), ReadsStayHome'
  PROVE  ReadsInv'
<1>1. CASE LeaveBlock(r)
  BY <1>1, LeaveKeepsInv
<1>2. CASE /\ block' = [block EXCEPT ![r].reads = Tail(@), ![r].worker = None]
           /\ UNCHANGED context
  BY <1>2 DEF ReadsInv, Fields
<1> QED
  BY <1>1, <1>2 DEF Proceed

\* A read made with the block's context is answered at home.
LEMMA AnsweredAtHome ==
  ASSUME ReadsInv, NEW r \in Pooled, Answered(r, context[r])
  PROVE  ReadsStayHome'
<1> DEFINE from == Answer(context[r], block[r].db, Head(block[r].reads))
<1>1. from \in {block[r].db, None}
  BY AnswerIsHome DEF ReadsInv
<1>2. answered' \subseteq
        answered \cup {[for |-> block[r].db, from |-> block[r].db]}
  BY <1>1 DEF Answered
<1> QED
  BY <1>2 DEF ReadsInv, ReadsStayHome

LEMMA NextInv == ReadsInv /\ [ReadsNext]_readsVars => ReadsInv'
<1> SUFFICES ASSUME ReadsInv, [ReadsNext]_readsVars PROVE ReadsInv'
  OBVIOUS
<1>1. CASE UNCHANGED readsVars
  BY <1>1 DEF ReadsInv, readsVars, ReadsStayHome
<1>2. ASSUME NEW r \in Pooled, NEW db \in Database, NEW reads,
             NEW kind \in {"tick", "metadata", "page"},
             EnterBlock(r, kind, db, reads)
      PROVE  ReadsInv'
  <2>1. block[r].kind = "idle" /\ context[r] = Unset
    BY <1>2 DEF EnterBlock, ReadsInv, Seen
  <2>2. block' = [block EXCEPT ![r] = Block(kind, db, Unset, reads)]
    BY <1>2, <2>1 DEF EnterBlock
  <2>3. context' = [context EXCEPT ![r] = Overridden(Unset, db)]
    BY <1>2, <2>1 DEF EnterBlock, ReadsInv
  <2>4. ReadsStayHome'
    BY <1>2 DEF EnterBlock, ReadsInv, ReadsStayHome
  <2> QED
    BY <2>2, <2>3, <2>4 DEF ReadsInv, Seen, Block, Fields, Kind
<1>3. ASSUME NEW r \in Pooled, EnterSweep(r) PROVE ReadsInv'
  <2>1. context[r] = Unset
    BY <1>3 DEF EnterSweep, ReadsInv, Seen
  <2>2. block' = [block EXCEPT ![r] = Block("sweep", Global, Unset, SweepStart)]
    BY <1>3, <2>1 DEF EnterSweep
  <2>3. ReadsStayHome'
    BY <1>3 DEF EnterSweep, ReadsInv, ReadsStayHome
  <2> QED
    BY <1>3, <2>1, <2>2, <2>3, ReadsAssumption
       DEF EnterSweep, ReadsInv, Seen, Block, Fields, Kind
<1>4. ASSUME NEW r \in Pooled, ReadHere(r) PROVE ReadsInv'
  BY <1>4, AnsweredAtHome, ProceedKeepsInv DEF ReadHere
<1>5. ASSUME NEW r \in Pooled, StartWorker(r) PROVE ReadsInv'
  <2>1. block' = [block EXCEPT ![r].worker = context[r]]
    BY <1>5 DEF StartWorker, SeenByWorker
  <2>2. ReadsStayHome'
    BY <1>5 DEF StartWorker, ReadsInv, ReadsStayHome
  <2> QED
    BY <1>5, <2>1, <2>2 DEF StartWorker, ReadsInv, Fields
<1>6. ASSUME NEW r \in Pooled, ReadInWorker(r) PROVE ReadsInv'
  <2>1. block[r].worker = context[r]
    BY <1>6 DEF ReadInWorker, ReadsInv
  <2>2. Answered(r, context[r])
    BY <1>6, <2>1 DEF ReadInWorker
  <2> QED
    BY <1>6, <2>2, AnsweredAtHome, ProceedKeepsInv DEF ReadInWorker
<1>7. ASSUME NEW r \in Pooled, ReadTable(r) PROVE ReadsInv'
  <2>1. block' = [block EXCEPT ![r].reads = TableReads(block[r].kind),
                               ![r].tables = @ + 1]
    BY <1>7 DEF ReadTable
  <2>2. ReadsStayHome'
    BY <1>7 DEF ReadTable, ReadsInv, ReadsStayHome
  <2> QED
    BY <1>7, <2>1, <2>2 DEF ReadTable, ReadsInv, Fields
<1>8. ASSUME NEW r \in Pooled, EndBlock(r) PROVE ReadsInv'
  <2>1. ReadsStayHome'
    BY <1>8 DEF EndBlock, ReadsInv, ReadsStayHome
  <2> QED
    BY <1>8, <2>1, LeaveKeepsInv DEF EndBlock
<1> QED
  BY <1>1, <1>2, <1>3, <1>4, <1>5, <1>6, <1>7, <1>8 DEF ReadsNext

\* Every live read is answered by the database it is for, and the global
\* job's by the global one, however blocks, failures and worker threads
\* interleave (using_engine, _run_with_timeout).
THEOREM ReadsAlwaysStayHome == ReadsSpec => []ReadsStayHome
<1>1. ReadsInv => ReadsStayHome
  BY DEF ReadsInv
<1> QED
  BY InitInv, NextInv, <1>1, PTL DEF ReadsSpec

------------------------------------------------------------------------------
\* The jobs that visit every project.

\* What a job under way has not settled yet: the rows of the stages to come,
\* and, in its stage, those of the projects left and of the tables to do.
Unsettled(row) ==
  /\ ~job.ended
  /\ \/ \E k \in job.stage + 1 .. Len(Stages(job.name)) : row[1] = Stages(job.name)[k]
     \/ row[1] = Stage /\ row[2] \in job.left
     \/ row[1] = Stage /\ row[2] = job.project /\ row[3] \in job.todo

StageName == Job \cup {"collect", "sweep", "alert", "drift", "score"}

JobFields ==
  [name : Job \cup {None}, stage : 1 .. 5, ended : BOOLEAN, left : SUBSET Project,
   project : Project \cup {None}, todo : SUBSET TableName,
   done : SUBSET (StageName \X (Project \cup {None}) \X TableName)]

JobsTyped ==
  /\ measured \in [Project -> SUBSET TableName]
  /\ alerted \subseteq Project
  /\ job \in JobFields
  /\ job.name # None => job.stage \in 1 .. Len(Stages(job.name))

\* The strengthening: as long as no database was missed, what a job owes is
\* done or not settled yet.
JobsInv ==
  /\ JobsTyped
  /\ job.ended => job.name # None
  /\ job.name # None /\ ~needed =>
       \A s \in StageName, p \in Project, t \in TableName :
         Owes(job.name, s, p, t) => <<s, p, t>> \in job.done \/ Unsettled(<<s, p, t>>)

LEMMA StagesAreSequences ==
  ASSUME NEW j
  PROVE  /\ Len(Stages(j)) \in 1 .. 5
         /\ DOMAIN Stages(j) = 1 .. Len(Stages(j))
         /\ j \in Job => \A k \in 1 .. Len(Stages(j)) : Stages(j)[k] \in StageName
<1>1. CASE j = "collect_all_tables"
  <2>1. Stages(j) = <<"collect", "sweep", "alert", "drift", "score">>
    BY <1>1 DEF Stages
  <2>2. Len(Stages(j)) = 5 /\ DOMAIN Stages(j) = 1 .. Len(Stages(j))
    BY <2>1
  <2>3. \A k \in 1 .. 5 : Stages(j)[k] \in StageName
    BY <2>1 DEF StageName
  <2> QED
    BY <2>2, <2>3
<1>2. CASE j # "collect_all_tables"
  <2>1. Stages(j) = <<j>>
    BY <1>2 DEF Stages
  <2>2. j \in Job => j \in StageName
    BY DEF StageName
  <2> QED
    BY <2>1, <2>2
<1> QED
  BY <1>1, <1>2

LEMMA InitInvJobs == JobsInit => JobsInv
<1> SUFFICES ASSUME JobsInit PROVE JobsInv
  OBVIOUS
<1>1. job \in JobFields /\ ~job.ended /\ job.name = None
  BY DEF JobsInit, NoJob, JobFields
<1> QED
  BY <1>1 DEF JobsInit, JobsInv, JobsTyped

\* A new job has all of it before it.
LEMMA StartKeepsJobs ==
  ASSUME JobsInv, NEW j \in Job, StartJob(j)
  PROVE  JobsInv'
<1>1. Stages(j)[1] \in StageName /\ 1 \in 1 .. Len(Stages(j))
  BY StagesAreSequences
<1>2. Visits(Stages(j)[1]) \subseteq Project
  BY GlobalJobsAssumption DEF Visits, JobsInv, JobsTyped
<1>3. /\ job' \in JobFields
      /\ job'.name = j /\ job'.stage = 1 /\ ~job'.ended /\ job'.left = Visits(Stages(j)[1])
      /\ job'.project = None
  <2> DEFINE v == Visits(Stages(j)[1])
  <2>1. job' = [NoJob EXCEPT !.name = j, !.left = v]
    BY DEF StartJob
  <2>2. v \in SUBSET Project
    BY <1>2
  <2> HIDE DEF v
  <2>3. NoJob \in JobFields /\ NoJob.stage = 1 /\ NoJob.ended = FALSE /\ NoJob.project = None
    BY DEF NoJob, JobFields
  <2>4. /\ job' \in JobFields
        /\ job'.name = j /\ job'.stage = 1 /\ ~job'.ended /\ job'.left = v /\ job'.project = None
    BY <2>1, <2>2, <2>3 DEF JobFields
  <2> QED
    BY <2>4 DEF v
<1>4. ASSUME NEW s \in StageName, NEW p \in Project, NEW t \in TableName, Owes(j, s, p, t)'
      PROVE  Unsettled(<<s, p, t>>)'
  <2>1. PICK k \in 1 .. Len(Stages(j)) : s = Stages(j)[k]
    BY <1>4, StagesAreSequences DEF Owes, ToSet
  <2>2. p \in Visits(s)
    BY <1>4 DEF Owes, StartJob, Visits
  <2>3. CASE k = 1
    BY <2>1, <2>2, <2>3, <1>3 DEF Unsettled, Stage
  <2>4. CASE k # 1
    <3>1. k \in 1 + 1 .. Len(Stages(j))
      BY <2>4, StagesAreSequences
    <3> QED
      BY <3>1, <2>1, <1>3 DEF Unsettled
  <2> QED
    BY <2>3, <2>4
<1>5. JobsTyped'
  BY <1>1, <1>3 DEF StartJob, JobsInv, JobsTyped
<1> QED
  BY <1>3, <1>4, <1>5 DEF JobsInv

\* A stage that is over leaves what the next ones have before them.
LEMMA LeaveKeepsJobs ==
  ASSUME JobsInv, Running, Leave, UNCHANGED <<measured, served, alerted, needed>>,
         \A p \in Project, t \in TableName :
           ~needed /\ Owes(job.name, Stage, p, t) =>
             <<Stage, p, t>> \in job.done \/ ~Unsettled(<<Stage, p, t>>)
             \/ \E k \in job.stage + 1 .. Len(Stages(job.name)) : Stage = Stages(job.name)[k]
  PROVE  JobsInv'
<1> DEFINE n == Len(Stages(job.name))
<1>1. /\ job \in JobFields /\ job.name \in Job /\ job.stage \in 1 .. n /\ n \in 1 .. 5
      /\ ~job.ended
  BY StagesAreSequences DEF JobsInv, JobsTyped, JobFields, Running
<1>2. CASE job.stage = n
  <2>1. /\ job' \in JobFields /\ job'.ended /\ job'.name = job.name
        /\ job'.stage = job.stage /\ job'.done = job.done
    BY <1>1, <1>2 DEF Leave, JobFields
  <2>2. ASSUME NEW s \in StageName, NEW p \in Project, NEW t \in TableName, ~needed,
               Owes(job.name, s, p, t)
        PROVE  <<s, p, t>> \in job.done
    <3>1. <<s, p, t>> \in job.done \/ Unsettled(<<s, p, t>>)
      BY <2>2, <1>1 DEF JobsInv, Running
    <3>2. ASSUME Unsettled(<<s, p, t>>)
          PROVE  s = Stage
      BY <3>2, <1>1, <1>2 DEF Unsettled
    <3> QED
      BY <3>1, <3>2, <2>2, <1>1, <1>2
  <2>3. \A s \in StageName, p \in Project, t \in TableName :
          Owes(job.name, s, p, t)' => Owes(job.name, s, p, t)
    BY <2>1 DEF Owes, Visits
  <2> QED
    BY <2>1, <2>2, <2>3, <1>1 DEF JobsInv, JobsTyped, Running
<1>3. CASE job.stage # n
  <2> DEFINE next == Stages(job.name)[job.stage + 1]
  <2>1. job.stage + 1 \in 1 .. n /\ next \in StageName
    BY <1>1, <1>3, StagesAreSequences
  <2>2. Visits(next) \subseteq Project
    BY GlobalJobsAssumption DEF Visits, JobsInv, JobsTyped
  <2>3. /\ job' \in JobFields /\ ~job'.ended /\ job'.name = job.name
        /\ job'.stage = job.stage + 1 /\ job'.done = job.done /\ job'.left = Visits(next)
    <3> DEFINE v == Visits(next)
    <3>1. job' = [job EXCEPT !.stage = @ + 1, !.left = v]
      BY <1>1, <1>3 DEF Leave
    <3>2. v \in SUBSET Project /\ job.stage + 1 \in 1 .. 5
      BY <1>1, <2>1, <2>2
    <3> HIDE DEF v
    <3>3. /\ job' \in JobFields /\ job'.ended = job.ended /\ job'.name = job.name
          /\ job'.stage = job.stage + 1 /\ job'.done = job.done /\ job'.left = v
      BY <3>1, <3>2, <1>1 DEF JobFields
    <3> QED
      BY <3>3, <1>1 DEF v
  <2>4. ASSUME NEW s \in StageName, NEW p \in Project, NEW t \in TableName, ~needed,
               Owes(job.name, s, p, t)
        PROVE  <<s, p, t>> \in job.done \/ Unsettled(<<s, p, t>>)'
    <3>1. <<s, p, t>> \in job.done \/ Unsettled(<<s, p, t>>)
      BY <2>4, <1>1 DEF JobsInv, Running
    <3>2. ASSUME NEW k \in job.stage + 1 .. n, s = Stages(job.name)[k]
          PROVE  Unsettled(<<s, p, t>>)'
      <4>1. CASE k = job.stage + 1
        <5>1. Stage' = next /\ p \in Visits(next)
          BY <2>3, <2>4, <3>2, <4>1 DEF Stage, Owes
        <5> QED
          BY <5>1, <4>1, <3>2, <2>3 DEF Unsettled
      <4>2. CASE k # job.stage + 1
        <5>1. k \in (job.stage + 1) + 1 .. n
          BY <4>2, <1>1
        <5> QED
          BY <5>1, <3>2, <2>3 DEF Unsettled
      <4> QED
        BY <4>1, <4>2
    <3>3. ASSUME Unsettled(<<s, p, t>>)
          PROVE  s = Stage \/ \E k \in job.stage + 1 .. n : s = Stages(job.name)[k]
      BY <3>3 DEF Unsettled
    <3> QED
      BY <3>1, <3>2, <3>3, <2>4
  <2>5. \A s \in StageName, p \in Project, t \in TableName :
          Owes(job.name, s, p, t)' => Owes(job.name, s, p, t)
    BY <2>3 DEF Owes, Visits
  <2> QED
    BY <2>1, <2>3, <2>4, <2>5, <1>1 DEF JobsInv, JobsTyped, Running
<1> QED
  BY <1>2, <1>3

\* A step within a stage settles rows only by doing them.
LEMMA WithinStageKeepsJobs ==
  ASSUME JobsInv, job.name # None, UNCHANGED <<measured, served, alerted>>, needed' = needed,
         job' \in JobFields, job'.name = job.name, job'.stage = job.stage,
         job'.ended = job.ended, job.done \subseteq job'.done,
         \A p \in Project, t \in TableName :
           /\ Owes(job.name, Stage, p, t)
           /\ p \in job.left \/ (p = job.project /\ t \in job.todo)
           => \/ <<Stage, p, t>> \in job'.done
              \/ p \in job'.left \/ (p = job'.project /\ t \in job'.todo)
  PROVE  JobsInv'
<1>1. JobsTyped'
  BY DEF JobsInv, JobsTyped
<1>2. ASSUME NEW s \in StageName, NEW p \in Project, NEW t \in TableName, ~needed,
             Owes(job.name, s, p, t)
      PROVE  <<s, p, t>> \in job'.done \/ Unsettled(<<s, p, t>>)'
  <2>1. <<s, p, t>> \in job.done \/ Unsettled(<<s, p, t>>)
    BY <1>2 DEF JobsInv
  <2>2. CASE /\ ~job.ended
             /\ \E k \in job.stage + 1 .. Len(Stages(job.name)) : s = Stages(job.name)[k]
    BY <2>2 DEF Unsettled
  <2>3. CASE /\ ~job.ended /\ s = Stage
             /\ p \in job.left \/ (p = job.project /\ t \in job.todo)
    BY <2>3, <1>2 DEF Unsettled, Stage
  <2> QED
    BY <2>1, <2>2, <2>3 DEF Unsettled
<1>3. \A s \in StageName, p \in Project, t \in TableName :
        Owes(job.name, s, p, t)' => Owes(job.name, s, p, t)
  BY DEF Owes, Visits
<1> QED
  BY <1>1, <1>2, <1>3 DEF JobsInv

\* A job that asked in vain has nothing to account for.
LEMMA DieKeepsJobs ==
  ASSUME JobsInv, Running, Die, UNCHANGED <<measured, served, alerted>>
  PROVE  JobsInv'
<1>1. job' \in JobFields /\ job'.name = job.name /\ job'.stage = job.stage
  BY DEF JobsInv, JobsTyped, JobFields, Die
<1> QED
  BY <1>1 DEF JobsInv, JobsTyped, Die, Running

LEMMA NextInvJobs == JobsInv /\ [JobsNext]_jobVars => JobsInv'
<1> SUFFICES ASSUME JobsInv, [JobsNext]_jobVars
             PROVE  JobsInv'
  OBVIOUS
<1>0. job \in JobFields
  BY DEF JobsInv, JobsTyped
<1>1. CASE UpOrDown \/ UNCHANGED jobVars
  <2>1. UNCHANGED <<measured, served, alerted, job, needed>>
    BY <1>1 DEF UpOrDown, jobVars
  <2> QED
    BY <2>1 DEF JobsInv, JobsTyped, Unsettled, Stage, Owes, Visits
<1>2. ASSUME NEW j \in Job, StartJob(j)
      PROVE  JobsInv'
  BY <1>2, StartKeepsJobs
<1>3. CASE GlobalStage
  <2>1. CASE globalUp
    BY <1>3, <2>1, LeaveKeepsJobs DEF GlobalStage, Owes
  <2>2. CASE ~globalUp
    BY <1>3, <2>2, DieKeepsJobs DEF GlobalStage
  <2> QED
    BY <2>1, <2>2
<1>4. CASE NothingToScore
  <2>1. IsGlobal(Stage)
    BY <1>4 DEF NothingToScore, IsGlobal
  <2> QED
    BY <1>4, <2>1, LeaveKeepsJobs DEF NothingToScore, Owes
<1>5. CASE FinishStage
  <2>1. ASSUME NEW p \in Project, NEW t \in TableName, Unsettled(<<Stage, p, t>>)
        PROVE  \E k \in job.stage + 1 .. Len(Stages(job.name)) : Stage = Stages(job.name)[k]
    BY <1>5, <2>1, GlobalJobsAssumption DEF FinishStage, Unsettled
  <2> QED
    BY <1>5, <2>1, LeaveKeepsJobs DEF FinishStage
<1>6. CASE FinishProject
  <2>1. /\ job' \in JobFields /\ job'.name = job.name /\ job'.stage = job.stage
        /\ job'.ended = job.ended /\ job'.done = job.done /\ job'.left = job.left
    BY <1>0, <1>6 DEF FinishProject, JobFields
  <2> QED
    BY <1>6, <2>1, WithinStageKeepsJobs DEF FinishProject, Running
<1>7. ASSUME NEW p \in Project, PassOver(p)
      PROVE  JobsInv'
  <2>1. /\ job' \in JobFields /\ job'.name = job.name /\ job'.stage = job.stage
        /\ job'.ended = job.ended /\ job'.done = job.done /\ job'.left = job.left \ {p}
        /\ job'.project = job.project /\ job'.todo = job.todo
    BY <1>0, <1>7 DEF PassOver, JobFields
  <2>2. \A t \in TableName : ~Owes(job.name, Stage, p, t)
    BY <1>7 DEF PassOver, Owes, Skipped, Own, Misconfigured, Retrains
  <2> QED
    BY <1>7, <2>1, <2>2, WithinStageKeepsJobs DEF PassOver, Visiting, Running
<1>8. ASSUME NEW p \in Project, Enter(p)
      PROVE  JobsInv'
  <2>1. Own(p) \subseteq TableName
    BY DEF Own, JobsInv, JobsTyped
  <2> DEFINE own == Own(p)
  <2>2. own \in SUBSET TableName 
        /\ job' = [job EXCEPT !.left = @ \ {p}, !.project = p, !.todo = own]
    BY <1>8, <2>1 DEF Enter
  <2> HIDE DEF own
  <2>3. /\ job' \in JobFields /\ job'.name = job.name /\ job'.stage = job.stage
        /\ job'.ended = job.ended /\ job'.done = job.done /\ job'.left = job.left \ {p}
        /\ job'.project = p /\ job'.todo = own
    BY <1>0, <2>2 DEF JobFields
  <2>4. \A t \in TableName : Owes(job.name, Stage, p, t) => t \in own
    BY <1>8 DEF Enter, Owes, Own, Misconfigured, Retrains, own
  <2>5. job.project = None /\ None \notin Project
    BY <1>8, GlobalJobsAssumption DEF Enter, Visiting
  <2> QED
    BY <1>8, <2>3, <2>4, <2>5, WithinStageKeepsJobs DEF Enter, Visiting, Running
<1>9. ASSUME NEW p \in Project, EnterUnmeasured(p)
      PROVE  JobsInv'
  <2>1. CASE globalUp
    <3>1. job' = [job EXCEPT !.left = @ \ {p}, !.project = p, !.todo = GlobalTables]
      BY <1>9, <2>1 DEF EnterUnmeasured
    <3>2. /\ job' \in JobFields /\ job'.name = job.name /\ job'.stage = job.stage
          /\ job'.ended = job.ended /\ job'.done = job.done /\ job'.left = job.left \ {p}
      BY <1>0, <3>1, GlobalJobsAssumption DEF JobFields
    <3>3. \A t \in TableName : ~Owes(job.name, Stage, p, t)
      BY <1>9 DEF EnterUnmeasured, Owes
    <3>4. job.project = None /\ None \notin Project
      BY <1>9, GlobalJobsAssumption DEF EnterUnmeasured, Visiting
    <3> QED
      BY <1>9, <2>1, <3>2, <3>3, <3>4, WithinStageKeepsJobs
         DEF EnterUnmeasured, Visiting, Running
  <2>2. CASE ~globalUp
    BY <1>9, <2>2, DieKeepsJobs DEF EnterUnmeasured, Visiting
  <2> QED
    BY <2>1, <2>2
<1>10. ASSUME NEW p \in Project, CandidatesFail(p)
       PROVE  JobsInv'
  BY <1>0, <1>10, WithinStageKeepsJobs DEF CandidatesFail, Survive, Visiting, Running
<1>11. ASSUME NEW t \in TableName, WorkOn(t)
       PROVE  JobsInv'
  <2>1. Stage \in StageName
    BY <1>11, StagesAreSequences DEF JobsInv, JobsTyped, JobFields, WorkOn, Running, Stage
  <2> DEFINE row == <<Stage, job.project, t>>
  <2>2. /\ row \in StageName \X (Project \cup {None}) \X TableName
        /\ job' = [job EXCEPT !.todo = @ \ {t}, !.done = @ \cup {row}]
    BY <1>0, <1>11, <2>1 DEF WorkOn, JobFields
  <2> HIDE DEF row
  <2>3. /\ job' \in JobFields /\ job'.name = job.name /\ job'.stage = job.stage
        /\ job'.ended = job.ended /\ job'.done = job.done \cup {row} /\ job'.left = job.left
        /\ job'.project = job.project /\ job'.todo = job.todo \ {t}
    BY <1>0, <2>2 DEF JobFields
  <2> QED
    BY <1>11, <2>3, WithinStageKeepsJobs DEF WorkOn, Running, row
<1> QED
  BY <1>1, <1>2, <1>3, <1>4, <1>5, <1>6, <1>7, <1>8, <1>9, <1>10, <1>11 DEF JobsNext

\* Once it has ended, nothing is unsettled.
LEMMA SettledWhenEnded == JobsInv => JobsAreSound
<1> SUFFICES ASSUME JobsInv PROVE JobsAreSound
  OBVIOUS
<1>1. JobsTypeOK
  BY DEF JobsInv, JobsTyped, JobFields, JobsTypeOK
<1>2. ASSUME ~needed, job.ended, NEW s \in ToSet(Stages(job.name)), NEW p \in Project,
             NEW t \in TableName, Owes(job.name, s, p, t)
      PROVE  <<s, p, t>> \in job.done
  <2>1. job.name \in Job /\ job.name # None
    BY <1>2 DEF JobsInv, JobsTyped, JobFields
  <2>2. s \in StageName
    BY <2>1, StagesAreSequences DEF ToSet
  <2> QED
    BY <1>2, <2>1, <2>2 DEF JobsInv, Unsettled
<1> QED
  BY <1>1, <1>2 DEF JobsAreSound, ProjectsAreIsolated, AllIsDone

\* The jobs that go through many projects keep them apart: as long as no
\* database they ask is down, a job that has ended has worked on every table
\* of every project it is for (retrain_anomaly_detectors).
THEOREM JobsAreAlwaysSound == JobsSpec => []JobsAreSound
<1>1. JobsSpec => []JobsInv
  BY InitInvJobs, NextInvJobs, PTL DEF JobsSpec
<1> QED
  BY <1>1, SettledWhenEnded, PTL

------------------------------------------------------------------------------
\* The copy of a store to another one.

Index == 1 .. Len(Copied)

Counts == [Index -> [Record -> Nat]]

TransferFields ==
  [pc : {"idle", "truncating", "selecting", "copying", "complete"}, reset : BOOLEAN,
   table : Index, unread : SUBSET Record, batch : SUBSET Record,
   uncommitted : SUBSET Record, batches : Nat, read : Counts]

\* The target has what the run read of a row.
RowSettled(i, r) ==
  LET read == transfer.read[i][r] IN
  IF IsKeyed(Copied[i]) THEN read > 0 => target[i][r] = read
  ELSE target[i][r] >= read /\ (transfer.reset => target[i][r] = read)

\* After --reset, an append row that was not committed is not there.
RowOpen(i, r) == transfer.reset /\ ~IsKeyed(Copied[i]) => target[i][r] = 0

Sent == transfer.batch \cup transfer.uncommitted

\* The table that is being copied: the rows read and not committed are open.
Underway ==
  /\ transfer.unread \cap Sent = {}
  /\ \A r \in Record :
       IF r \in transfer.unread \cup Sent
       THEN transfer.read[transfer.table][r] > 0 /\ RowOpen(transfer.table, r)
       ELSE RowSettled(transfer.table, r)

TransferTyped ==
  /\ source \in Counts /\ target \in Counts
  /\ transfer \in TransferFields
  /\ \A i \in Index, r \in Record :
       ~IsKeyed(Copied[i]) => source[i][r] <= 1 /\ transfer.read[i][r] <= 1

\* The strengthening: the tables behind the run are settled, those before it
\* are open, and the one it is at is partly both.
TransferInv ==
  /\ TransferTyped
  /\ transfer.pc = "complete" => \A i \in Index, r \in Record : RowSettled(i, r)
  /\ transfer.pc = "truncating" => transfer.table = 1
  /\ transfer.pc \in {"truncating", "selecting"} => transfer.unread = {} /\ Sent = {}
  /\ transfer.pc = "copying" => Underway
  /\ transfer.pc \in {"selecting", "copying"} =>
       \A i \in Index, r \in Record :
         /\ i < transfer.table => RowSettled(i, r)
         /\ i > transfer.table => RowOpen(i, r)
         /\ transfer.pc = "selecting" /\ i = transfer.table => RowOpen(i, r)

LEMMA CopiedTables == Len(Copied) \in Nat /\ 1 \in Index
<1>1. /\ KeyedCopied \in Seq(KeyedTables \cup AppendTables)
      /\ AppendCopied \in Seq(KeyedTables \cup AppendTables)
  BY TransferAssumption
<1>2. Copied \in Seq(KeyedTables \cup AppendTables) /\ Copied # <<>>
  BY <1>1, TransferAssumption DEF Copied
<1> QED
  BY <1>2 DEF Index

LEMMA NothingCounts == [i \in Index |-> Nothing] \in Counts
  BY DEF Nothing, Counts

LEMMA NoTransferTyped ==
  /\ NoTransfer \in TransferFields
  /\ \A i \in Index, r \in Record : NoTransfer.read[i][r] = 0
  /\ NoTransfer.pc = "idle" /\ NoTransfer.unread = {} /\ NoTransfer.batch = {}
  /\ NoTransfer.uncommitted = {} /\ NoTransfer.table = 1
<1> DEFINE none == [i \in Index |-> Nothing]
<1>1. /\ NoTransfer = [pc |-> "idle", reset |-> FALSE, table |-> 1, unread |-> {}, batch |-> {},
                       uncommitted |-> {}, batches |-> 0, read |-> none]
      /\ none \in Counts
      /\ \A i \in Index, r \in Record : none[i][r] = 0
  BY NothingCounts DEF NoTransfer, Index, Nothing
<1> HIDE DEF none
<1> QED
  BY <1>1, CopiedTables DEF TransferFields

LEMMA InitInvTransfer == TransferInit => TransferInv
<1> SUFFICES ASSUME TransferInit PROVE TransferInv
  OBVIOUS
<1>1. source \in Counts /\ target \in Counts /\ transfer = NoTransfer
  BY NothingCounts DEF TransferInit, Index
<1>2. \A i \in Index, r \in Record : source[i][r] = 0
  BY DEF TransferInit, Index, Nothing
<1> QED
  BY <1>1, <1>2, NoTransferTyped DEF TransferInv, TransferTyped

\* The application's writes are not the run's business.
LEMMA SourceKeepsTransfer ==
  ASSUME TransferInv, NEW i \in Index, NEW r \in Record,
         WriteSource(i, r) \/ DeleteFromSource(i, r)
  PROVE  TransferInv'
<1>1. source' \in Counts /\ \A j \in Index, q \in Record :
        ~IsKeyed(Copied[j]) => source'[j][q] <= 1
  <2> DEFINE m == IF WriteSource(i, r) THEN source[i][r] + 1 ELSE 0
  <2>1. source' = [source EXCEPT ![i][r] = m]
    BY DEF WriteSource, DeleteFromSource
  <2>2. m \in Nat /\ (~IsKeyed(Copied[i]) => m <= 1)
    BY DEF TransferInv, TransferTyped, Counts, WriteSource, DeleteFromSource
  <2> HIDE DEF m
  <2> QED
    BY <2>1, <2>2 DEF TransferInv, TransferTyped, Counts
<1>2. UNCHANGED <<target, transfer>>
  BY DEF WriteSource, DeleteFromSource
<1> QED
  BY <1>1, <1>2 DEF TransferInv, TransferTyped, Underway, RowSettled, RowOpen, Sent

LEMMA BeginKeepsTransfer ==
  ASSUME TransferInv, NEW reset \in BOOLEAN, Begin(reset)
  PROVE  TransferInv'
<1> DEFINE stage == IF reset THEN "truncating" ELSE "selecting"
<1>1. transfer' = [NoTransfer EXCEPT !.pc = stage, !.reset = reset]
  BY DEF Begin
<1>2. stage \in {"truncating", "selecting"} /\ (stage = "selecting" => ~reset)
  OBVIOUS
<1> HIDE DEF stage
<1>3. /\ transfer' \in TransferFields /\ transfer'.pc = stage /\ transfer'.reset = reset
      /\ transfer'.read = NoTransfer.read /\ transfer'.table = 1
      /\ transfer'.unread = {} /\ transfer'.batch = {} /\ transfer'.uncommitted = {}
  BY <1>1, <1>2, NoTransferTyped DEF TransferFields
<1>4. TransferTyped'
  BY <1>3, NoTransferTyped DEF Begin, TransferInv, TransferTyped
<1> QED
  BY <1>2, <1>3, <1>4 DEF TransferInv, RowOpen, Sent, Index

LEMMA TruncateKeepsTransfer ==
  ASSUME TransferInv, Truncate
  PROVE  TransferInv'
<1>1. target' \in Counts /\ \A i \in Index, r \in Record :
        ~IsKeyed(Copied[i]) => target'[i][r] = 0
  BY DEF TransferInv, TransferTyped, Truncate, Counts, Index, Nothing
<1>2. /\ transfer' \in TransferFields /\ transfer'.pc = "selecting"
      /\ transfer'.read = transfer.read /\ transfer'.table = transfer.table
      /\ transfer'.unread = transfer.unread /\ transfer'.batch = transfer.batch
      /\ transfer'.uncommitted = transfer.uncommitted
  BY DEF TransferInv, TransferTyped, Truncate, TransferFields
<1>3. TransferTyped'
  BY <1>1, <1>2 DEF TransferInv, TransferTyped, Truncate
<1>4. transfer'.table = 1 /\ transfer'.unread = {} /\ Sent' = {}
  BY <1>2 DEF TransferInv, Truncate, InTransfer, Sent
<1> QED
  BY <1>1, <1>2, <1>3, <1>4 DEF TransferInv, RowOpen, Index

LEMMA SelectKeepsTransfer ==
  ASSUME TransferInv, Select
  PROVE  TransferInv'
<1>0. PICK i \in Index : i = transfer.table
  BY DEF TransferInv, TransferTyped, TransferFields
<1> DEFINE some == {r \in Record : source[i][r] > 0}
<1>1. i \in Index /\ transfer \in TransferFields /\ source[i] \in [Record -> Nat]
  BY DEF TransferInv, TransferTyped, TransferFields, Counts
<1>2. transfer' = [transfer EXCEPT !.pc = "copying", !.read[i] = source[i], !.unread = some]
  BY <1>0 DEF Select
<1>3. some \in SUBSET Record /\ source[i] \in [Record -> Nat]
  BY <1>1
<1> HIDE DEF some
<1>4. /\ transfer' \in TransferFields /\ transfer'.pc = "copying"
      /\ transfer'.reset = transfer.reset /\ transfer'.table = transfer.table
      /\ transfer'.unread = some /\ transfer'.batch = transfer.batch
      /\ transfer'.uncommitted = transfer.uncommitted
      /\ transfer'.read = [transfer.read EXCEPT ![i] = source[i]]
  BY <1>1, <1>2, <1>3 DEF TransferFields, Counts
<1>5. /\ transfer'.read[i] = source[i]
      /\ \A j \in Index : j # i => transfer'.read[j] = transfer.read[j]
  BY <1>1, <1>4 DEF TransferFields, Counts
<1>6. TransferTyped'
  BY <1>1, <1>0, <1>4, <1>5 DEF Select, TransferInv, TransferTyped
<1>7. Sent' = {} /\ UNCHANGED target /\ Sent = {}
  BY <1>4 DEF Select, TransferInv, Sent, InTransfer
<1>8. \A r \in Record : RowOpen(i, r)
  BY <1>0, <1>1 DEF Select, TransferInv, InTransfer
<1>9. \A r \in Record : IF r \in some THEN source[i][r] > 0 ELSE source[i][r] = 0
  BY <1>0, <1>1 DEF some
<1>10. Underway'
  <2>1. ASSUME NEW r \in Record
        PROVE  IF r \in some THEN source[i][r] > 0 /\ RowOpen(i, r)'
               ELSE RowSettled(i, r)'
    <3>1. target[i][r] \in Nat
      BY <1>0, <1>1 DEF TransferInv, TransferTyped, Counts
    <3> QED
      BY <3>1, <1>0, <1>4, <1>5, <1>7, <1>8, <1>9 DEF RowOpen, RowSettled
  <2> QED
    BY <2>1, <1>1, <1>0, <1>4, <1>5, <1>7 DEF Underway
<1>11. \A j \in Index, r \in Record :
         /\ j < i => RowSettled(j, r)'
         /\ j > i => RowOpen(j, r)'
  BY <1>1, <1>0, <1>4, <1>5, <1>7 DEF Select, TransferInv, RowSettled, RowOpen, InTransfer, Index
<1> QED
  BY <1>0, <1>4, <1>6, <1>10, <1>11 DEF TransferInv

\* What is committed is settled, and nothing else changes.
LEMMA UpsertedSettles ==
  ASSUME TransferInv, transfer.pc = "copying", NEW i \in Index, i = transfer.table,
         NEW rs \in SUBSET Sent, target' = Upserted(i, rs),
         transfer'.read = transfer.read, transfer'.reset = transfer.reset
  PROVE  /\ target' \in Counts
         /\ \A r \in rs : RowSettled(i, r)'
         /\ \A j \in Index, r \in Record : j # i \/ r \notin rs => target'[j][r] = target[j][r]
<1>1. target \in Counts /\ transfer.read \in Counts /\ rs \subseteq Record
  BY DEF TransferInv, TransferTyped, TransferFields, Sent
<1> DEFINE row == [r \in Record |->
                     IF r \notin rs THEN target[i][r]
                     ELSE IF IsKeyed(Copied[i]) THEN transfer.read[i][r] ELSE target[i][r] + 1]
<1>2. row \in [Record -> Nat]
  BY <1>1 DEF Counts
<1>3. target' = [target EXCEPT ![i] = row]
  BY DEF Upserted
<1>4. \A r \in Record : row[r] = IF r \notin rs THEN target[i][r]
                        ELSE IF IsKeyed(Copied[i]) THEN transfer.read[i][r] ELSE target[i][r] + 1
  OBVIOUS
<1> HIDE DEF row
<1>5. target' \in Counts /\ target'[i] = row /\ \A j \in Index : j # i => target'[j] = target[j]
  BY <1>1, <1>2, <1>3 DEF Counts
<1>6. ASSUME NEW r \in rs
      PROVE  RowSettled(i, r)'
  <2>1. r \in Record /\ transfer.read[i][r] > 0 /\ RowOpen(i, r)
    BY <1>1 DEF TransferInv, Underway
  <2>2. transfer.read[i][r] \in Nat /\ target[i][r] \in Nat
        /\ (~IsKeyed(Copied[i]) => transfer.read[i][r] <= 1)
    BY <1>1, <2>1 DEF Counts, TransferInv, TransferTyped
  <2>3. target'[i][r] = IF IsKeyed(Copied[i]) THEN transfer.read[i][r] ELSE target[i][r] + 1
    BY <1>4, <1>5, <2>1
  <2> QED
    BY <2>1, <2>2, <2>3 DEF RowSettled, RowOpen
<1> QED
  BY <1>4, <1>5, <1>6

LEMMA TakeRowKeepsTransfer ==
  ASSUME TransferInv, NEW q \in Record, TakeRow(q)
  PROVE  TransferInv'
<1>1. /\ transfer' \in TransferFields /\ transfer'.pc = transfer.pc
      /\ transfer'.reset = transfer.reset /\ transfer'.table = transfer.table
      /\ transfer'.read = transfer.read /\ transfer'.unread = transfer.unread \ {q}
      /\ transfer'.batch = transfer.batch \cup {q}
      /\ transfer'.uncommitted = transfer.uncommitted
  BY DEF TransferInv, TransferTyped, TransferFields, TakeRow
<1>2. UNCHANGED <<source, target>> /\ transfer.pc = "copying" /\ q \in transfer.unread
  BY DEF TakeRow, InTransfer
<1>3. /\ transfer'.unread \cap Sent' = {}
      /\ transfer'.unread \cup Sent' = transfer.unread \cup Sent
  BY <1>1, <1>2 DEF TransferInv, Underway, Sent
<1>4. TransferTyped'
  BY <1>1, <1>2 DEF TransferInv, TransferTyped
<1> QED
  BY <1>1, <1>2, <1>3, <1>4 DEF TransferInv, Underway, RowSettled, RowOpen

LEMMA ExecuteKeepsTransfer ==
  ASSUME TransferInv, ExecuteBatch
  PROVE  TransferInv'
<1> DEFINE commits == transfer.batches + 1 = CommitEvery
<1>0. PICK i \in Index : i = transfer.table
  BY DEF TransferInv, TransferTyped, TransferFields
<1>1. transfer \in TransferFields /\ transfer.pc = "copying" /\ UNCHANGED source
  BY DEF TransferInv, TransferTyped, ExecuteBatch, InTransfer
<1>2. CASE commits
  <2>1. transfer' = [transfer EXCEPT !.batch = {}, !.uncommitted = {}, !.batches = 0]
        /\ target' = Upserted(i, Sent)
    <3>1. transfer.uncommitted \cup transfer.batch = Sent
      BY DEF Sent
    <3> QED
      BY <1>0, <1>2, <3>1 DEF ExecuteBatch
  <2>2. /\ transfer' \in TransferFields /\ transfer'.pc = "copying"
        /\ transfer'.reset = transfer.reset /\ transfer'.table = i
        /\ transfer'.read = transfer.read /\ transfer'.unread = transfer.unread
        /\ transfer'.batch = {} /\ transfer'.uncommitted = {}
    BY <1>0, <1>1, <2>1 DEF TransferFields
  <2>3. Sent' = {}
    BY <2>2 DEF Sent
  <2>4. /\ target' \in Counts
        /\ \A r \in Sent : RowSettled(i, r)'
        /\ \A j \in Index, r \in Record : j # i \/ r \notin Sent => target'[j][r] = target[j][r]
    BY <1>0, <1>1, <2>1, <2>2, UpsertedSettles
  <2>5. TransferTyped'
    BY <1>1, <2>2, <2>4 DEF TransferInv, TransferTyped
  <2>6. ASSUME NEW r \in Record
        PROVE  IF r \in transfer'.unread
               THEN transfer'.read[i][r] > 0 /\ RowOpen(i, r)'
               ELSE RowSettled(i, r)'
    <3>1. CASE r \in Sent
      BY <1>1, <2>2, <2>4, <3>1 DEF TransferInv, Underway
    <3>2. CASE r \notin Sent
      BY <1>0, <1>1, <2>2, <2>4, <3>2 DEF TransferInv, Underway, RowSettled, RowOpen
    <3> QED
      BY <3>1, <3>2
  <2>7. Underway'
    BY <2>2, <2>3, <2>6 DEF Underway
  <2>8. \A j \in Index, r \in Record :
          /\ j < i => RowSettled(j, r)'
          /\ j > i => RowOpen(j, r)'
    BY <1>0, <1>1, <2>2, <2>4 DEF TransferInv, RowSettled, RowOpen, Index
  <2> QED
    BY <2>2, <2>5, <2>7, <2>8 DEF TransferInv
<1>3. CASE ~commits
  <2>1. /\ transfer' = [transfer EXCEPT !.batch = {}, !.batches = @ + 1,
                          !.uncommitted = transfer.uncommitted \cup transfer.batch]
        /\ UNCHANGED target
    BY <1>3 DEF ExecuteBatch
  <2>2. /\ transfer' \in TransferFields /\ transfer'.pc = "copying"
        /\ transfer'.reset = transfer.reset /\ transfer'.table = transfer.table
        /\ transfer'.read = transfer.read /\ transfer'.unread = transfer.unread
        /\ transfer'.batch = {}
        /\ transfer'.uncommitted = transfer.uncommitted \cup transfer.batch
    <3> DEFINE sent == transfer.uncommitted \cup transfer.batch
               made == transfer.batches + 1
    <3>1. sent \in SUBSET Record /\ made \in Nat
      BY <1>1 DEF TransferFields
    <3>2. transfer' = [transfer EXCEPT !.batch = {}, !.batches = made, !.uncommitted = sent]
      BY <2>1
    <3> HIDE DEF sent, made
    <3>3. /\ transfer' \in TransferFields /\ transfer'.pc = "copying"
          /\ transfer'.reset = transfer.reset /\ transfer'.table = transfer.table
          /\ transfer'.read = transfer.read /\ transfer'.unread = transfer.unread
          /\ transfer'.batch = {} /\ transfer'.uncommitted = sent
      BY <1>1, <3>1, <3>2 DEF TransferFields
    <3> QED
      BY <3>3 DEF sent
  <2>3. Sent' = Sent
    BY <2>2 DEF Sent
  <2>4. TransferTyped'
    BY <1>1, <2>1, <2>2 DEF TransferInv, TransferTyped
  <2> QED
    BY <1>1, <2>1, <2>2, <2>3, <2>4 DEF TransferInv, Underway, RowSettled, RowOpen
<1> QED
  BY <1>2, <1>3

\* A table whose last rows are committed is settled.
LEMMA FinishKeepsTransfer ==
  ASSUME TransferInv, FinishTable
  PROVE  TransferInv'
<1>0. PICK i \in Index : i = transfer.table
  BY DEF TransferInv, TransferTyped, TransferFields
<1>1. transfer \in TransferFields /\ transfer.pc = "copying" /\ UNCHANGED source
      /\ transfer.unread = {}
  BY DEF TransferInv, TransferTyped, FinishTable, InTransfer
<1> DEFINE next == IF i = Len(Copied) THEN 1 ELSE i + 1
           stage == IF i = Len(Copied) THEN "complete" ELSE "selecting"
<1>2. /\ transfer' = [transfer EXCEPT !.batch = {}, !.uncommitted = {}, !.batches = 0,
                                      !.table = next, !.pc = stage]
      /\ target' = Upserted(i, Sent)
  <2>1. transfer.uncommitted \cup transfer.batch = Sent
    BY DEF Sent
  <2> QED
    BY <1>0, <2>1 DEF FinishTable, NextCopied
<1>3. next \in Index /\ stage \in {"complete", "selecting"}
  BY CopiedTables DEF Index
<1>4. /\ stage = "complete" => i = Len(Copied)
      /\ stage = "selecting" => next = i + 1
  OBVIOUS
<1> HIDE DEF next, stage
<1>5. /\ transfer' \in TransferFields /\ transfer'.pc = stage
      /\ transfer'.reset = transfer.reset /\ transfer'.table = next
      /\ transfer'.read = transfer.read /\ transfer'.unread = {}
      /\ transfer'.batch = {} /\ transfer'.uncommitted = {}
  BY <1>1, <1>2, <1>3 DEF TransferFields
<1>6. /\ target' \in Counts
      /\ \A r \in Sent : RowSettled(i, r)'
      /\ \A j \in Index, r \in Record : j # i \/ r \notin Sent => target'[j][r] = target[j][r]
  BY <1>0, <1>1, <1>2, <1>5, UpsertedSettles
<1>7. TransferTyped'
  BY <1>1, <1>5, <1>6 DEF TransferInv, TransferTyped
<1>8. \A r \in Record : RowSettled(i, r)'
  BY <1>0, <1>1, <1>5, <1>6 DEF TransferInv, Underway, RowSettled
<1>9. \A j \in Index, r \in Record :
        /\ j <= i => RowSettled(j, r)'
        /\ j > i => RowOpen(j, r)'
  BY <1>0, <1>1, <1>5, <1>6, <1>8 DEF TransferInv, RowSettled, RowOpen, Index
<1>10. CASE stage = "complete"
  BY <1>4, <1>5, <1>7, <1>9, <1>10 DEF TransferInv, Index
<1>11. CASE stage = "selecting"
  <2>1. Sent' = {}
    BY <1>5 DEF Sent
  <2>2. \A j \in Index : /\ j < next => j <= i
                         /\ j >= next => j > i
    BY <1>4, <1>11 DEF Index
  <2>3. \A j \in Index, r \in Record :
          /\ j < next => RowSettled(j, r)'
          /\ j > next => RowOpen(j, r)'
          /\ j = next => RowOpen(j, r)'
    BY <1>3, <1>9, <2>2 DEF Index
  <2> QED
    BY <1>5, <1>7, <1>11, <2>1, <2>3 DEF TransferInv
<1> QED
  BY <1>3, <1>10, <1>11

LEMMA NextInvTransfer == TransferInv /\ [TransferNext]_transferVars => TransferInv'
<1> SUFFICES ASSUME TransferInv, [TransferNext]_transferVars
             PROVE  TransferInv'
  OBVIOUS
<1>1. CASE UNCHANGED transferVars
  BY <1>1 DEF transferVars, TransferInv, TransferTyped, Underway, RowSettled, RowOpen, Sent
<1>2. CASE FailTransfer
  <2>1. transfer' = NoTransfer /\ UNCHANGED <<source, target>>
    BY <1>2 DEF FailTransfer
  <2> QED
    BY <2>1, NoTransferTyped DEF TransferInv, TransferTyped
<1>3. ASSUME NEW i \in 1 .. Len(Copied), NEW r \in Record,
             WriteSource(i, r) \/ DeleteFromSource(i, r)
      PROVE  TransferInv'
  BY <1>3, SourceKeepsTransfer DEF Index
<1> QED
  BY <1>1, <1>2, <1>3, BeginKeepsTransfer, TruncateKeepsTransfer, SelectKeepsTransfer,
     ExecuteKeepsTransfer, FinishKeepsTransfer, TakeRowKeepsTransfer DEF TransferNext

\* A copy that completes is complete, whatever rows, tables, batch sizes and
\* interrupted runs came before (migrate, _insert_batched).
THEOREM TransfersAreAlwaysComplete == TransferSpec => []TransferIsComplete
<1>1. TransferSpec => []TransferInv
  BY InitInvTransfer, NextInvTransfer, PTL DEF TransferSpec
<1>2. TransferInv => TransferIsComplete
  BY DEF TransferInv, TransferIsComplete, RowSettled, InTransfer, Index
<1> QED
  BY <1>1, <1>2, PTL

------------------------------------------------------------------------------
\* A store that comes up.  The plan: what the rest needs to know of it

PlanStep ==
  [do : {"add", "drop", "rebuild", "backfill", "create"}, table : StoreTable,
   columns : SUBSET UNION {Added[t] : t \in StoreTable}]

\* What each kind of step is about.
Sensible(s) ==
  /\ s.table \in StoreTable
  /\ s.do \in {"add", "drop", "rebuild", "backfill", "create"}
  /\ s.do = "add" => s.columns \subseteq Added[s.table]
  /\ s.do = "drop" => s.table \in Cache
  /\ s.do = "rebuild" => s.table \in Rekeyable

Migrating == {s \in PlanStep : Sensible(s) /\ s.do # "create"}

LEMMA StoreTables ==
  StoreTable = {"metrics", "changepoints", "schema_snapshots", "schema_events",
    "anomaly_scores", "drift_reports", "llm_explanations", "telegram_throttle",
    "notifications", "users", "projects", "project_members", "connections",
    "collector_runs", "collector_run_tables", "failed_login_attempts",
    "password_reset_tokens", "project_invites", "project_notifications",
    "source_schema_snapshots"}
<1>1. Len(Creation) = 20 /\ DOMAIN Creation = 1 .. 20
  BY DEF Creation
<1>2. /\ Creation[1] = "metrics" /\ Creation[2] = "changepoints"
      /\ Creation[3] = "schema_snapshots" /\ Creation[4] = "schema_events"
      /\ Creation[5] = "anomaly_scores" /\ Creation[6] = "drift_reports"
      /\ Creation[7] = "llm_explanations" /\ Creation[8] = "telegram_throttle"
      /\ Creation[9] = "notifications" /\ Creation[10] = "users"
      /\ Creation[11] = "projects" /\ Creation[12] = "project_members"
      /\ Creation[13] = "connections" /\ Creation[14] = "collector_runs"
      /\ Creation[15] = "collector_run_tables" /\ Creation[16] = "failed_login_attempts"
      /\ Creation[17] = "password_reset_tokens" /\ Creation[18] = "project_invites"
      /\ Creation[19] = "project_notifications" /\ Creation[20] = "source_schema_snapshots"
  BY DEF Creation
<1>3. \A i \in 1 .. 20 :
        \/ i = 1 \/ i = 2 \/ i = 3 \/ i = 4 \/ i = 5 \/ i = 6 \/ i = 7 \/ i = 8 \/ i = 9
        \/ i = 10 \/ i = 11 \/ i = 12 \/ i = 13 \/ i = 14 \/ i = 15 \/ i = 16 \/ i = 17
        \/ i = 18 \/ i = 19 \/ i = 20
  OBVIOUS
<1> QED
  BY <1>1, <1>2, <1>3 DEF StoreTable, ToSet

\* Every table that belongs to projects has the column for it.
LEMMA TenantedTables ==
  /\ \A t \in Tenanted : t \in StoreTable /\ "project_id" \in Added[t]
  /\ Rekeyable \subseteq Tenanted /\ Cache \subseteq Tenanted
  /\ {"projects", "project_members"} \subseteq StoreTable
  /\ {"projects", "project_members"} \cap (Tenanted \cup Cache) = {}
<1>1. /\ Tenanted \subseteq StoreTable /\ Rekeyable \subseteq Tenanted /\ Cache \subseteq Tenanted
      /\ {"projects", "project_members"} \subseteq StoreTable
      /\ {"projects", "project_members"} \cap (Tenanted \cup Cache) = {}
  BY StoreTables DEF Tenanted, Rekeyable, Cache
<1>2. \A t \in Tenanted : "project_id" \in Added[t]
  <2> SUFFICES ASSUME NEW t \in Tenanted PROVE "project_id" \in Added[t]
    OBVIOUS
  <2>1. CASE t = "metrics"
    BY <2>1, <1>1 DEF Added, AddedTo
  <2>2. CASE t = "anomaly_scores"
    BY <2>2, <1>1 DEF Added, AddedTo
  <2>3. CASE t = "llm_explanations"
    BY <2>3, <1>1 DEF Added, AddedTo
  <2>4. CASE t \notin {"metrics", "anomaly_scores", "llm_explanations"}
    <3>1. t \notin {"users", "connections"}
      BY DEF Tenanted, Rekeyable
    <3> QED
      BY <2>4, <3>1, <1>1 DEF Added, AddedTo
  <2> QED
    BY <2>1, <2>2, <2>3, <2>4
<1> QED
  BY <1>1, <1>2

LEMMA AddedColumns ==
  /\ Added["metrics"] = {"project_id"} \cup SourceKey
  /\ Added["anomaly_scores"] = {"project_id", "is_demo"} \cup SourceKey \cup ModelKey
  /\ Added["llm_explanations"] = {"project_id"} \cup SourceKey
  /\ Added["users"] = {"is_admin"}
  /\ Added["connections"] = ToSet(ConnectionColumns) \cup Probe
  /\ "project_id" \in Added["schema_events"] /\ "project_id" \in Added["notifications"]
<1>0. "users" \notin Tenanted /\ "connections" \notin Tenanted
  BY DEF Tenanted, Rekeyable
<1>1. {"metrics", "anomaly_scores", "llm_explanations", "users", "connections"} \subseteq StoreTable
  BY StoreTables
<1>2. Added["metrics"] = {"project_id"} \cup SourceKey
  BY <1>1 DEF Added, AddedTo
<1>3. Added["anomaly_scores"] = {"project_id", "is_demo"} \cup SourceKey \cup ModelKey
  BY <1>1 DEF Added, AddedTo
<1>4. Added["llm_explanations"] = {"project_id"} \cup SourceKey
  BY <1>1 DEF Added, AddedTo
<1>5. Added["users"] = {"is_admin"}
  BY <1>1, <1>0 DEF Added, AddedTo
<1>6. Added["connections"] = ToSet(ConnectionColumns) \cup Probe
  BY <1>1, <1>0 DEF Added, AddedTo
<1>7. "project_id" \in Added["schema_events"] /\ "project_id" \in Added["notifications"]
  BY TenantedTables DEF Tenanted
<1> QED
  BY <1>2, <1>3, <1>4, <1>5, <1>6, <1>7

Joined(a, c, ac) ==
  /\ Len(ac) = Len(a) + Len(c) /\ Len(a) \in Nat /\ Len(c) \in Nat
  /\ \A i \in 1 .. Len(a) : i \in 1 .. Len(ac) /\ ac[i] = a[i]
  /\ \A i \in 1 .. Len(c) : Len(a) + i \in 1 .. Len(ac) /\ ac[Len(a) + i] = c[i]
  /\ \A i \in 1 .. Len(ac) : i \in 1 .. Len(a) \/ \E k \in 1 .. Len(c) : i = Len(a) + k

LEMMA ConcatElements ==
  ASSUME NEW S, NEW a \in Seq(S), NEW c \in Seq(S)
  PROVE  a \o c \in Seq(S) /\ Joined(a, c, a \o c)
<1> DEFINE ac == a \o c
<1>1. /\ ac \in Seq(S) /\ Len(ac) = Len(a) + Len(c) /\ Len(a) \in Nat /\ Len(c) \in Nat
      /\ \A i \in 1 .. Len(a) : ac[i] = a[i]
      /\ \A i \in 1 .. Len(c) : ac[Len(a) + i] = c[i]
  OBVIOUS
<1> HIDE DEF ac
<1>2. ASSUME NEW i \in 1 .. Len(ac), i \notin 1 .. Len(a)
      PROVE  \E k \in 1 .. Len(c) : i = Len(a) + k
  <2>1. i - Len(a) \in 1 .. Len(c) /\ i = Len(a) + (i - Len(a))
    BY <1>1, <1>2
  <2> QED
    BY <2>1
<1>3. ac \in Seq(S) /\ Joined(a, c, ac)
  BY <1>1, <1>2 DEF Joined
<1> QED
  BY <1>3 DEF ac

LEMMA Steps ==
  ASSUME NEW t \in StoreTable
  PROVE  /\ \A cs : cs \subseteq Added[t] => Add(t, cs) \in Migrating
         /\ t \in Cache => Do("drop", t) \in Migrating
         /\ t \in Rekeyable => Do("rebuild", t) \in Migrating
         /\ Do("backfill", t) \in Migrating
         /\ Do("create", t) \in PlanStep /\ Sensible(Do("create", t))
  BY DEF Add, Do, Migrating, PlanStep, Sensible

LEMMA ColumnNames == ConnectionColumns \in Seq(ToSet(ConnectionColumns))
<1> DEFINE s1 == {"table_allowlist", "table_denylist", "max_tables_per_tick",
                  "skip_tables_larger_than_gb", "statement_timeout_ms"}
           s2 == {"iceberg_namespace", "iceberg_warehouse", "iceberg_auth_token_encrypted"}
           s3 == {"iceberg_namespace_allowlist", "metadata_only_mode"}
           s == s1 \cup s2 \cup {"collection_mode"} \cup s3
<1>1. LoadSafety \in Seq(s1)
  BY DEF LoadSafety
<1>2. Iceberg \in Seq(s2)
  BY DEF Iceberg
<1>3. IcebergSafety \in Seq(s3)
  BY DEF IcebergSafety
<1>4. <<"collection_mode">> \in Seq({"collection_mode"})
  OBVIOUS
<1> HIDE DEF s1, s2, s3
<1>5. LoadSafety \in Seq(s) /\ Iceberg \in Seq(s) /\ IcebergSafety \in Seq(s)
      /\ <<"collection_mode">> \in Seq(s)
  BY <1>1, <1>2, <1>3, <1>4
<1> HIDE DEF s
<1>6. LoadSafety \o Iceberg \in Seq(s)
  BY <1>5
<1>7. LoadSafety \o Iceberg \o <<"collection_mode">> \in Seq(s)
  BY <1>5, <1>6
<1>8. ConnectionColumns \in Seq(s)
  BY <1>5, <1>7 DEF ConnectionColumns
<1> QED
  BY <1>8 DEF ToSet

\* That some step of ss adds column c to table t.
Adds(ss, t, c) ==
  \E i \in 1 .. Len(ss) : ss[i].do = "add" /\ ss[i].table = t /\ c \in ss[i].columns

LEMMA JoinedAdds ==
  ASSUME NEW a, NEW c, NEW ac, Joined(a, c, ac), NEW t, NEW x,
         Adds(a, t, x) \/ Adds(c, t, x)
  PROVE  Adds(ac, t, x)
BY DEF Joined, Adds

\* Every step before the CREATEs makes sense, among them a rebuild of each
\* table that changes its key, the owners' membership, and a step for every
\* column of users and of connections.
LEMMA MigrationSteps ==
  /\ Migrations \in Seq(Migrating)
  /\ \A t \in Rekeyable : \E i \in 1 .. Len(Migrations) : Migrations[i] = Do("rebuild", t)
  /\ \E i \in 1 .. Len(Migrations) : Migrations[i] = Do("backfill", "project_members")
  /\ \A t \in {"users", "connections"} : \A c \in Added[t] : Adds(Migrations, t, c)
<1> DEFINE first == <<Add("metrics", {"project_id"}), Add("schema_events", {"project_id"}),
                      Add("notifications", {"project_id"}), Do("drop", "schema_snapshots"),
                      Add("users", {"is_admin"}), Do("drop", "telegram_throttle")>>
           each == AddEach("connections", ConnectionColumns)
           probe == <<Add("connections", Probe)>>
           last == <<Do("backfill", "project_members")>>
<1>1. first \in Seq(Migrating)
  <2>1. /\ Add("metrics", {"project_id"}) \in Migrating
        /\ Add("schema_events", {"project_id"}) \in Migrating
        /\ Add("notifications", {"project_id"}) \in Migrating
        /\ Add("users", {"is_admin"}) \in Migrating
    BY Steps, StoreTables, AddedColumns
  <2>2. /\ Do("drop", "schema_snapshots") \in Migrating
        /\ Do("drop", "telegram_throttle") \in Migrating
    BY Steps, StoreTables DEF Cache
  <2> QED
    BY <2>1, <2>2
<1>2. each \in Seq(Migrating)
  <2>1. \A i \in 1 .. Len(ConnectionColumns) : {ConnectionColumns[i]} \subseteq Added["connections"]
    BY ColumnNames, AddedColumns DEF ToSet
  <2>2. \A i \in 1 .. Len(ConnectionColumns) :
          Add("connections", {ConnectionColumns[i]}) \in Migrating
    BY <2>1, Steps, StoreTables
  <2>3. Len(ConnectionColumns) \in Nat
    BY ColumnNames
  <2> QED
    BY <2>2, <2>3 DEF AddEach
<1>3. probe \in Seq(Migrating)
  BY Steps, StoreTables, AddedColumns
<1>4. InferenceColumns \in Seq(Migrating)
  <2>1. /\ Add("metrics", SourceKey) \in Migrating
        /\ Add("anomaly_scores", Added["anomaly_scores"]) \in Migrating
        /\ Add("llm_explanations", Added["llm_explanations"]) \in Migrating
    BY Steps, StoreTables, AddedColumns
  <2> QED
    BY <2>1 DEF InferenceColumns
<1>5. /\ Rebuilds \in Seq(Migrating) /\ Len(Rebuilds) = 4
      /\ \A t \in Rekeyable : \E i \in 1 .. Len(Rebuilds) : Rebuilds[i] = Do("rebuild", t)
  <2>1. \A t \in Rekeyable : Do("rebuild", t) \in Migrating
    BY Steps, TenantedTables
  <2>2. Rebuilds \in Seq(Migrating) /\ Len(Rebuilds) = 4
    BY <2>1 DEF Rebuilds, Rekeyable
  <2>3. /\ Rebuilds[1] = Do("rebuild", "anomaly_scores")
        /\ Rebuilds[2] = Do("rebuild", "changepoints")
        /\ Rebuilds[3] = Do("rebuild", "drift_reports")
        /\ Rebuilds[4] = Do("rebuild", "llm_explanations")
    BY DEF Rebuilds
  <2> QED
    BY <2>2, <2>3 DEF Rekeyable
<1>a1. Adds(first, "users", "is_admin")
  <2>1. Len(first) = 6 /\ first[5] = Add("users", {"is_admin"})
    OBVIOUS
  <2> QED
    BY <2>1 DEF Adds, Add
<1>a2. ASSUME NEW c \in ToSet(ConnectionColumns) PROVE Adds(each, "connections", c)
  <2>1. PICK i \in 1 .. Len(ConnectionColumns) : ConnectionColumns[i] = c
    BY ColumnNames DEF ToSet
  <2>2. each = [j \in 1 .. Len(ConnectionColumns) |->
                  Add("connections", {ConnectionColumns[j]})]
    BY DEF AddEach
  <2>3. Len(ConnectionColumns) \in Nat
    BY ColumnNames
  <2> HIDE DEF each
  <2>4. DOMAIN each = 1 .. Len(ConnectionColumns) /\ each[i] = Add("connections", {c})
    BY <2>1, <2>2
  <2>5. Len(each) = Len(ConnectionColumns)
    BY <1>2, <2>3, <2>4
  <2> QED
    BY <2>4, <2>5 DEF Adds, Add
<1>a3. ASSUME NEW c \in Probe PROVE Adds(probe, "connections", c)
  <2>1. Len(probe) = 1 /\ probe[1] = Add("connections", Probe)
    OBVIOUS
  <2> QED
    BY <2>1 DEF Adds, Add
<1>6. last \in Seq(Migrating) /\ Len(last) = 1 /\ last[1] = Do("backfill", "project_members")
  BY Steps, TenantedTables
<1> HIDE DEF first, each, probe, last
<1> DEFINE c == first \o each \o probe
           d == InferenceColumns \o Rebuilds
           e == c \o d
<1>7. Migrations = e \o last
  BY DEF Migrations, ToProjectKeys, first, each, probe, last
<1>8. /\ c \in Seq(Migrating)
      /\ \A t \in {"users", "connections"} : \A x \in Added[t] : Adds(c, t, x)
  <2> DEFINE fe == first \o each
  <2>1. fe \in Seq(Migrating) /\ Joined(first, each, fe)
    BY <1>1, <1>2, ConcatElements
  <2>2. /\ Adds(fe, "users", "is_admin")
        /\ \A x \in ToSet(ConnectionColumns) : Adds(fe, "connections", x)
    BY <1>a1, <1>a2, <2>1, JoinedAdds
  <2>3. c = fe \o probe
    OBVIOUS
  <2> HIDE DEF fe, c
  <2>4. c \in Seq(Migrating) /\ Joined(fe, probe, c)
    BY <1>3, <2>1, <2>3, ConcatElements
  <2>5. /\ Adds(c, "users", "is_admin")
        /\ \A x \in ToSet(ConnectionColumns) \cup Probe : Adds(c, "connections", x)
    BY <1>a3, <2>2, <2>4, JoinedAdds
  <2> QED
    BY <2>4, <2>5, AddedColumns
<1>9. d \in Seq(Migrating) /\ Joined(InferenceColumns, Rebuilds, d)
  BY <1>4, <1>5, ConcatElements
<1> HIDE DEF c, d
<1>10. e \in Seq(Migrating) /\ Joined(c, d, e)
  BY <1>8, <1>9, ConcatElements
<1> HIDE DEF e
<1>11. Migrations \in Seq(Migrating) /\ Joined(e, last, Migrations)
  BY <1>6, <1>7, <1>10, ConcatElements
<1>12. ASSUME NEW t \in Rekeyable
       PROVE  \E i \in 1 .. Len(Migrations) : Migrations[i] = Do("rebuild", t)
  <2>1. PICK i \in 1 .. Len(Rebuilds) : Rebuilds[i] = Do("rebuild", t)
    BY <1>5
  <2>2. PICK j \in 1 .. Len(d) : d[j] = Do("rebuild", t)
    BY <1>9, <2>1 DEF Joined
  <2>3. PICK k \in 1 .. Len(e) : e[k] = Do("rebuild", t)
    BY <1>10, <2>2 DEF Joined
  <2> QED
    BY <1>11, <2>3 DEF Joined
<1>13. \E i \in 1 .. Len(Migrations) : Migrations[i] = Do("backfill", "project_members")
  BY <1>6, <1>11 DEF Joined
<1>14. \A t \in {"users", "connections"} : \A x \in Added[t] : Adds(Migrations, t, x)
  BY <1>8, <1>10, <1>11, JoinedAdds
<1> QED
  BY <1>11, <1>12, <1>13, <1>14

\* The plan ends with the CREATE of every table.
LEMMA PlanFacts ==
  /\ Len(Plan) \in Nat \ {0}
  /\ \A i \in 1 .. Len(Plan) : Sensible(Plan[i]) /\ Plan[i] \in PlanStep
  /\ \A i, j \in 1 .. Len(Plan) : i < j /\ Plan[i].do = "create" => Plan[j].do = "create"
  /\ \A t \in StoreTable : \E i \in 1 .. Len(Plan) : Plan[i] = Do("create", t)
  /\ \A t \in Rekeyable : \E i \in 1 .. Len(Plan) : Plan[i] = Do("rebuild", t)
  /\ \E i \in 1 .. Len(Plan) : Plan[i] = Do("backfill", "project_members")
  /\ \A t \in {"users", "connections"} : \A c \in Added[t] : Adds(Plan, t, c)
<1> DEFINE creates == [i \in 1 .. Len(Creation) |-> Do("create", Creation[i])]
<1>1. /\ Len(Creation) = 20 /\ \A i \in 1 .. 20 : Creation[i] \in StoreTable
      /\ \A t \in StoreTable : \E i \in 1 .. 20 : Creation[i] = t
  <2>1. Len(Creation) = 20 /\ DOMAIN Creation = 1 .. 20
    BY DEF Creation
  <2> QED
    BY <2>1 DEF StoreTable, ToSet
<1>2. /\ creates \in Seq(PlanStep) /\ Len(creates) = 20
      /\ \A i \in 1 .. 20 : creates[i] = Do("create", Creation[i]) /\ Sensible(creates[i])
  BY <1>1, Steps
<1>3. Migrations \in Seq(PlanStep) /\ Len(Migrations) \in Nat \ {0}
  BY MigrationSteps DEF Migrating
<1>4. \A i \in 1 .. Len(Migrations) :
        Migrations[i] \in PlanStep /\ Sensible(Migrations[i]) /\ Migrations[i].do # "create"
  BY MigrationSteps DEF Migrating
<1>5. Plan = Migrations \o creates
  BY DEF Plan
<1> HIDE DEF creates
<1>6. Plan \in Seq(PlanStep) /\ Joined(Migrations, creates, Plan)
  BY <1>2, <1>3, <1>5, ConcatElements
<1>7. /\ Len(Plan) = Len(Migrations) + 20
      /\ \A i \in 1 .. Len(Migrations) : i \in 1 .. Len(Plan) /\ Plan[i] = Migrations[i]
      /\ \A i \in 1 .. 20 : Len(Migrations) + i \in 1 .. Len(Plan)
                            /\ Plan[Len(Migrations) + i] = creates[i]
      /\ \A i \in 1 .. Len(Plan) : \/ i \in 1 .. Len(Migrations)
                                   \/ \E k \in 1 .. 20 : i = Len(Migrations) + k
  BY <1>2, <1>6 DEF Joined
<1>8. ASSUME NEW i \in 1 .. Len(Plan)
      PROVE  /\ Sensible(Plan[i]) /\ Plan[i] \in PlanStep
             /\ Plan[i].do = "create" <=> i > Len(Migrations)
  <2>1. CASE i \in 1 .. Len(Migrations)
    <3>0. Plan[i] = Migrations[i]
      BY <1>7, <2>1
    <3>1. ~(i > Len(Migrations))
      BY <1>3, <2>1
    <3>2. Migrations[i] \in PlanStep /\ Sensible(Migrations[i]) /\ Migrations[i].do # "create"
      BY <1>4, <2>1
    <3> QED
      BY <3>0, <3>1, <3>2
  <2>2. ASSUME NEW k \in 1 .. 20, i = Len(Migrations) + k
        PROVE  /\ Sensible(Plan[i]) /\ Plan[i] \in PlanStep
               /\ Plan[i].do = "create" /\ i > Len(Migrations)
    <3>1. Plan[i] = creates[k]
      BY <1>7, <2>2
    <3>2. creates[k] = Do("create", Creation[k]) /\ Creation[k] \in StoreTable
      BY <1>1, <1>2
    <3>3. i > Len(Migrations)
      BY <1>3, <2>2
    <3>4. Do("create", Creation[k]).do = "create"
      BY DEF Do
    <3> QED
      BY <3>1, <3>2, <3>3, <3>4, Steps
  <2> QED
    BY <1>7, <2>1, <2>2
<1>9. ASSUME NEW t \in StoreTable
      PROVE  \E i \in 1 .. Len(Plan) : Plan[i] = Do("create", t)
  <2>1. PICK k \in 1 .. 20 : Creation[k] = t
    BY <1>1
  <2>2. Len(Migrations) + k \in 1 .. Len(Plan) /\ Plan[Len(Migrations) + k] = creates[k]
    BY <1>7
  <2> QED
    BY <2>1, <2>2, <1>2
<1>10. \A t \in Rekeyable : \E i \in 1 .. Len(Plan) : Plan[i] = Do("rebuild", t)
  BY <1>7, MigrationSteps
<1>11. \E i \in 1 .. Len(Plan) : Plan[i] = Do("backfill", "project_members")
  BY <1>7, MigrationSteps
<1>12. Len(Plan) \in Nat \ {0}
  BY <1>3, <1>7
<1>13. \A i, j \in 1 .. Len(Plan) : i < j /\ Plan[i].do = "create" => Plan[j].do = "create"
  BY <1>3, <1>8, <1>12
<1>14. \A t \in {"users", "connections"} : \A c \in Added[t] : Adds(Plan, t, c)
  BY <1>6, MigrationSteps, JoinedAdds
<1> QED
  BY <1>8, <1>9, <1>10, <1>11, <1>12, <1>13, <1>14

------------------------------------------------------------------------------
\* The inductive invariant

ColumnName == UNION {Added[t] : t \in StoreTable}

BootState ==
  [BootThread ->
     [pc : {"idle", "engine lock", "advisory lock", "inspecting", "applying", "done"},
      step : 1 .. Len(Plan), seen : SUBSET ColumnName, members : BOOLEAN]]

Inside(b) == boot[b].pc \in {"inspecting", "applying", "done"}

BootTyped ==
  /\ dialect \in {"postgres", "sqlite"}
  /\ tables \subseteq StoreTable
  /\ columns \in [StoreTable -> SUBSET ColumnName]
  /\ rows \in [StoreTable -> SUBSET {"unowned", "legacy", "P"}]
  /\ rekeyed \subseteq Rekeyable
  /\ boot \in BootState
  /\ engineLock \in [Process -> BootThread \cup {None}]
  /\ initialized \subseteq Process

\* Two locks, and one process on SQLite: one thread is at the plan at a time.
Exclusion ==
  \A b \in BootThread :
    /\ ~AtBoot(b, "idle") => Runs(ProcessOf[b])
    /\ AtBoot(b, "advisory lock") \/ Inside(b) => engineLock[ProcessOf[b]] = b
    /\ Inside(b) /\ dialect = "postgres" => advisoryLock = b

\* No table has a column of another one.  Rows without an owner are those of a
\* table without the column, and the rows of this release are in tables that
\* have it.
Ownership ==
  /\ \A t \in StoreTable : columns[t] \subseteq Added[t]
  /\ \A t \in StoreTable \ tables : rows[t] = {}
  /\ \A t \in Tenanted : "unowned" \in rows[t] => "project_id" \notin columns[t]
  /\ \A t \in Tenanted : "P" \in rows[t] => "project_id" \in columns[t]
  /\ \A t \in StoreTable \ Tenanted : "unowned" \notin rows[t]

Complete == tables = StoreTable /\ rekeyed = Rekeyable /\ columns = Added

\* What a step of the plan has brought about.
Behind(i, members) ==
  LET s == Plan[i] IN
  /\ s.do = "add" /\ s.table \in tables => s.columns \subseteq columns[s.table]
  /\ s.do = "rebuild" /\ s.table \in tables => s.table \in rekeyed
  /\ s.do = "create" =>
       /\ s.table \in tables /\ columns[s.table] = Added[s.table]
       /\ s.table \in Rekeyable => s.table \in rekeyed
  /\ s.do = "backfill" /\ members => rows["projects"] \subseteq rows["project_members"]

\* Where a thread at the plan stands.
Standing(b) ==
  /\ boot[b].members => "project_members" \in tables
  /\ \A i \in 1 .. Len(Plan) :
       i < boot[b].step \/ AtBoot(b, "done") => Behind(i, boot[b].members)
  /\ AtBoot(b, "applying") => boot[b].seen = columns[Step(b).table] /\ ~Settled(Step(b))

BootInv ==
  /\ BootTyped /\ Exclusion /\ Ownership
  /\ initialized # {} => Complete
  /\ \A b \in BootThread : Inside(b) => Standing(b)

LEMMA Alone ==
  ASSUME BootInv, NEW b \in BootThread, Inside(b), NEW c \in BootThread, Inside(c)
  PROVE  b = c
<1>1. CASE dialect = "postgres"
  BY <1>1 DEF BootInv, Exclusion
<1>2. CASE dialect # "postgres"
  <2>1. ~AtBoot(b, "idle") /\ ~AtBoot(c, "idle")
    BY DEF Inside, AtBoot
  <2>2. ProcessOf[b] = ProcessOf[c]
    BY <1>2, <2>1 DEF BootInv, Exclusion, Runs
  <2> QED
    BY <2>2 DEF BootInv, Exclusion
<1> QED
  BY <1>1, <1>2

LEMMA NoBootTyped ==
  /\ NoBoot \in [pc : {"idle", "engine lock", "advisory lock", "inspecting", "applying", "done"},
                 step : 1 .. Len(Plan), seen : SUBSET ColumnName, members : BOOLEAN]
  /\ NoBoot.pc = "idle" /\ NoBoot.step = 1
  BY PlanFacts DEF NoBoot

LEMMA InitInvBoot == BootInit => BootInv
<1> SUFFICES ASSUME BootInit PROVE BootInv
  OBVIOUS
<1>1. PICK r \in DOMAIN OldTables :
       /\ tables = OldTables[r]
       /\ columns = [t \in StoreTable |-> OldColumns(r, t) \cap Added[t]]
       /\ rows = [t \in StoreTable |-> IF t \notin OldTables[r] THEN {}
                                  ELSE IF OldColumns(r, t) = {} /\ t \in Tenanted
                                  THEN {"unowned"} ELSE {"legacy"}]
       /\ rekeyed = IF r = "single owner" THEN {"changepoints", "drift_reports"} ELSE {}
  BY DEF BootInit
<1>2. r \in {"empty", "first", "untenanted", "single owner"}
  BY DEF OldTables
<1>3. OldTables[r] \subseteq StoreTable
  <2>1. CASE r = "empty"
    BY <2>1 DEF OldTables
  <2>2. CASE r = "first"
    BY <2>2, StoreTables DEF OldTables
  <2>3. CASE r = "untenanted"
    BY <2>3, StoreTables DEF OldTables
  <2>4. CASE r = "single owner"
    BY <2>4 DEF OldTables
  <2> QED
    BY <1>2, <2>1, <2>2, <2>3, <2>4
<1>4. columns \in [StoreTable -> SUBSET ColumnName]
  BY <1>1 DEF ColumnName
<1>5. rows \in [StoreTable -> SUBSET {"unowned", "legacy", "P"}]
  BY <1>1
<1>6. rekeyed \subseteq Rekeyable
  BY <1>1 DEF Rekeyable
<1>7. BootTyped
  BY <1>1, <1>3, <1>4, <1>5, <1>6, NoBootTyped DEF BootInit, BootTyped, BootState
<1>8. Exclusion /\ \A b \in BootThread : ~Inside(b)
  BY NoBootTyped DEF BootInit, Exclusion, Inside, AtBoot
<1>9. Ownership
  BY <1>1, TenantedTables DEF Ownership
<1> QED
  BY <1>7, <1>8, <1>9 DEF BootInv, BootInit

------------------------------------------------------------------------------
\* The steps

\* Another thread than the one at the plan does not disturb it.
LEMMA OthersKeepBoot ==
  ASSUME BootInv, UNCHANGED <<dialect, tables, columns, rows, rekeyed>>, BootTyped', Exclusion',
         initialized' \subseteq initialized,
         \A b \in BootThread : Inside(b)' =>
           \/ Inside(b) /\ boot'[b] = boot[b]
           \/ /\ boot'[b].pc = "inspecting" /\ boot'[b].step = 1
              /\ boot'[b].members => "project_members" \in tables
  PROVE  BootInv'
<1>1. Ownership' /\ (initialized' # {} => Complete')
  BY DEF BootInv, Ownership, Complete, database
<1>2. ASSUME NEW b \in BootThread, Inside(b)'
      PROVE  Standing(b)'
  <2>1. CASE Inside(b) /\ boot'[b] = boot[b]
    <3>1. Standing(b)
      BY <2>1 DEF BootInv
    <3>2. ASSUME NEW m PROVE \A i \in 1 .. Len(Plan) : Behind(i, m) => Behind(i, m)'
      BY DEF Behind, database
    <3>3. \A i \in 1 .. Len(Plan) : i < boot'[b].step \/ boot'[b].pc = "done" =>
            Behind(i, boot[b].members)
      BY <2>1, <3>1 DEF Standing, AtBoot
    <3>4. \A i \in 1 .. Len(Plan) : Behind(i, boot[b].members) => Behind(i, boot[b].members)'
      BY <2>1, <3>2 DEF Behind, database
    <3>5. boot'[b].pc = "applying" =>
            boot'[b].seen = columns'[Step(b)'.table] /\ ~Settled(Step(b))'
      BY <2>1, <3>1 DEF Standing, AtBoot, Step, Settled, database
    <3> QED
      BY <2>1, <3>1, <3>3, <3>4, <3>5 DEF Standing, AtBoot, database
  <2>2. CASE /\ boot'[b].pc = "inspecting" /\ boot'[b].step = 1
             /\ boot'[b].members => "project_members" \in tables
    BY <2>2, PlanFacts DEF Standing, AtBoot, database
  <2> QED
    BY <1>2, <2>1, <2>2
<1> QED
  BY <1>1, <1>2 DEF BootInv

\* When every step is behind a thread, the schema is complete.
LEMMA AllBehindIsComplete ==
  ASSUME BootTyped', NEW members, \A i \in 1 .. Len(Plan) : Behind(i, members)'
  PROVE  Complete'
<1>1. ASSUME NEW t \in StoreTable
      PROVE  t \in tables' /\ columns'[t] = Added[t] /\ (t \in Rekeyable => t \in rekeyed')
  <2>1. PICK i \in 1 .. Len(Plan) : Plan[i] = Do("create", t)
    BY PlanFacts
  <2>2. Plan[i].do = "create" /\ Plan[i].table = t
    BY <2>1 DEF Do
  <2> QED
    BY <2>2 DEF Behind
<1>2. tables' = StoreTable /\ rekeyed' = Rekeyable
  BY <1>1, TenantedTables DEF BootTyped
<1>3. columns' = Added
  <2>1. Added = [t \in StoreTable |-> Added[t]] /\ columns' = [t \in StoreTable |-> columns'[t]]
    BY DEF Added, BootTyped
  <2> QED
    BY <1>1, <2>1
<1> QED
  BY <1>2, <1>3 DEF Complete

\* A thread whose step is done goes on to the next one, or is done.
LEMMA AdvanceKeepsBoot ==
  ASSUME BootInv, NEW b \in BootThread, boot[b].pc \in {"inspecting", "applying"}, Advance(b),
         UNCHANGED <<dialect, engineLock, advisoryLock>>,
         tables' \subseteq StoreTable, columns' \in [StoreTable -> SUBSET ColumnName],
         rows' \in [StoreTable -> SUBSET {"unowned", "legacy", "P"}], rekeyed' \subseteq Rekeyable,
         Ownership', Complete => Complete', NEW m \in BOOLEAN, m = boot[b].members,
         m => "project_members" \in tables',
         \A i \in 1 .. Len(Plan) : i <= boot[b].step => Behind(i, m)'
  PROVE  BootInv'
<1> DEFINE last == boot[b].step = Len(Plan)
<1>0. Len(Plan) \in Nat \ {0} /\ boot[b].step \in 1 .. Len(Plan)
  BY PlanFacts DEF BootInv, BootTyped, BootState
<1>1. /\ boot[b].step \in 1 .. Len(Plan)
      /\ boot \in BootState
  BY PlanFacts DEF BootInv, BootTyped, BootState
<1>2. initialized' \subseteq Process
  <2>1. initialized \subseteq Process /\ ProcessOf[b] \in Process
    BY BootAssumption DEF BootInv, BootTyped, BootState
  <2> QED
    BY <2>1 DEF Advance
<1>3. /\ BootTyped'
      /\ \A c \in BootThread : c # b => boot'[c] = boot[c]
      /\ boot'[b].members = m
      /\ last => boot'[b].pc = "done" /\ boot'[b].step = boot[b].step
      /\ ~last => boot'[b].pc = "inspecting" /\ boot'[b].step = boot[b].step + 1
  <2>2. CASE last
    <3>1. boot' = [boot EXCEPT ![b].pc = "done"]
      BY <2>2 DEF Advance
    <3> QED
      BY <1>1, <1>2, <2>2, <3>1 DEF BootInv, BootTyped, BootState
  <2>3. CASE ~last
    <3>1. boot' = [boot EXCEPT ![b].pc = "inspecting", ![b].step = @ + 1, ![b].seen = {}]
      BY <2>3 DEF Advance
    <3>2. boot[b].step + 1 \in 1 .. Len(Plan)
      BY <1>0, <2>3
    <3> QED
      BY <1>1, <1>2, <2>3, <3>1, <3>2 DEF BootInv, BootTyped, BootState
  <2> QED
    BY <2>2, <2>3
<1>4. /\ \A c \in BootThread : (Inside(c)' <=> Inside(c)) /\ (c # b => ~Inside(c))
      /\ boot[b].pc # "idle" /\ boot'[b].pc \notin {"idle", "advisory lock", "applying"}
  <2>1. Inside(b) /\ Inside(b)' /\ boot'[b].pc \in {"done", "inspecting"}
    BY <1>3 DEF Inside
  <2>2. \A c \in BootThread : c # b => ~Inside(c)
    BY <2>1, Alone
  <2> QED
    BY <1>3, <2>1, <2>2 DEF Inside
<1>5. Exclusion'
  <2>1. \A c \in BootThread : Runs(ProcessOf[c])' <=> Runs(ProcessOf[c])
    BY DEF Runs
  <2> QED
    BY <1>3, <1>4, <2>1 DEF BootInv, Exclusion, AtBoot
<1>6. \A i \in 1 .. Len(Plan) : i < boot'[b].step \/ boot'[b].pc = "done" => Behind(i, m)'
  <2>1. CASE last
    BY <1>0, <1>3, <2>1
  <2>2. CASE ~last
    <3>1. boot'[b].step = boot[b].step + 1 /\ boot'[b].pc # "done"
      BY <1>3, <2>2
    <3>2. \A i \in 1 .. Len(Plan) : i < boot'[b].step => i <= boot[b].step
      BY <1>0, <3>1
    <3> QED
      BY <3>1, <3>2
  <2> QED
    BY <2>1, <2>2
<1>7. Standing(b)'
  BY <1>3, <1>4, <1>6 DEF Standing, AtBoot
<1>8. initialized' # {} => Complete'
  <2>1. CASE last
    <3>1. \A i \in 1 .. Len(Plan) : Behind(i, m)'
      BY <1>3, <1>6, <2>1
    <3> QED
      BY <1>3, <3>1, AllBehindIsComplete
  <2>2. CASE ~last
    BY <2>2 DEF Advance, BootInv
  <2> QED
    BY <2>1, <2>2
<1> QED
  BY <1>3, <1>4, <1>5, <1>7, <1>8 DEF BootInv

\* A step of the plan that has more to do.
LEMMA StayKeepsBoot ==
  ASSUME BootInv, NEW b \in BootThread, boot[b].pc \in {"inspecting", "applying"},
         NEW seen \in SUBSET ColumnName,
         boot' \in BootState, \A c \in BootThread : c # b => boot'[c] = boot[c],
         boot'[b].pc = "applying", boot'[b].seen = seen, boot'[b].step = boot[b].step,
         boot'[b].members = boot[b].members,
         UNCHANGED <<dialect, engineLock, advisoryLock, initialized>>,
         tables' \subseteq StoreTable, columns' \in [StoreTable -> SUBSET ColumnName],
         rows' \in [StoreTable -> SUBSET {"unowned", "legacy", "P"}], rekeyed' \subseteq Rekeyable,
         Ownership', Complete => Complete', NEW m \in BOOLEAN, m = boot[b].members,
         m => "project_members" \in tables',
         \A i \in 1 .. Len(Plan) : i < boot[b].step => Behind(i, m)',
         seen = columns'[Step(b).table], ~Settled(Step(b))'
  PROVE  BootInv'
<1>1. /\ BootTyped'
      /\ \A c \in BootThread : c # b => boot'[c] = boot[c]
      /\ boot'[b].members = m /\ boot'[b].pc = "applying" /\ boot'[b].step = boot[b].step
      /\ boot'[b].seen = seen
  BY DEF BootInv, BootTyped, BootState
<1>2. \A c \in BootThread : (Inside(c)' <=> Inside(c)) /\ (c # b => ~Inside(c))
  <2>1. Inside(b) /\ Inside(b)'
    BY <1>1 DEF Inside
  <2>2. \A c \in BootThread : c # b => ~Inside(c)
    BY <2>1, Alone
  <2> QED
    BY <1>1, <2>1, <2>2 DEF Inside
<1>3. Exclusion'
  <2>1. \A c \in BootThread : Runs(ProcessOf[c])' <=> Runs(ProcessOf[c])
    BY DEF Runs
  <2> QED
    BY <1>1, <1>2, <2>1 DEF BootInv, Exclusion, AtBoot
<1>4. Step(b)' = Step(b)
  BY <1>1 DEF Step
<1>5. Standing(b)'
  BY <1>1, <1>4 DEF Standing, AtBoot
<1> QED
  BY <1>1, <1>2, <1>3, <1>5 DEF BootInv

\* What a thread at a step knows.
LEMMA AtStep ==
  ASSUME BootInv, NEW b \in BootThread, boot[b].pc \in {"inspecting", "applying"}
  PROVE  /\ boot[b].step \in 1 .. Len(Plan) /\ Step(b) = Plan[boot[b].step]
         /\ Sensible(Step(b)) /\ Step(b) \in PlanStep /\ Step(b).table \in StoreTable
         /\ boot[b].members \in BOOLEAN
         /\ boot[b].members => "project_members" \in tables
         /\ \A i \in 1 .. Len(Plan) : i < boot[b].step => Behind(i, boot[b].members)
         /\ boot[b].pc = "applying" =>
              boot[b].seen = columns[Step(b).table] /\ ~Settled(Step(b))
<1>1. boot[b].step \in 1 .. Len(Plan) /\ boot[b].members \in BOOLEAN
  BY DEF BootInv, BootTyped, BootState
<1>2. Inside(b) /\ Standing(b)
  BY DEF BootInv, Inside
<1> QED
  BY <1>1, <1>2, PlanFacts DEF Standing, Step, AtBoot, Sensible

LEMMA InspectKeepsBoot ==
  ASSUME BootInv, NEW b \in BootThread, InspectStep(b)
  PROVE  BootInv'
<1>1. boot[b].pc = "inspecting" /\ UNCHANGED <<database, engineLock, advisoryLock>>
  BY DEF InspectStep, AtBoot
<1>2. PICK m \in BOOLEAN : m = boot[b].members
  BY <1>1, AtStep
<1>3. /\ boot[b].step \in 1 .. Len(Plan) /\ Step(b) = Plan[boot[b].step]
      /\ Sensible(Step(b)) /\ Step(b).table \in StoreTable
      /\ m => "project_members" \in tables
      /\ \A i \in 1 .. Len(Plan) : i < boot[b].step => Behind(i, m)
  BY <1>1, <1>2, AtStep
<1>4. \A i \in 1 .. Len(Plan) : Behind(i, m) => Behind(i, m)'
  BY <1>1 DEF Behind, database
<1>5. /\ tables' \subseteq StoreTable /\ columns' \in [StoreTable -> SUBSET ColumnName]
      /\ rows' \in [StoreTable -> SUBSET {"unowned", "legacy", "P"}] /\ rekeyed' \subseteq Rekeyable
      /\ Ownership' /\ (Complete => Complete') /\ UNCHANGED dialect
      /\ m => "project_members" \in tables'
  BY <1>1, <1>3 DEF BootInv, BootTyped, Ownership, Complete, database
<1>6. CASE Settled(Step(b))
  <2>1. Behind(boot[b].step, m)
    <3>1. Step(b).do # "create"
      BY <1>6 DEF Settled
    <3>2. Step(b).do = "rebuild" /\ Step(b).table \in tables => Step(b).table \in rekeyed
      BY <1>6 DEF Settled
    <3>3. Step(b).do = "backfill" /\ m => rows["projects"] = {}
      BY <1>3, <1>6, TenantedTables DEF Settled, BootInv, Ownership
    <3>4. Step(b).do = "add" /\ Step(b).table \in tables
            => Step(b).columns \subseteq columns[Step(b).table]
      BY <1>6 DEF Settled
    <3> QED
      BY <1>3, <3>1, <3>2, <3>3, <3>4 DEF Behind
  <2>2. \A i \in 1 .. Len(Plan) : i <= boot[b].step => Behind(i, m)'
    BY <1>3, <1>4, <2>1
  <2>3. Advance(b)
    BY <1>6 DEF InspectStep
  <2> QED
    BY <1>1, <1>2, <1>5, <2>2, <2>3, AdvanceKeepsBoot
<1>7. CASE ~Settled(Step(b))
  <2>1. PICK seen \in SUBSET ColumnName : seen = columns[Step(b).table]
    BY <1>3 DEF BootInv, BootTyped, BootState
  <2>0. boot' = [boot EXCEPT ![b].pc = "applying", ![b].seen = seen] /\ UNCHANGED initialized
    BY <1>7, <2>1 DEF InspectStep
  <2>2. /\ boot' \in BootState /\ UNCHANGED initialized
        /\ \A c \in BootThread : c # b => boot'[c] = boot[c]
        /\ boot'[b].pc = "applying" /\ boot'[b].seen = seen /\ boot'[b].step = boot[b].step
        /\ boot'[b].members = boot[b].members
    BY <2>0 DEF BootInv, BootTyped, BootState
  <2>3. \A i \in 1 .. Len(Plan) : i < boot[b].step => Behind(i, m)'
    BY <1>3, <1>4
  <2>4. Step(b)' = Step(b)
    BY <2>2 DEF Step, BootInv, BootTyped, BootState
  <2>5. seen = columns'[Step(b).table] /\ ~Settled(Step(b))'
    BY <1>1, <1>7, <2>1, <2>4 DEF Settled, database
  <2> QED
    BY <1>1, <1>2, <1>5, <2>2, <2>3, <2>5, StayKeepsBoot
<1> QED
  BY <1>6, <1>7

\* What Owned does to the owners of a table.
LEMMA OwnedRows ==
  ASSUME NEW rs \in SUBSET {"unowned", "legacy", "P"}
  PROVE  /\ Owned(rs) \subseteq {"unowned", "legacy", "P"} /\ "unowned" \notin Owned(rs)
         /\ "P" \in Owned(rs) <=> "P" \in rs
         /\ "legacy" \in Owned(rs) <=> rs \cap {"unowned", "legacy"} # {}
         /\ "unowned" \notin rs => Owned(rs) = rs
         /\ rs = {} => Owned(rs) = {}
  BY DEF Owned

LEMMA AddKeepsBoot ==
  ASSUME BootInv, NEW b \in BootThread, ApplyStep(b), Step(b).do = "add"
  PROVE  BootInv'
<1>1. boot[b].pc = "applying" /\ UNCHANGED <<dialect, engineLock, advisoryLock>>
      /\ AddColumns(b, Step(b).table, Step(b).columns)
  BY DEF ApplyStep, AtBoot, Apply
<1>2. PICK m \in BOOLEAN, k \in 1 .. Len(Plan), s \in PlanStep :
        m = boot[b].members /\ k = boot[b].step /\ s = Step(b)
  BY <1>1, AtStep
<1>3. /\ s = Plan[k] /\ Sensible(s) /\ s.do = "add" /\ s.table \in StoreTable
      /\ m => "project_members" \in tables
      /\ \A i \in 1 .. Len(Plan) : i < k => Behind(i, m)
      /\ boot[b].seen = columns[s.table] /\ ~Settled(s)
  BY <1>1, <1>2, AtStep
<1> DEFINE t == s.table
           cs == s.columns
<1>4. t \in tables /\ ~(cs \subseteq columns[t]) /\ cs \subseteq Added[t] /\ cs \subseteq ColumnName
  BY <1>3 DEF Settled, Sensible, ColumnName
<1>5. PICK new \in SUBSET (cs \ boot[b].seen) :
        /\ new # {}
        /\ columns' = [columns EXCEPT ![t] = @ \cup new]
        /\ rows' = [rows EXCEPT ![t] = IF "project_id" \in new THEN Owned(@) ELSE @]
        /\ IF cs \ (boot[b].seen \cup new) = {}
             THEN Advance(b)
             ELSE boot' = [boot EXCEPT ![b].seen = @ \cup new] /\ UNCHANGED initialized
  BY <1>1, <1>2 DEF AddColumns
<1>6. UNCHANGED <<tables, rekeyed, aside>>
  BY <1>1 DEF AddColumns
<1>7. /\ columns \in [StoreTable -> SUBSET ColumnName] /\ tables \subseteq StoreTable
      /\ rows \in [StoreTable -> SUBSET {"unowned", "legacy", "P"}] /\ rekeyed \subseteq Rekeyable
      /\ boot \in BootState
      /\ Ownership
  BY DEF BootInv, BootTyped, BootState
<1>8. /\ columns' \in [StoreTable -> SUBSET ColumnName] /\ columns'[t] = columns[t] \cup new
      /\ \A u \in StoreTable : u # t => columns'[u] = columns[u]
  BY <1>3, <1>4, <1>5, <1>7
<1>9. /\ rows' \in [StoreTable -> SUBSET {"unowned", "legacy", "P"}]
      /\ rows'[t] = IF "project_id" \in new THEN Owned(rows[t]) ELSE rows[t]
      /\ \A u \in StoreTable : u # t => rows'[u] = rows[u]
  <2> DEFINE after == IF "project_id" \in new THEN Owned(rows[t]) ELSE rows[t]
  <2>1. after \in SUBSET {"unowned", "legacy", "P"}
    BY <1>3, <1>7, OwnedRows
  <2>2. rows' = [rows EXCEPT ![t] = after]
    BY <1>5
  <2> HIDE DEF after
  <2>3. /\ rows' \in [StoreTable -> SUBSET {"unowned", "legacy", "P"}] /\ rows'[t] = after
        /\ \A u \in StoreTable : u # t => rows'[u] = rows[u]
    BY <1>3, <1>7, <2>1, <2>2
  <2> QED
    BY <2>3 DEF after
<1>10. Ownership'
  <2>1. rows[t] \in SUBSET {"unowned", "legacy", "P"}
    BY <1>3, <1>7
  <2>2. /\ t \in Tenanted => /\ "unowned" \in rows'[t] => "project_id" \notin columns'[t]
                             /\ "P" \in rows'[t] => "project_id" \in columns'[t]
        /\ t \notin Tenanted => "unowned" \notin rows'[t]
    <3>1. CASE "project_id" \in new
      BY <1>3, <1>7, <1>8, <1>9, <2>1, <3>1, OwnedRows DEF Ownership
    <3>2. CASE "project_id" \notin new
      <4>1. rows'[t] = rows[t] /\ ("project_id" \in columns'[t] <=> "project_id" \in columns[t])
        BY <1>8, <1>9, <3>2
      <4> QED
        BY <1>3, <1>7, <4>1 DEF Ownership
    <3> QED
      BY <3>1, <3>2
  <2>3. \A u \in StoreTable : columns'[u] \subseteq Added[u]
    BY <1>4, <1>5, <1>7, <1>8 DEF Ownership
  <2> QED
    BY <1>4, <1>6, <1>7, <1>8, <1>9, <2>2, <2>3, TenantedTables DEF Ownership
<1>11. ~Complete
  BY <1>4 DEF Complete
<1>12. UNCHANGED <<rows["projects"], rows["project_members"]>>
  <2>1. \A u \in {"projects", "project_members"} :
          rows[u] \in SUBSET {"unowned", "legacy", "P"} /\ "unowned" \notin rows[u]
    BY <1>7, TenantedTables DEF Ownership
  <2>2. \A u \in {"projects", "project_members"} : Owned(rows[u]) = rows[u]
    BY <2>1, OwnedRows
  <2>3. \A u \in {"projects", "project_members"} : rows'[u] = rows[u]
    BY <1>9, <2>2, TenantedTables
  <2> QED
    BY <2>3
<1>13. \A i \in 1 .. Len(Plan) : Plan[i].do = "create" => ~(i < k)
  BY <1>3, PlanFacts
<1>14. \A i \in 1 .. Len(Plan) : i < k => Behind(i, m)'
  <2> SUFFICES ASSUME NEW i \in 1 .. Len(Plan), i < k PROVE Behind(i, m)'
    OBVIOUS
  <2>1. Plan[i].do # "create" /\ Behind(i, m) /\ Plan[i].table \in StoreTable
    BY <1>3, <1>13, PlanFacts DEF Sensible
  <2>2. columns[Plan[i].table] \subseteq columns'[Plan[i].table]
    BY <1>8, <2>1
  <2> QED
    BY <1>6, <1>12, <2>1, <2>2 DEF Behind
<1>15. CASE cs \ (boot[b].seen \cup new) = {}
  <2>0. cs \subseteq columns'[t]
    BY <1>3, <1>8, <1>15
  <2>1. Behind(k, m)'
    BY <1>3, <2>0 DEF Behind
  <2>2. \A i \in 1 .. Len(Plan) : i <= boot[b].step => Behind(i, m)'
    BY <1>2, <1>14, <2>1
  <2>3. Advance(b) /\ (m => "project_members" \in tables')
    BY <1>3, <1>5, <1>6, <1>15
  <2> QED
    BY <1>1, <1>2, <1>3, <1>6, <1>7, <1>8, <1>9, <1>10, <1>11, <2>2, <2>3, AdvanceKeepsBoot
<1>16. CASE cs \ (boot[b].seen \cup new) # {}
  <2>1. PICK seen \in SUBSET ColumnName : seen = boot[b].seen \cup new
    BY <1>4, <1>7 DEF BootState
  <2>0. boot' = [boot EXCEPT ![b].seen = seen] /\ UNCHANGED initialized
    <3>1. boot' = [boot EXCEPT ![b].seen = @ \cup new] /\ UNCHANGED initialized
      BY <1>5, <1>16
    <3> QED
      BY <1>7, <2>1, <3>1 DEF BootState
  <2>2. /\ boot' \in BootState /\ UNCHANGED initialized
        /\ \A c \in BootThread : c # b => boot'[c] = boot[c]
        /\ boot'[b].pc = "applying" /\ boot'[b].seen = seen /\ boot'[b].step = boot[b].step
        /\ boot'[b].members = boot[b].members
    BY <1>1, <1>7, <2>0 DEF BootState
  <2>3. seen = columns'[s.table]
    BY <1>3, <1>8, <2>1
  <2>4. Step(b)' = s
    BY <1>2, <2>2 DEF Step
  <2>5. ~Settled(Step(b))'
    <3>1. ~(cs \subseteq columns'[t]) /\ t \in tables'
      BY <1>4, <1>6, <1>16, <2>1, <2>3
    <3> QED
      BY <1>3, <2>4, <3>1 DEF Settled
  <2>6. /\ tables' \subseteq StoreTable /\ rekeyed' \subseteq Rekeyable
        /\ m => "project_members" \in tables'
        /\ Complete => Complete'
    BY <1>3, <1>6, <1>7, <1>11
  <2>7. \A i \in 1 .. Len(Plan) : i < boot[b].step => Behind(i, m)'
    BY <1>2, <1>14
  <2>8. m = boot[b].members /\ seen = columns'[Step(b).table]
    BY <1>2, <2>3
  <2> QED
    BY <1>1, <1>8, <1>9, <1>10, <2>2, <2>5, <2>6, <2>7, <2>8, StayKeepsBoot
<1> QED
  BY <1>15, <1>16

\* A step that is done: what was behind the thread stays there when no table
\* loses its key or a column and the members are left alone, or completed.
LEMMA DoneKeepsBoot ==
  ASSUME BootInv, NEW b \in BootThread, boot[b].pc = "applying", Step(b).do # "create",
         Advance(b), UNCHANGED <<dialect, engineLock, advisoryLock>>,
         tables' \subseteq tables, tables \subseteq tables' \cup Cache,
         columns' \in [StoreTable -> SUBSET ColumnName],
         rows' \in [StoreTable -> SUBSET {"unowned", "legacy", "P"}],
         rekeyed \subseteq rekeyed', rekeyed' \subseteq Rekeyable,
         Ownership', Complete => Complete',
         \/ UNCHANGED <<rows["projects"], rows["project_members"]>>
            /\ Step(b).do # "backfill"
         \/ rows'["projects"] \subseteq rows'["project_members"],
         Step(b).do = "rebuild" => Step(b).table \in rekeyed',
         Step(b).do # "add", \A u \in tables' : columns[u] \subseteq columns'[u]
  PROVE  BootInv'
<1>1. PICK m \in BOOLEAN, k \in 1 .. Len(Plan), s \in PlanStep :
        m = boot[b].members /\ k = boot[b].step /\ s = Step(b)
  BY AtStep
<1>2. /\ s = Plan[k] /\ s.do # "create" /\ s.do # "add"
      /\ m => "project_members" \in tables
      /\ \A i \in 1 .. Len(Plan) : i < k => Behind(i, m)
  BY <1>1, AtStep
<1>3. \A i \in 1 .. Len(Plan) : Plan[i].do = "create" => ~(i < k)
  BY <1>2, PlanFacts
<1>4. Behind(k, m)'
  BY <1>1, <1>2 DEF Behind
<1>5. \A i \in 1 .. Len(Plan) : i < k => Behind(i, m)'
  <2> SUFFICES ASSUME NEW i \in 1 .. Len(Plan), i < k PROVE Behind(i, m)'
    OBVIOUS
  <2>1. Plan[i].do # "create" /\ Behind(i, m)
    BY <1>2, <1>3
  <2> QED
    BY <2>1 DEF Behind
<1>6. \A i \in 1 .. Len(Plan) : i <= boot[b].step => Behind(i, m)'
  BY <1>1, <1>4, <1>5
<1>7. m => "project_members" \in tables'
  BY <1>2, TenantedTables
<1>8. tables' \subseteq StoreTable
  BY DEF BootInv, BootTyped
<1> QED
  BY <1>1, <1>6, <1>7, <1>8, AdvanceKeepsBoot

LEMMA DropKeepsBoot ==
  ASSUME BootInv, NEW b \in BootThread, ApplyStep(b), Step(b).do = "drop"
  PROVE  BootInv'
<1>1. boot[b].pc = "applying" /\ UNCHANGED <<dialect, engineLock, advisoryLock>>
      /\ DropTable(b, Step(b).table)
  BY DEF ApplyStep, AtBoot, Apply
<1>2. PICK t \in Cache : t = Step(b).table
  BY <1>1, AtStep DEF Sensible
<1>3. t \in Tenanted /\ t \in StoreTable /\ t \notin {"projects", "project_members"}
      /\ "project_id" \in Added[t]
  BY TenantedTables
<1>4. "project_id" \notin columns[t]
  BY <1>1, <1>2, AtStep DEF Settled
<1>5. /\ columns \in [StoreTable -> SUBSET ColumnName] /\ tables \subseteq StoreTable
      /\ rows \in [StoreTable -> SUBSET {"unowned", "legacy", "P"}] /\ rekeyed \subseteq Rekeyable
      /\ Ownership
  BY DEF BootInv, BootTyped
<1>6. /\ tables' = tables \ {t} /\ UNCHANGED rekeyed /\ Advance(b)
      /\ columns' = [columns EXCEPT ![t] = {}] /\ rows' = [rows EXCEPT ![t] = {}]
  BY <1>1, <1>2 DEF DropTable
<1>7. /\ columns' \in [StoreTable -> SUBSET ColumnName]
      /\ rows' \in [StoreTable -> SUBSET {"unowned", "legacy", "P"}]
      /\ rows'[t] = {}
      /\ \A u \in StoreTable : u # t => rows'[u] = rows[u] /\ columns'[u] = columns[u]
  BY <1>3, <1>5, <1>6
<1>8. Ownership'
  <2>1. \A u \in StoreTable : columns'[u] \subseteq Added[u]
    BY <1>3, <1>5, <1>6, <1>7 DEF Ownership
  <2> QED
    BY <1>3, <1>5, <1>6, <1>7, <2>1, TenantedTables DEF Ownership
<1>9. ~Complete
  BY <1>3, <1>4 DEF Complete
<1>10. UNCHANGED <<rows["projects"], rows["project_members"]>>
  BY <1>3, <1>7, TenantedTables
<1>11. \A u \in tables' : columns[u] \subseteq columns'[u]
  BY <1>5, <1>6, <1>7
<1> QED
  BY <1>1, <1>2, <1>5, <1>6, <1>7, <1>8, <1>9, <1>10, <1>11, DoneKeepsBoot

LEMMA BackfillKeepsBoot ==
  ASSUME BootInv, NEW b \in BootThread, ApplyStep(b), Step(b).do = "backfill"
  PROVE  BootInv'
<1>1. boot[b].pc = "applying" /\ UNCHANGED <<dialect, engineLock, advisoryLock>> /\ Backfill(b)
  BY DEF ApplyStep, AtBoot, Apply
<1>2. /\ columns \in [StoreTable -> SUBSET ColumnName] /\ tables \subseteq StoreTable
      /\ rows \in [StoreTable -> SUBSET {"unowned", "legacy", "P"}] /\ rekeyed \subseteq Rekeyable
      /\ Ownership
  BY DEF BootInv, BootTyped
<1>3. {"projects", "project_members"} \subseteq tables
  BY <1>1, AtStep DEF Settled
<1>4. UNCHANGED <<tables, columns, rekeyed>> /\ Advance(b)
  BY <1>1 DEF Backfill
<1>5. /\ rows' \in [StoreTable -> SUBSET {"unowned", "legacy", "P"}]
      /\ rows'["projects"] = rows["projects"]
      /\ rows'["project_members"] = rows["project_members"] \cup rows["projects"]
      /\ \A u \in StoreTable : u # "project_members" => rows'[u] = rows[u]
  BY <1>1, <1>2, TenantedTables DEF Backfill
<1>6. Ownership'
  BY <1>2, <1>3, <1>4, <1>5, TenantedTables DEF Ownership
<1>7. Complete => Complete'
  BY <1>4 DEF Complete
<1> QED
  BY <1>1, <1>2, <1>4, <1>5, <1>6, <1>7, DoneKeepsBoot

\* A rebuild of either dialect leaves the table with the columns it needs.
LEMMA RebuildKeepsBoot ==
  ASSUME BootInv, NEW b \in BootThread, ApplyStep(b), Step(b).do = "rebuild"
  PROVE  BootInv'
<1>1. boot[b].pc = "applying" /\ UNCHANGED <<dialect, engineLock, advisoryLock>>
      /\ Rebuild(b, Step(b).table)
  BY DEF ApplyStep, AtBoot, Apply
<1>2. PICK t \in Rekeyable : t = Step(b).table
  BY <1>1, AtStep DEF Sensible
<1>3. t \in Tenanted /\ t \in StoreTable /\ t \notin {"projects", "project_members"}
      /\ "project_id" \in Added[t] /\ Added[t] \subseteq ColumnName
  BY TenantedTables DEF ColumnName
<1>4. /\ columns \in [StoreTable -> SUBSET ColumnName] /\ tables \subseteq StoreTable
      /\ rows \in [StoreTable -> SUBSET {"unowned", "legacy", "P"}] /\ rekeyed \subseteq Rekeyable
      /\ Ownership /\ boot \in BootState
  BY DEF BootInv, BootTyped
<1>5. boot[b].seen = columns[t] /\ ~Settled(Step(b)) /\ t \in tables
  BY <1>1, <1>2, AtStep DEF Settled
<1>6. ~Complete
  BY <1>1, <1>2, <1>3, AtStep DEF Complete, Settled
<1>7. CASE SetAside(t)
  <2>1. UNCHANGED <<tables, columns, rows, rekeyed, boot, initialized>>
    BY <1>7 DEF SetAside
  <2> QED
    <3>1. BootTyped' /\ Exclusion'
      BY <1>1, <2>1 DEF BootInv, BootTyped, BootState, Exclusion, Inside, AtBoot, Runs
    <3> QED
      BY <1>1, <2>1, <3>1, OthersKeepBoot DEF Inside
<1>8. ASSUME NEW cs \in SUBSET ColumnName, NEW rs \in SUBSET {"unowned", "legacy", "P"},
             "project_id" \in cs, "unowned" \notin rs,
             columns[t] \subseteq cs, cs \subseteq Added[t],
             UNCHANGED tables, Advance(b), rekeyed' = rekeyed \cup {t},
             columns' = [columns EXCEPT ![t] = cs], rows' = [rows EXCEPT ![t] = rs]
      PROVE  BootInv'
  <2>1. /\ columns' \in [StoreTable -> SUBSET ColumnName] /\ columns'[t] = cs
        /\ rows' \in [StoreTable -> SUBSET {"unowned", "legacy", "P"}] /\ rows'[t] = rs
        /\ \A u \in StoreTable : u # t => rows'[u] = rows[u] /\ columns'[u] = columns[u]
    BY <1>3, <1>4, <1>8
  <2>2. Ownership'
    <3>1. \A u \in StoreTable : columns'[u] \subseteq Added[u]
      BY <1>4, <1>8, <2>1 DEF Ownership
    <3> QED
      BY <1>3, <1>4, <1>5, <1>8, <2>1, <3>1, TenantedTables DEF Ownership
  <2>4. \A u \in tables' : columns[u] \subseteq columns'[u]
    BY <1>4, <1>8, <2>1
  <2>3. UNCHANGED <<rows["projects"], rows["project_members"]>>
    BY <1>3, <2>1, TenantedTables
  <2> QED
    BY <1>1, <1>2, <1>4, <1>6, <1>8, <2>1, <2>2, <2>3, <2>4, DoneKeepsBoot
<1>9. rows[t] \in SUBSET {"unowned", "legacy", "P"}
  BY <1>3, <1>4
<1>10. CASE CopyAndSwap(b, t)
  <2> DEFINE rs == CopyOf(b, t)
  <2>1. rs \in SUBSET {"unowned", "legacy", "P"} /\ "unowned" \notin rs
    BY <1>3, <1>4, <1>5, <1>9 DEF CopyOf, Ownership
  <2>2. /\ rows' = [rows EXCEPT ![t] = rs] /\ columns' = [columns EXCEPT ![t] = Added[t]]
        /\ UNCHANGED tables /\ rekeyed' = rekeyed \cup {t} /\ Advance(b)
    BY <1>10 DEF CopyAndSwap
  <2>3. columns[t] \subseteq Added[t]
    BY <1>3, <1>4 DEF Ownership
  <2> QED
    BY <1>3, <1>8, <2>1, <2>2, <2>3
<1>11. CASE RekeyInPlace(b, t)
  <2> DEFINE new == {"project_id"} \ boot[b].seen
             rs == IF new = {} THEN rows[t] ELSE Owned(rows[t])
             cs == columns[t] \cup new
  <2>1. rs \in SUBSET {"unowned", "legacy", "P"} /\ "unowned" \notin rs
    <3>1. CASE new = {}
      BY <1>3, <1>4, <1>5, <1>9, <3>1 DEF Ownership
    <3>2. CASE new # {}
      BY <1>9, <3>2, OwnedRows
    <3> QED
      BY <3>1, <3>2
  <2>2. /\ "project_id" \in cs /\ cs \in SUBSET ColumnName
        /\ columns[t] \subseteq cs /\ cs \subseteq Added[t]
    BY <1>3, <1>4, <1>5 DEF Ownership
  <2>3. /\ rows' = [rows EXCEPT ![t] = rs] /\ columns' = [columns EXCEPT ![t] = cs]
        /\ UNCHANGED tables /\ rekeyed' = rekeyed \cup {t} /\ Advance(b)
    BY <1>11 DEF RekeyInPlace
  <2> QED
    BY <1>8, <2>1, <2>2, <2>3
<1> QED
  BY <1>1, <1>2, <1>7, <1>10, <1>11 DEF Rebuild

\* Creating a table that is not there, or that is whole, makes it whole.
LEMMA CreateKeepsBoot ==
  ASSUME BootInv, NEW b \in BootThread, ApplyStep(b), Step(b).do = "create"
  PROVE  BootInv'
<1>1. boot[b].pc = "applying" /\ UNCHANGED <<dialect, engineLock, advisoryLock>>
      /\ Create(b, Step(b).table) /\ Applicable(b)
  BY DEF ApplyStep, AtBoot, Apply
<1>2. PICK m \in BOOLEAN, k \in 1 .. Len(Plan), t \in StoreTable :
        m = boot[b].members /\ k = boot[b].step /\ t = Step(b).table
  BY <1>1, AtStep
<1>3. /\ Plan[k].do = "create" /\ Plan[k].table = t
      /\ m => "project_members" \in tables
      /\ \A i \in 1 .. Len(Plan) : i < k => Behind(i, m)
  BY <1>1, <1>2, AtStep
<1>4. /\ columns \in [StoreTable -> SUBSET ColumnName] /\ tables \subseteq StoreTable
      /\ rows \in [StoreTable -> SUBSET {"unowned", "legacy", "P"}] /\ rekeyed \subseteq Rekeyable
      /\ Ownership
  BY DEF BootInv, BootTyped
<1>5. Added[t] \subseteq ColumnName
  BY DEF ColumnName
<1>e. t \in tables /\ t \notin Tenanted => Added[t] \subseteq columns[t]
  <2>1. CASE t \in {"users", "connections"}
    <3> SUFFICES ASSUME t \in tables, NEW c \in Added[t] PROVE c \in columns[t]
      OBVIOUS
    <3>1. PICK i \in 1 .. Len(Plan) :
            Plan[i].do = "add" /\ Plan[i].table = t /\ c \in Plan[i].columns
      BY <2>1, PlanFacts DEF Adds
    <3>2. ~(k < i) /\ i # k
      BY <1>3, <3>1, PlanFacts
    <3>3. i < k
      BY <3>2, PlanFacts
    <3> QED
      BY <1>3, <3>1, <3>3 DEF Behind
  <2>2. CASE t \notin Tenanted \cup {"users", "connections"}
    <3>1. t \notin {"metrics", "anomaly_scores", "llm_explanations"}
      BY <2>2 DEF Tenanted, Rekeyable
    <3> QED
      BY <2>2, <3>1 DEF Added, AddedTo
  <2> QED
    BY <2>1, <2>2
<1>8. t \in tables \cap Tenanted => Added[t] \subseteq columns[t]
  BY <1>1, <1>2, <1>3, AtStep DEF Applicable
<1>w. (IF t \in tables THEN columns[t] ELSE Added[t]) = Added[t]
  BY <1>4, <1>8, <1>e DEF Ownership
<1>6. /\ tables' = tables \cup {t} /\ columns' = [columns EXCEPT ![t] = Added[t]]
      /\ rekeyed' = IF t \in Rekeyable \ tables THEN rekeyed \cup {t} ELSE rekeyed
      /\ Advance(b) /\ UNCHANGED rows
  BY <1>1, <1>2, <1>4, <1>w DEF Create
<1>7. /\ columns' \in [StoreTable -> SUBSET ColumnName] /\ columns'[t] = Added[t]
      /\ \A u \in StoreTable : u # t => columns'[u] = columns[u]
  BY <1>4, <1>5, <1>6
<1>9. Ownership'
  <2>1. t \in Tenanted => "unowned" \notin rows[t] /\ "project_id" \in Added[t]
    BY <1>2, <1>4, <1>8, TenantedTables DEF Ownership
  <2>2. \A u \in StoreTable : columns'[u] \subseteq Added[u]
    BY <1>4, <1>7 DEF Ownership
  <2> QED
    BY <1>4, <1>6, <1>7, <2>1, <2>2, TenantedTables DEF Ownership
<1>10. Complete => Complete'
  <2>1. ASSUME Complete PROVE Complete'
    <3>1. tables' = StoreTable /\ rekeyed' = Rekeyable
      BY <1>6, <2>1 DEF Complete
    <3>2. columns' = Added
      BY <1>4, <1>6, <2>1 DEF Complete
    <3> QED
      BY <3>1, <3>2 DEF Complete
  <2> QED
    BY <2>1
<1>12. t \in Rekeyable => t \in rekeyed'
  <2> SUFFICES ASSUME t \in Rekeyable, t \in tables PROVE t \in rekeyed
    BY <1>6
  <2>1. PICK i \in 1 .. Len(Plan) : Plan[i] = Do("rebuild", t)
    BY PlanFacts
  <2>2. Plan[i].do = "rebuild" /\ Plan[i].table = t
    BY <2>1 DEF Do
  <2>3. ~(k < i) /\ i # k
    BY <1>3, <2>2, PlanFacts
  <2>4. i < k
    BY <2>3, PlanFacts
  <2> QED
    BY <1>3, <2>2, <2>4 DEF Behind
<1>13. Behind(k, m)'
  BY <1>3, <1>6, <1>7, <1>12 DEF Behind
<1>14. \A i \in 1 .. Len(Plan) : i < k => Behind(i, m)'
  <2> SUFFICES ASSUME NEW i \in 1 .. Len(Plan), i < k PROVE Behind(i, m)'
    OBVIOUS
  <2>1. /\ Behind(i, m) /\ Plan[i].table \in StoreTable
        /\ Plan[i].do = "rebuild" => Plan[i].table \in Rekeyable
        /\ Plan[i].do = "add" => Plan[i].columns \subseteq Added[Plan[i].table]
    BY <1>3, PlanFacts DEF Sensible
  <2>2. CASE Plan[i].table = t
    BY <1>6, <1>7, <1>12, <2>1, <2>2 DEF Behind
  <2>3. CASE Plan[i].table # t
    BY <1>6, <1>7, <2>1, <2>3 DEF Behind
  <2> QED
    BY <2>2, <2>3
<1>15. \A i \in 1 .. Len(Plan) : i <= boot[b].step => Behind(i, m)'
  BY <1>2, <1>13, <1>14
<1>16. /\ tables' \subseteq StoreTable /\ rekeyed' \subseteq Rekeyable
       /\ m => "project_members" \in tables'
       /\ rows' \in [StoreTable -> SUBSET {"unowned", "legacy", "P"}]
  BY <1>3, <1>4, <1>6
<1> QED
  BY <1>1, <1>2, <1>6, <1>7, <1>9, <1>10, <1>15, <1>16, AdvanceKeepsBoot

LEMMA ApplyKeepsBoot ==
  ASSUME BootInv, NEW b \in BootThread, ApplyStep(b)
  PROVE  BootInv'
<1>1. Sensible(Step(b))
  BY AtStep DEF ApplyStep, AtBoot
<1> QED
  BY <1>1, AddKeepsBoot, DropKeepsBoot, RebuildKeepsBoot, BackfillKeepsBoot, CreateKeepsBoot
     DEF Sensible

\* A thread that leaves gives the locks back, and nobody else's.
LEMMA LeaveKeepsBoot ==
  ASSUME BootInv, NEW b \in BootThread, Inside(b),
         boot' = [boot EXCEPT ![b] = NoBoot], Release(b), UNCHANGED <<database, initialized>>
  PROVE  BootInv'
<1>1. /\ boot \in BootState /\ engineLock \in [Process -> BootThread \cup {None}]
      /\ ProcessOf[b] \in Process
  BY BootAssumption DEF BootInv, BootTyped
<1>2. /\ boot' \in BootState /\ boot'[b] = NoBoot
      /\ \A c \in BootThread : c # b => boot'[c] = boot[c]
  BY <1>1, NoBootTyped DEF BootState
<1>3. /\ engineLock' \in [Process -> BootThread \cup {None}]
      /\ \A p \in Process : p # ProcessOf[b] => engineLock'[p] = engineLock[p]
  BY <1>1 DEF Release
<1>4. BootTyped'
  BY <1>2, <1>3 DEF BootInv, BootTyped, database
<1>5. ASSUME NEW c \in BootThread
      PROVE  /\ boot'[c].pc # "idle" => c # b /\ boot[c].pc # "idle" /\ Runs(ProcessOf[c])'
             /\ boot'[c].pc = "advisory lock" \/ Inside(c)' => engineLock'[ProcessOf[c]] = c
             /\ Inside(c)' => Inside(c) /\ c # b
  <2>1. CASE c = b
    BY <1>2, <2>1, NoBootTyped DEF Inside
  <2>2. CASE c # b
    <3>1. boot'[c] = boot[c] /\ ProcessOf[c] \in Process
      BY <1>2, <2>2, BootAssumption
    <3>2. boot[c].pc # "idle" => Runs(ProcessOf[c])'
      BY DEF BootInv, Exclusion, AtBoot, Runs, database
    <3>3. boot[c].pc = "advisory lock" \/ Inside(c) => engineLock[ProcessOf[c]] = c
      BY DEF BootInv, Exclusion, AtBoot
    <3>4. engineLock[ProcessOf[b]] = b
      BY DEF BootInv, Exclusion
    <3>5. engineLock[ProcessOf[c]] = c => engineLock'[ProcessOf[c]] = c
      BY <1>3, <2>2, <3>1, <3>4
    <3> QED
      BY <2>2, <3>1, <3>2, <3>3, <3>5 DEF Inside
  <2> QED
    BY <2>1, <2>2
<1>6. \A c \in BootThread : ~Inside(c)'
  BY <1>5, Alone
<1>7. Exclusion'
  BY <1>5, <1>6 DEF Exclusion, AtBoot
<1> QED
  BY <1>4, <1>6, <1>7, OthersKeepBoot DEF database

LEMMA CrashKeepsBoot ==
  ASSUME BootInv, NEW p \in Process, Crash(p)
  PROVE  BootInv'
<1>1. /\ boot \in BootState /\ engineLock \in [Process -> BootThread \cup {None}]
      /\ \A c \in BootThread : ProcessOf[c] \in Process
      /\ UNCHANGED database /\ initialized' \subseteq initialized /\ initialized' \subseteq Process
  BY BootAssumption DEF BootInv, BootTyped, Crash
<1>2. /\ boot' \in BootState
      /\ \A c \in BootThread : boot'[c] = IF ProcessOf[c] = p THEN NoBoot ELSE boot[c]
  BY <1>1, NoBootTyped DEF BootState, Crash
<1>3. /\ engineLock' \in [Process -> BootThread \cup {None}]
      /\ \A q \in Process : q # p => engineLock'[q] = engineLock[q]
  BY <1>1 DEF Crash
<1>4. BootTyped'
  BY <1>1, <1>2, <1>3 DEF BootInv, BootTyped, database
<1>5. ASSUME NEW c \in BootThread
      PROVE  /\ boot'[c].pc # "idle" => boot'[c] = boot[c] /\ Runs(ProcessOf[c])'
             /\ boot'[c].pc = "advisory lock" \/ Inside(c)' => engineLock'[ProcessOf[c]] = c
             /\ Inside(c)' /\ dialect = "postgres" => advisoryLock' = c
             /\ Inside(c)' => Inside(c) /\ boot'[c] = boot[c]
  <2>1. CASE ProcessOf[c] = p
    BY <1>2, <2>1, NoBootTyped DEF Inside
  <2>2. CASE ProcessOf[c] # p
    <3>1. boot'[c] = boot[c] /\ engineLock'[ProcessOf[c]] = engineLock[ProcessOf[c]]
      BY <1>1, <1>2, <1>3, <2>2
    <3>2. boot[c].pc # "idle" => Runs(ProcessOf[c])'
      BY <1>1 DEF BootInv, Exclusion, AtBoot, Runs, database
    <3>3. /\ boot[c].pc = "advisory lock" \/ Inside(c) => engineLock[ProcessOf[c]] = c
          /\ Inside(c) /\ dialect = "postgres" => advisoryLock = c
      BY DEF BootInv, Exclusion, AtBoot
    <3>4. advisoryLock = c => advisoryLock' = c
      BY <2>2 DEF Crash
    <3> QED
      BY <3>1, <3>2, <3>3, <3>4 DEF Inside
  <2> QED
    BY <2>1, <2>2
<1>6. Exclusion'
  BY <1>1, <1>5 DEF Exclusion, AtBoot, database
<1> QED
  BY <1>1, <1>4, <1>5, <1>6, OthersKeepBoot DEF database

\* The locks: a thread gets in when no other one is.
LEMMA LocksKeepBoot ==
  ASSUME BootInv, NEW b \in BootThread, Call(b) \/ LockEngine(b) \/ LockStore(b)
  PROVE  BootInv'
<1>1. /\ boot \in BootState /\ engineLock \in [Process -> BootThread \cup {None}]
      /\ \A c \in BootThread : ProcessOf[c] \in Process
      /\ UNCHANGED <<database, initialized>> /\ initialized \subseteq Process
      /\ boot[b].pc \in {"idle", "engine lock", "advisory lock"}
  BY BootAssumption DEF BootInv, BootTyped, Call, LockEngine, LockStore, AtBoot
<1> DEFINE members == "project_members" \in tables
<1>2. members \in BOOLEAN
  OBVIOUS
<1>m. members => "project_members" \in tables
  OBVIOUS
<1>s. LockStore(b) =>
        boot' = [boot EXCEPT ![b] = [NoBoot EXCEPT !.pc = "inspecting", !.members = members]]
  BY DEF LockStore, Start
<1> HIDE DEF members
<1>3. /\ boot' \in BootState
      /\ \A c \in BootThread : c # b => boot'[c] = boot[c]
      /\ engineLock' \in [Process -> BootThread \cup {None}]
  <2>1. CASE Call(b)
    BY <1>1, <2>1 DEF Call, SetPc, BootState
  <2>2. CASE LockEngine(b)
    <3>1. CASE ProcessOf[b] \in initialized
      <4>1. boot' = [boot EXCEPT ![b].pc = "idle"] /\ UNCHANGED engineLock
        BY <2>2, <3>1 DEF LockEngine, SetPc
      <4> QED
        BY <1>1, <4>1 DEF BootState
    <3>2. CASE ProcessOf[b] \notin initialized
      <4>1. /\ boot' = [boot EXCEPT ![b].pc = "advisory lock"]
            /\ engineLock' = [engineLock EXCEPT ![ProcessOf[b]] = b]
        BY <2>2, <3>2 DEF LockEngine, SetPc
      <4> QED
        BY <1>1, <4>1 DEF BootState
    <3> QED
      BY <3>1, <3>2
  <2>3. CASE LockStore(b)
    <3>1. boot' = [boot EXCEPT ![b] = [NoBoot EXCEPT !.pc = "inspecting", !.members = members]]
      BY <1>s, <2>3
    <3> QED
      BY <1>1, <1>2, <2>3, <3>1, NoBootTyped DEF LockStore, BootState
  <2> QED
    BY <2>1, <2>2, <2>3
<1>4. BootTyped'
  BY <1>1, <1>3 DEF BootInv, BootTyped, database
<1>5. CASE Call(b)
  <2>1. boot'[b].pc = "engine lock" /\ UNCHANGED <<engineLock, advisoryLock>> /\ Runs(ProcessOf[b])
    BY <1>1, <1>5 DEF Call, SetPc, BootState
  <2>2. Exclusion'
    BY <1>1, <1>3, <2>1 DEF BootInv, Exclusion, AtBoot, Inside, Runs, database
  <2> QED
    BY <1>1, <1>3, <1>4, <2>1, <2>2, OthersKeepBoot DEF Inside, database
<1>6. CASE LockEngine(b)
  <2>1. /\ UNCHANGED advisoryLock /\ boot[b].pc = "engine lock"
        /\ engineLock[ProcessOf[b]] = None
        /\ \/ boot'[b].pc = "idle" /\ UNCHANGED engineLock
           \/ /\ boot'[b].pc = "advisory lock" /\ engineLock'[ProcessOf[b]] = b
              /\ \A q \in Process : q # ProcessOf[b] => engineLock'[q] = engineLock[q]
    <3>0. UNCHANGED advisoryLock /\ boot[b].pc = "engine lock" /\ engineLock[ProcessOf[b]] = None
      BY <1>6 DEF LockEngine, AtBoot
    <3>1. CASE ProcessOf[b] \in initialized
      <4>1. boot' = [boot EXCEPT ![b].pc = "idle"] /\ UNCHANGED engineLock
        BY <1>6, <3>1 DEF LockEngine, SetPc
      <4> QED
        BY <1>1, <3>0, <4>1 DEF BootState
    <3>2. CASE ProcessOf[b] \notin initialized
      <4>1. /\ boot' = [boot EXCEPT ![b].pc = "advisory lock"]
            /\ engineLock' = [engineLock EXCEPT ![ProcessOf[b]] = b]
        BY <1>6, <3>2 DEF LockEngine, SetPc
      <4> QED
        BY <1>1, <3>0, <4>1 DEF BootState
    <3> QED
      BY <3>1, <3>2
  <2>2. Exclusion'
    <3>1. \A c \in BootThread : boot[c].pc # "idle" => Runs(ProcessOf[c])'
      BY <1>1 DEF BootInv, Exclusion, AtBoot, Runs, database
    <3>2. \A c \in BootThread :
            /\ boot[c].pc = "advisory lock" \/ Inside(c) => engineLock[ProcessOf[c]] = c
            /\ Inside(c) /\ dialect = "postgres" => advisoryLock = c
      BY DEF BootInv, Exclusion, AtBoot
    <3>3. \A c \in BootThread : c # None
      BY BootAssumption
    <3> QED
      BY <1>1, <1>3, <2>1, <3>1, <3>2, <3>3 DEF Exclusion, AtBoot, Inside, database
  <2> QED
    BY <1>1, <1>3, <1>4, <2>1, <2>2, OthersKeepBoot DEF Inside, database
<1>7. CASE LockStore(b)
  <2>1. /\ UNCHANGED engineLock /\ boot[b].pc = "advisory lock"
        /\ dialect = "postgres" => advisoryLock = None /\ advisoryLock' = b
        /\ dialect # "postgres" => UNCHANGED advisoryLock
    BY <1>1, <1>7 DEF LockStore, AtBoot
  <2>2. boot'[b].pc = "inspecting" /\ boot'[b].step = 1 /\ boot'[b].members = members
    <3>1. boot' = [boot EXCEPT ![b] = [NoBoot EXCEPT !.pc = "inspecting", !.members = members]]
      BY <1>s, <1>7
    <3> QED
      BY <1>1, <1>2, <3>1, NoBootTyped DEF BootState
  <2>3. Exclusion'
    <3>1. \A c \in BootThread : boot[c].pc # "idle" => Runs(ProcessOf[c])'
      BY <1>1 DEF BootInv, Exclusion, AtBoot, Runs, database
    <3>2. \A c \in BootThread :
            /\ boot[c].pc = "advisory lock" \/ Inside(c) => engineLock[ProcessOf[c]] = c
            /\ Inside(c) /\ dialect = "postgres" => advisoryLock = c
      BY DEF BootInv, Exclusion, AtBoot
    <3>3. \A c \in BootThread : c # None
      BY BootAssumption
    <3>4. Runs(ProcessOf[b])' /\ engineLock'[ProcessOf[b]] = b
          /\ (dialect' = "postgres" => advisoryLock' = b)
      BY <1>1, <2>1, <3>1, <3>2 DEF database
    <3>5. ASSUME NEW c \in BootThread, c # b
          PROVE  /\ boot'[c].pc # "idle" => Runs(ProcessOf[c])'
                 /\ boot'[c].pc = "advisory lock" \/ Inside(c)' => engineLock'[ProcessOf[c]] = c
                 /\ Inside(c)' /\ dialect' = "postgres" => advisoryLock' = c
      BY <1>1, <1>3, <2>1, <3>1, <3>2, <3>3, <3>5 DEF Inside, database
    <3> QED
      BY <3>4, <3>5 DEF Exclusion, AtBoot
  <2> QED
    BY <1>1, <1>m, <1>3, <1>4, <2>2, <2>3, OthersKeepBoot DEF Inside, database
<1> QED
  BY <1>5, <1>6, <1>7

\* The rows of this release go to tables that have their columns.
LEMMA UseKeepsBoot ==
  ASSUME BootInv, NEW p \in Process, Use(p)
  PROVE  BootInv'
<1>1. /\ Complete /\ UNCHANGED <<dialect, tables, columns, rekeyed, boot, engineLock,
                                advisoryLock, initialized>>
      /\ rows \in [StoreTable -> SUBSET {"unowned", "legacy", "P"}] /\ Ownership
  BY DEF BootInv, BootTyped, Use
<1>2. /\ rows' \in [StoreTable -> SUBSET {"unowned", "legacy", "P"}]
      /\ \A t \in StoreTable : rows'[t] = rows[t] \cup {"P"}
  BY <1>1 DEF Use
<1>3. BootTyped' /\ Exclusion' /\ Complete'
  BY <1>1, <1>2 DEF BootInv, BootTyped, Exclusion, AtBoot, Inside, Runs, Complete
<1>4. Ownership'
  BY <1>1, <1>2, TenantedTables DEF Ownership, Complete
<1>5. ASSUME NEW b \in BootThread, Inside(b)
      PROVE  Standing(b)'
  <2>1. PICK m : m = boot[b].members
    OBVIOUS
  <2>2. \A i \in 1 .. Len(Plan) : Behind(i, m) => Behind(i, m)'
    BY <1>1, <1>2, TenantedTables DEF Behind
  <2>3. Standing(b)
    BY <1>5 DEF BootInv
  <2>4. \A i \in 1 .. Len(Plan) : i < boot[b].step \/ AtBoot(b, "done") => Behind(i, m)'
    BY <2>1, <2>2, <2>3 DEF Standing
  <2>5. boot'[b].members = m
    BY <1>1, <2>1
  <2>6. AtBoot(b, "applying") => boot'[b].seen = columns'[Step(b)'.table] /\ ~Settled(Step(b))'
    BY <1>1, <2>3 DEF Standing, Step, Settled
  <2> QED
    BY <1>1, <2>1, <2>3, <2>4, <2>5, <2>6 DEF Standing, AtBoot
<1> QED
  BY <1>1, <1>3, <1>4, <1>5 DEF BootInv, Inside

LEMMA NextInvBoot == BootInv /\ [BootNext]_bootVars => BootInv'
<1> SUFFICES ASSUME BootInv, [BootNext]_bootVars PROVE BootInv'
  OBVIOUS
<1>1. CASE UNCHANGED bootVars
  <2>1. BootTyped' /\ Exclusion'
    BY <1>1 DEF bootVars, database, BootInv, BootTyped, Exclusion, AtBoot, Inside, Runs
  <2> QED
    BY <1>1, <2>1, OthersKeepBoot DEF bootVars, database, Inside
<1>2. ASSUME NEW b \in BootThread, Return(b) \/ Refuse(b) \/ BootFails(b)
      PROVE  BootInv'
  <2>1. /\ Inside(b) /\ boot' = [boot EXCEPT ![b] = NoBoot] /\ Release(b)
        /\ UNCHANGED <<database, initialized>>
    BY <1>2 DEF Return, Refuse, BootFails, FailBoot, Inside, AtBoot
  <2> QED
    BY <2>1, LeaveKeepsBoot
<1> QED
  BY <1>1, <1>2, LocksKeepBoot, InspectKeepsBoot, ApplyKeepsBoot, CrashKeepsBoot, UseKeepsBoot
     DEF BootNext, BootStep

\* What the plan of a booting process has done so far holds in the database,
\* whichever processes start, fail or die (get_engine, _migrate_existing_schema).
THEOREM StoreInvariance == BootSpec => []BootInv
  BY InitInvBoot, NextInvBoot, PTL DEF BootSpec

\* A process serves only with the whole schema of this release, whatever the
\* database was, and whatever failed or raced on the way; and when the table
\* of members was there, the owners are members (get_engine).
THEOREM SchemaIsAlwaysComplete == BootSpec => []SchemaIsComplete
<1>1. BootInv => SchemaIsComplete
  <2> SUFFICES ASSUME BootInv PROVE SchemaIsComplete
    OBVIOUS
  <2>1. initialized # {} => \A t \in Tenanted : "unowned" \notin rows[t]
    BY TenantedTables DEF BootInv, Complete, Ownership
  <2>2. ASSUME NEW b \in BootThread, AtBoot(b, "done"), boot[b].members
        PROVE  rows["projects"] \subseteq rows["project_members"]
    <3>1. PICK i \in 1 .. Len(Plan) : Plan[i] = Do("backfill", "project_members")
      BY PlanFacts
    <3>2. Behind(i, boot[b].members)
      BY <2>2 DEF BootInv, Inside, AtBoot, Standing
    <3> QED
      BY <2>2, <3>1, <3>2 DEF Behind, Do
  <2> QED
    BY <2>1, <2>2 DEF BootInv, Complete, SchemaIsComplete
<1> QED
  BY <1>1, StoreInvariance, PTL

\* What the store may not do to the rows of a table.
RowsKept(rs, later) ==
  /\ "P" \in rs => "P" \in later
  /\ rs \cap {"unowned", "legacy"} # {} => later \cap {"unowned", "legacy"} # {}
  /\ "unowned" \in later => "unowned" \in rs

LEMMA OwnedKeeps ==
  ASSUME NEW rs \in SUBSET {"unowned", "legacy", "P"}
  PROVE  RowsKept(rs, rs) /\ RowsKept(rs, Owned(rs))
  BY OwnedRows DEF RowsKept

LEMMA ApplyKeepsRows ==
  ASSUME BootInv, NEW b \in BootThread, ApplyStep(b), NEW t \in StoreTable \ Cache
  PROVE  RowsKept(rows[t], rows'[t])
<1>1. /\ boot[b].pc = "applying" /\ Apply(b) /\ Sensible(Step(b))
      /\ Step(b).table \in StoreTable /\ boot[b].seen = columns[Step(b).table]
  BY AtStep DEF ApplyStep, AtBoot
<1>2. PICK u \in StoreTable : u = Step(b).table
  BY <1>1
<1>3. /\ rows \in [StoreTable -> SUBSET {"unowned", "legacy", "P"}] /\ Ownership
      /\ rows[t] \in SUBSET {"unowned", "legacy", "P"}
      /\ rows[u] \in SUBSET {"unowned", "legacy", "P"}
  BY DEF BootInv, BootTyped
<1>4. CASE UNCHANGED rows
  BY <1>3, <1>4, OwnedKeeps
<1>5. CASE Step(b).do = "add"
  <2>1. rows' = [rows EXCEPT ![u] = Owned(@)] \/ UNCHANGED rows
    BY <1>1, <1>2, <1>3, <1>5 DEF Apply, AddColumns
  <2> QED
    BY <1>3, <1>4, <2>1, OwnedKeeps
<1>6. CASE Step(b).do = "drop"
  <2>1. u # t
    BY <1>1, <1>2, <1>6 DEF Sensible
  <2>2. rows' = [rows EXCEPT ![u] = {}]
    BY <1>1, <1>2, <1>6 DEF Apply, DropTable
  <2> QED
    BY <1>3, <2>1, <2>2, OwnedKeeps
<1>7. CASE Step(b).do = "rebuild"
  <2>1. CASE SetAside(u)
    BY <1>4, <2>1 DEF SetAside
  <2>2. CASE CopyAndSwap(b, u)
    <3>1. RowsKept(rows[u], CopyOf(b, u))
      <4>1. u \in Tenanted
        BY <1>1, <1>2, <1>7, TenantedTables DEF Sensible
      <4>2. "project_id" \notin boot[b].seen => "P" \notin rows[u]
        BY <1>1, <1>2, <1>3, <4>1 DEF Ownership
      <4> QED
        BY <1>3, <4>2 DEF CopyOf, RowsKept
    <3>2. rows' = [rows EXCEPT ![u] = CopyOf(b, u)]
      BY <2>2 DEF CopyAndSwap
    <3> QED
      BY <1>3, <3>1, <3>2, OwnedKeeps
  <2>3. CASE RekeyInPlace(b, u)
    <3>1. rows' = [rows EXCEPT ![u] = Owned(@)] \/ UNCHANGED rows
      BY <1>3, <2>3 DEF RekeyInPlace
    <3> QED
      BY <1>3, <1>4, <3>1, OwnedKeeps
  <2> QED
    BY <1>1, <1>2, <1>7, <2>1, <2>2, <2>3 DEF Apply, Rebuild
<1>8. CASE Step(b).do = "backfill"
  <2>1. "unowned" \notin rows["projects"]
    BY <1>3, TenantedTables DEF Ownership
  <2>2. rows' = [rows EXCEPT !["project_members"] = @ \cup rows["projects"]]
    BY <1>1, <1>8 DEF Apply, Backfill
  <2>3. CASE t = "project_members"
    BY <1>3, <2>1, <2>2, <2>3 DEF RowsKept
  <2>4. CASE t # "project_members"
    BY <1>3, <2>2, <2>4, OwnedKeeps
  <2> QED
    BY <2>3, <2>4
<1>9. CASE Step(b).do = "create"
  BY <1>1, <1>4, <1>9 DEF Apply, Create
<1> QED
  BY <1>1, <1>5, <1>6, <1>7, <1>8, <1>9 DEF Sensible

\* From whatever release, and whatever fails, dies or races: no row of a
\* table that is not a cache is lost, becomes another project's or loses its
\* owner (_migrate_existing_schema and what it calls).
THEOREM RowsAlwaysSurvive == BootSpec => RowsSurvive
<1> DEFINE A == \A t \in StoreTable \ Cache :
                  /\ "P" \in rows[t] => "P" \in rows'[t]
                  /\ rows[t] \cap {"unowned", "legacy"} # {}
                       => rows'[t] \cap {"unowned", "legacy"} # {}
                  /\ "unowned" \in rows'[t] => "unowned" \in rows[t]
<1>1. BootInv /\ [BootNext]_bootVars => [A]_bootVars
  <2> SUFFICES ASSUME BootInv, BootNext, NEW t \in StoreTable \ Cache
               PROVE  RowsKept(rows[t], rows'[t])
    BY DEF RowsKept
  <2>1. rows \in [StoreTable -> SUBSET {"unowned", "legacy", "P"}]
    BY DEF BootInv, BootTyped
  <2>2. CASE UNCHANGED rows
    BY <2>1, <2>2, OwnedKeeps
  <2>3. ASSUME NEW p \in Process, Use(p)
        PROVE  RowsKept(rows[t], rows'[t])
    BY <2>1, <2>3 DEF Use, RowsKept
  <2>4. ASSUME NEW p \in Process, Crash(p)
        PROVE  RowsKept(rows[t], rows'[t])
    BY <2>2, <2>4 DEF Crash, database
  <2>5. ASSUME NEW b \in BootThread, Call(b) \/ BootStep(b) \/ BootFails(b)
        PROVE  RowsKept(rows[t], rows'[t])
    <3>1. CASE ApplyStep(b)
      BY <3>1, ApplyKeepsRows
    <3>2. CASE ~ApplyStep(b)
      BY <2>2, <2>5, <3>2 DEF Call, BootStep, BootFails, FailBoot, LockEngine, LockStore,
                              InspectStep, Return, Refuse, database
    <3> QED
      BY <3>1, <3>2
  <2> QED
    BY <2>3, <2>4, <2>5 DEF BootNext
<1> QED
  BY <1>1, StoreInvariance, PTL DEF RowsSurvive, BootSpec

\* A store that serves has the schema of this release, and a copy that is
\* complete has every row it read, whatever is interrupted on the way
\* (get_engine, migrate).
THEOREM StoresAreAlwaysComplete == BootSpec /\ TransferSpec => []StoresAreComplete
  BY SchemaIsAlwaysComplete, TransfersAreAlwaysComplete, PTL DEF StoresAreComplete

------------------------------------------------------------------------------
\* The tick of a connection: what a run says of itself

\* Where the tick is: at a table, or with the tables of a namespace at all.
AtTable == pc \in {"size", "scan", "schema", "logging"}
Within == AtTable \/ pc \in {"dropping", "tables"}
Alive == verdict # "failed"
TablesOf(i) == Catalog[config.namespaces[i]]
Here == IF AtTable THEN {table} ELSE {}
Outstanding == drops \cup todo \cup Here
Pending == pc \in {"schema", "logging"}
Claim(st) == IF Pending /\ entry.status \in st THEN entry.metrics ELSE 0
Times(i, t) == {k \in DOMAIN log : log[k].ns = i /\ log[k].table = t}

KeptOf(i) == Kept(config, TablesOf(i))
TablesHere == TablesOf(ns)
KeptHere == KeptOf(ns)

\* The tick is in its namespace, which is listed from the answer on.
Place ==
  /\ ns \in Nat \ {0}
  /\ pc \notin {"closing", "reporting", "done"} => Alive
  /\ Within \/ pc = "listing" => ns \in 1 .. Len(config.namespaces)
  /\ Within => ns \in listed
  /\ Alive /\ ~Within => ns \notin listed
  /\ listed \subseteq 1 .. ns
  /\ listed \subseteq 1 .. Len(config.namespaces)

\* What is left of that namespace: filtered tables, tables to collect, one at work.
Aim ==
  /\ Within => todo \subseteq KeptHere /\ drops \subseteq TablesHere \ KeptHere
  /\ Within /\ pc # "dropping" => drops = {}
  /\ ~Within /\ Alive => drops = {} /\ todo = {}
  /\ AtTable => table \in KeptHere \ todo

\* What the table at work has come to.
Doing ==
  /\ pc \in {"size", "scan", "schema"} => entry.status = "success"
  /\ pc \in {"size", "scan"} => ~config.metadataOnly
  /\ pc = "size" => config.sizeLimit
  /\ pc = "scan" /\ config.sizeLimit => table \notin Large
  /\ Pending /\ config.metadataOnly => entry.metrics = 0
  /\ Pending /\ entry.status = "skipped" => entry.metrics = 0

Scope == Place /\ Aim /\ Doing

Totals ==
  /\ count.total = count.checked + count.skipped + Cardinality(Outstanding)
  /\ Len(log) = count.checked + count.skipped
  /\ count.skipped = Cardinality(Rows({"skipped"}))
  /\ verdict = "warning" <=> Rows({"failed"}) # {} \/ (pc = "logging" /\ entry.status = "failed")

Claims ==
  /\ Claimed({"success"}) + Claim({"success"}) <= count.saved
  /\ count.saved <= Claimed(Status) + Claim(Status)

Accounts ==
  /\ \A k \in DOMAIN log : log[k].ns \in listed
  /\ \A i \in listed : \A t \in TablesOf(i) :
       IF i = ns /\ t \in Outstanding THEN Times(i, t) = {}
       ELSE \E k \in DOMAIN log : Times(i, t) = {k}

Load ==
  \A h \in heavy :
    /\ h[1] \in listed /\ h[2] \in KeptOf(h[1])
    /\ ~config.metadataOnly
    /\ config.sizeLimit => h[2] \notin Large

Unscanned == todo \cup IF pc \in {"size", "scan"} THEN {table} ELSE {}
Collects ==
  ~config.metadataOnly =>
    \A i \in listed : \A t \in KeptOf(i) :
      \/ i = ns /\ t \in Unscanned
      \/ <<i, t>> \in heavy
      \/ config.sizeLimit /\ t \in Large

Ended ==
  run.status \in {"success", "warning"} =>
    /\ pc \in {"reporting", "done"} /\ run.status = verdict /\ run.count = count

Books == Totals /\ Claims /\ Accounts /\ Collects

TickInv ==
  /\ TypeOK /\ Scope /\ Load /\ Ended
  /\ Alive => Books

------------------------------------------------------------------------------
\* The sums and counts over the log

Worth(row, st) == IF row.status \in st THEN row.metrics ELSE 0

SumOf(items, st) ==
  LET sum[n \in 0 .. Len(items)] ==
        IF n = 0 THEN 0
        ELSE sum[n - 1] + IF items[n].status \in st THEN items[n].metrics ELSE 0
  IN sum[Len(items)]

LEMMA SumIsFold ==
  ASSUME NEW items \in Seq(Row), NEW st
  PROVE  \E f \in [0 .. Len(items) -> Nat] :
           /\ f[0] = 0 /\ \A i \in 1 .. Len(items) : f[i] = f[i - 1] + Worth(items[i], st)
           /\ SumOf(items, st) = f[Len(items)]
<1> DEFINE n == Len(items)
           P(f) == f = [i \in 0 .. n |->
                          IF i = 0 THEN 0
                          ELSE f[i - 1] + IF items[i].status \in st THEN items[i].metrics ELSE 0]
           K == CHOOSE f : P(f)
           next == [i \in 1 .. n |-> [k \in Nat |-> k + Worth(items[i], st)]]
<1>0. n \in Nat /\ \A i \in 1 .. n : Worth(items[i], st) \in Nat
  <2>1. n \in Nat /\ \A i \in 1 .. n : items[i] \in Row
    OBVIOUS
  <2>2. \A row \in Row : Worth(row, st) \in Nat
    BY DEF Row, Worth
  <2> HIDE DEF n
  <2> QED BY <2>1, <2>2
<1>1. SumOf(items, st) = K[n]
  BY DEF SumOf
<1>2. next \in [1 .. n -> [Nat -> Nat]]
  BY <1>0
<1> HIDE DEF next
<1>4. PICK g \in [0 .. n -> Nat] : g[0] = 0 /\ \A i \in 1 .. n : g[i] = next[i][g[i - 1]]
  <2> DEFINE State == Nat
             base == 0
  <2>1. n \in Nat /\ base \in State /\ next \in [1 .. n -> [State -> State]]
    BY <1>0, <1>2
  <2>2. \E f \in [0 .. n -> State] : f[0] = base /\ \A i \in 1 .. n : f[i] = next[i][f[i - 1]]
    <3> HIDE DEF n, State, base, P, K
    <3> QED BY <2>1, FoldExists
  <2> QED BY <2>2
<1>5. \A i \in 1 .. n : g[i] = g[i - 1] + Worth(items[i], st)
  <2> SUFFICES ASSUME NEW i \in 1 .. n PROVE g[i] = g[i - 1] + Worth(items[i], st)
    OBVIOUS
  <2>1. i - 1 \in 0 .. n
    BY <1>0
  <2>2. g[i - 1] \in Nat
    BY <2>1
  <2>3. next[i][g[i - 1]] = g[i - 1] + Worth(items[i], st)
    BY <2>2 DEF next
  <2> QED BY <1>4, <2>3
<1>6. P(g)
  <2> DEFINE h == [i \in 0 .. n |->
                     IF i = 0 THEN 0
                     ELSE g[i - 1] + IF items[i].status \in st THEN items[i].metrics ELSE 0]
  <2>1. \A i \in 0 .. n : g[i] = h[i]
    BY <1>0, <1>4, <1>5 DEF Worth
  <2>2. g = [i \in 0 .. n |-> g[i]] /\ h = [i \in 0 .. n |-> h[i]]
    OBVIOUS
  <2> QED BY <2>1, <2>2
<1>7. P(K)
  <2> HIDE DEF P
  <2> QED BY <1>6
<1> HIDE DEF K
<1>8. K[0] = g[0]
  BY <1>0, <1>4, <1>7
<1>9. ASSUME NEW i \in 1 .. n, K[i - 1] = g[i - 1] PROVE K[i] = g[i]
  <2>1. i \in 0 .. n /\ i # 0
    BY <1>0
  <2>2. K[i] = K[i - 1] + IF items[i].status \in st THEN items[i].metrics ELSE 0
    BY <1>7, <2>1
  <2> QED BY <1>5, <1>9, <2>2 DEF Worth
<1>10. K[n] = g[n]
  <2>1. \A i \in 0 .. n : K[i] = g[i]
    <3> HIDE DEF P, n
    <3> QED BY <1>0, <1>8, <1>9, FoldsAgree
  <2> QED BY <1>0, <2>1
<1> QED BY <1>1, <1>4, <1>5, <1>10

LEMMA SumStep ==
  ASSUME NEW items \in Seq(Row), NEW row \in Row, NEW st
  PROVE  /\ SumOf(items, st) \in Nat
         /\ SumOf(Append(items, row), st) = SumOf(items, st) + Worth(row, st)
<1> DEFINE n == Len(items)
           more == Append(items, row)
<1>1. /\ n \in Nat /\ more \in Seq(Row) /\ Len(more) = n + 1 /\ more[n + 1] = row
      /\ \A i \in 1 .. n : more[i] = items[i]
  BY AppendProperties
<1>0. ASSUME NEW u, NEW w, u[0] = w[0],
             \A i \in 1 .. n : u[i - 1] = w[i - 1] => u[i] = w[i]
      PROVE  \A i \in 0 .. n : u[i] = w[i]
  <2>1. n \in Nat
    BY <1>1
  <2> HIDE DEF n, more
  <2> QED BY <1>0, <2>1, FoldsAgree
<1> HIDE DEF more
<1>2. PICK f \in [0 .. n -> Nat] :
        /\ f[0] = 0 /\ \A i \in 1 .. n : f[i] = f[i - 1] + Worth(items[i], st)
        /\ SumOf(items, st) = f[n]
  BY SumIsFold
<1>3. PICK g \in [0 .. n + 1 -> Nat] :
        /\ g[0] = 0 /\ \A i \in 1 .. n + 1 : g[i] = g[i - 1] + Worth(more[i], st)
        /\ SumOf(more, st) = g[n + 1]
  BY <1>1, SumIsFold
<1>4. \A i \in 1 .. n : f[i - 1] = g[i - 1] => f[i] = g[i]
  <2> SUFFICES ASSUME NEW i \in 1 .. n, f[i - 1] = g[i - 1] PROVE f[i] = g[i]
    OBVIOUS
  <2>1. i \in 1 .. n + 1
    BY <1>1
  <2> QED BY <1>1, <1>2, <1>3, <2>1
<1>5. \A i \in 0 .. n : f[i] = g[i]
  <2>1. f[0] = g[0]
    BY <1>2, <1>3
  <2> QED BY <1>0, <1>4, <2>1
<1>6. g[n + 1] = g[n] + Worth(row, st)
  <2>1. n + 1 \in 1 .. n + 1 /\ (n + 1) - 1 = n
    BY <1>1
  <2> QED BY <1>1, <1>3, <2>1
<1>7. f[n] = g[n] /\ f[n] \in Nat
  BY <1>1, <1>5
<1> QED BY <1>2, <1>3, <1>6, <1>7 DEF more

LEMMA ClaimedIsSum == \A st : Claimed(st) = SumOf(log, st)
BY DEF Claimed, SumOf

LEMMA RowsAreFinite ==
  ASSUME log \in Seq(Row)
  PROVE  \A st : Rows(st) \subseteq 1 .. Len(log) /\ IsFiniteSet(Rows(st))
                 /\ Cardinality(Rows(st)) \in Nat
<1> SUFFICES ASSUME NEW st
             PROVE  Rows(st) \subseteq 1 .. Len(log) /\ IsFiniteSet(Rows(st))
                    /\ Cardinality(Rows(st)) \in Nat
  OBVIOUS
<1>1. Rows(st) \subseteq 1 .. Len(log) /\ Len(log) \in Nat
  BY DEF Rows
<1>2. IsFiniteSet(1 .. Len(log))
  BY <1>1, FS_Interval
<1> QED BY <1>1, <1>2, FS_Subset, FS_CardinalityType

LEMMA ClaimedIsNumber == ASSUME log \in Seq(Row), NEW st PROVE Claimed(st) \in Nat
<1>1. PICK f \in [0 .. Len(log) -> Nat] : SumOf(log, st) = f[Len(log)]
  BY SumIsFold
<1>2. Len(log) \in Nat
  OBVIOUS
<1> QED BY <1>1, <1>2, ClaimedIsSum

\* What one more row of the log adds to it.
LEMMA RowAdded ==
  ASSUME log \in Seq(Row), NEW row \in Row, log' = Append(log, row)
  PROVE  /\ log' \in Seq(Row) /\ Len(log') = Len(log) + 1
         /\ \A st : Claimed(st) \in Nat /\ Claimed(st)' = Claimed(st) + Worth(row, st)
         /\ \A st : Rows(st)' = Rows(st) \cup IF row.status \in st THEN {Len(log) + 1} ELSE {}
         /\ \A st : Cardinality(Rows(st)') =
                      Cardinality(Rows(st)) + IF row.status \in st THEN 1 ELSE 0
         /\ \A i, t : Times(i, t)' =
                       Times(i, t) \cup IF row.ns = i /\ row.table = t THEN {Len(log) + 1} ELSE {}
<1> DEFINE n == Len(log)
<1>1. /\ n \in Nat /\ log' \in Seq(Row) /\ Len(log') = n + 1 /\ log'[n + 1] = row
      /\ \A i \in 1 .. n : log'[i] = log[i]
      /\ DOMAIN log = 1 .. n /\ DOMAIN log' = 1 .. (n + 1)
  BY AppendProperties
<1>2. \A st : Claimed(st) \in Nat /\ Claimed(st)' = Claimed(st) + Worth(row, st)
  <2> SUFFICES ASSUME NEW st
               PROVE  Claimed(st) \in Nat /\ Claimed(st)' = Claimed(st) + Worth(row, st)
    OBVIOUS
  <2>1. Claimed(st) = SumOf(log, st)
    BY DEF Claimed, SumOf
  <2>2. Claimed(st)' = SumOf(log', st)
    BY DEF Claimed, SumOf
  <2> QED BY <2>1, <2>2, SumStep
<1>3. \A k : k \in 1 .. (n + 1) <=> k \in 1 .. n \/ k = n + 1
  BY <1>1
<1>4. ASSUME NEW st
      PROVE  Rows(st)' = Rows(st) \cup IF row.status \in st THEN {n + 1} ELSE {}
  <2>1. Rows(st)' = {k \in 1 .. (n + 1) : log'[k].status \in st}
    BY <1>1 DEF Rows
  <2>2. Rows(st) = {k \in 1 .. n : log[k].status \in st}
    BY <1>1 DEF Rows
  <2> HIDE DEF n
  <2> QED BY <1>1, <1>3, <2>1, <2>2
<1>5. ASSUME NEW st
      PROVE  Cardinality(Rows(st)') = Cardinality(Rows(st)) + IF row.status \in st THEN 1 ELSE 0
  <2>1. IsFiniteSet(Rows(st)) /\ n + 1 \notin Rows(st) /\ Cardinality(Rows(st)) \in Nat
    BY <1>1, RowsAreFinite
  <2>2. CASE row.status \in st
    <3>1. Rows(st)' = Rows(st) \cup {n + 1}
      BY <1>4, <2>2
    <3>2. Cardinality(Rows(st) \cup {n + 1}) = Cardinality(Rows(st)) + 1
      BY <2>1, FS_AddElement
    <3> QED BY <2>2, <3>1, <3>2
  <2>3. CASE row.status \notin st
    <3>1. Rows(st)' = Rows(st)
      BY <1>4, <2>3
    <3> HIDE DEF n
    <3> QED BY <2>1, <2>3, <3>1
  <2> QED BY <2>2, <2>3
<1>6. ASSUME NEW i, NEW t
      PROVE  Times(i, t)' = Times(i, t) \cup IF row.ns = i /\ row.table = t THEN {n + 1} ELSE {}
  <2>1. Times(i, t)' = {k \in 1 .. (n + 1) : log'[k].ns = i /\ log'[k].table = t}
    BY <1>1 DEF Times
  <2>2. Times(i, t) = {k \in 1 .. n : log[k].ns = i /\ log[k].table = t}
    BY <1>1 DEF Times
  <2> HIDE DEF n
  <2> QED BY <1>1, <1>3, <2>1, <2>2
<1> QED BY <1>1, <1>2, <1>4, <1>5, <1>6


------------------------------------------------------------------------------
\* The operators of the model

LEMMA KeptAreSome == \A c, ts : Kept(c, ts) \subseteq ts
BY DEF Kept, Wanted

LEMMA FirstIsOne == ASSUME NEW S, S \subseteq Nat, S # {} PROVE First(S) \in S
BY LeastOfSet DEF First

LEMMA TablesAreFinite ==
  /\ Table \subseteq Nat
  /\ \A S \in SUBSET Table : IsFiniteSet(S) /\ Cardinality(S) \in Nat
BY ConstantsAssumption, FS_Subset, FS_CardinalityType

LEMMA ListingsAreTables ==
  ASSUME config \in Configs, NEW i \in 1 .. Len(config.namespaces)
  PROVE  TablesOf(i) \subseteq Table
<1>1. config.namespaces \in Seq(DOMAIN Catalog)
  BY ConstantsAssumption DEF Config
<1>2. config.namespaces[i] \in DOMAIN Catalog
  BY <1>1
<1> QED BY <1>2, ConstantsAssumption DEF TablesOf

LEMMA BumpAdds ==
  ASSUME TypeOK, NEW status \in Status
  PROVE  /\ Bump(status) \in Count
         /\ Bump(status).total = count.total /\ Bump(status).saved = count.saved
         /\ Bump(status).checked + Bump(status).skipped = count.checked + count.skipped + 1
         /\ Bump(status).skipped = count.skipped + IF status = "skipped" THEN 1 ELSE 0
         /\ Bump("skipped") = [count EXCEPT !.skipped = @ + 1]
<1> DEFINE skip == [count EXCEPT !.skipped = @ + 1]
           check == [count EXCEPT !.checked = @ + 1]
<1>1. count \in Count
  BY DEF TypeOK
<1>2. count.total \in Nat /\ count.checked \in Nat /\ count.skipped \in Nat /\ count.saved \in Nat
  BY <1>1 DEF Count
<1>3. /\ skip \in Count /\ skip.total = count.total /\ skip.saved = count.saved
      /\ skip.checked = count.checked /\ skip.skipped = count.skipped + 1
  BY <1>1, <1>2 DEF Count
<1>4. /\ check \in Count /\ check.total = count.total /\ check.saved = count.saved
      /\ check.checked = count.checked + 1 /\ check.skipped = count.skipped
  BY <1>1, <1>2 DEF Count
<1>5. Bump("skipped") = skip /\ (status = "skipped" => Bump(status) = skip)
      /\ (status # "skipped" => Bump(status) = check)
  BY DEF Bump
<1>6. Bump("skipped") = [count EXCEPT !.skipped = @ + 1]
  BY <1>5
<1> HIDE DEF skip, check
<1>7. CASE status = "skipped"
  BY <1>2, <1>3, <1>5, <1>6, <1>7
<1>8. CASE status # "skipped"
  BY <1>2, <1>4, <1>5, <1>6, <1>8
<1> QED BY <1>7, <1>8

LEMMA OutstandingIsFinite ==
  ASSUME TypeOK
  PROVE  /\ Outstanding \subseteq Table /\ IsFiniteSet(Outstanding)
         /\ Cardinality(Outstanding) \in Nat
<1>1. Outstanding \subseteq Table
  BY DEF TypeOK, Outstanding, Here
<1> QED BY <1>1, TablesAreFinite

\* What the invariant is made of changes with the variables it is about only.
LEMMA LogStays ==
  ASSUME log' = log
  PROVE  /\ \A st : Rows(st)' = Rows(st) /\ Claimed(st)' = Claimed(st)
         /\ \A i, t : Times(i, t)' = Times(i, t)
<1>1. \A st : Claimed(st) = SumOf(log, st) /\ Claimed(st)' = SumOf(log', st)
  BY DEF Claimed, SumOf
<1> QED BY <1>1 DEF Rows, Times

LEMMA ListingsStay ==
  ASSUME config' = config
  PROVE  /\ \A i : TablesOf(i)' = TablesOf(i) /\ KeptOf(i)' = KeptOf(i)
         /\ ns' = ns => TablesHere' = TablesHere /\ KeptHere' = KeptHere
BY DEF TablesOf, KeptOf, TablesHere, KeptHere, Kept, Wanted

LEMMA ConfigStays == ASSUME [Next]_vars PROVE config' = config
BY DEF Next, Tick, ListTables, ListTimedOut, ListFailed, ListReturned, LogDropped, NextTable,
       CheckSize, Scan, SchemaCollected, LogTable, Close, Report, WorkerEnds, BudgetEnds, vars

LEMMA EmptyLog == ASSUME log = <<>> PROVE \A st : Rows(st) = {} /\ Claimed(st) = 0
<1>1. log \in Seq(Row) /\ Len(log) = 0
  BY EmptySeq
<1>2. \A st : Rows(st) = {}
  BY <1>1 DEF Rows
<1>3. ASSUME NEW st PROVE SumOf(log, st) = 0
  <2>1. PICK f \in [0 .. Len(log) -> Nat] : f[0] = 0 /\ SumOf(log, st) = f[Len(log)]
    BY <1>1, SumIsFold
  <2> QED BY <1>1, <2>1
<1> QED BY <1>2, <1>3, ClaimedIsSum

LEMMA TickInit == Init => TickInv
<1> SUFFICES ASSUME Init PROVE TickInv
  OBVIOUS
<1>1. TypeOK
  BY EmptySeq DEF Init, TypeOK, Zero, Count, Status
<1>2. Scope
  BY DEF Init, Scope, Place, Aim, Doing, Within, AtTable, Alive, Pending
<1>3. Load /\ Ended
  BY DEF Init, Load, Ended
<1>4. Totals
  <2>1. Outstanding = {} /\ Cardinality(Outstanding) = 0
    BY FS_EmptySet DEF Init, Outstanding, Here, AtTable
  <2>2. Rows({"skipped"}) = {} /\ Rows({"failed"}) = {} /\ Cardinality(Rows({"skipped"})) = 0
    BY EmptyLog, FS_EmptySet DEF Init
  <2>3. Len(log) = 0
    BY DEF Init
  <2> QED BY <2>1, <2>2, <2>3 DEF Init, Totals, Zero
<1>5. Claims
  <2>1. Claimed({"success"}) = 0 /\ Claimed(Status) = 0
    BY EmptyLog DEF Init
  <2> QED BY <2>1 DEF Init, Claims, Claim, Pending, Zero
<1>6. Accounts /\ Collects
  BY DEF Init, Accounts, Collects
<1> QED BY <1>1, <1>2, <1>3, <1>4, <1>5, <1>6 DEF TickInv, Books

------------------------------------------------------------------------------
\* The types, and where the tick is

LEMMA TickTypes == TypeOK /\ Scope /\ [Next]_vars => TypeOK'
<1> SUFFICES ASSUME TypeOK, Scope, [Next]_vars PROVE TypeOK'
  OBVIOUS
<1>1. config' \in Configs
  BY ConfigStays DEF TypeOK
<1>2. CASE UNCHANGED vars
  BY <1>2 DEF vars, counters, store, history, TypeOK
<1>3. CASE ListTables
  BY <1>1, <1>3 DEF ListTables, TypeOK, counters, store, history, Submit, Collected, Abort
<1>4. CASE ListTimedOut
  <2>1. ns' \in Nat /\ pc' = "namespace"
    BY <1>4 DEF ListTimedOut, TypeOK
  <2> QED BY <2>1, <1>1, <1>4 DEF ListTimedOut, TypeOK, counters, store, history, Collected
<1>5. CASE ListFailed
  BY <1>1, <1>5 DEF ListFailed, TypeOK, counters, store, history, Submit, Collected, Abort
<1>6. CASE ListReturned
  <2>1. pc = "listing" /\ TablesHere \subseteq Table /\ KeptHere \subseteq TablesHere
    BY <1>6, ListingsAreTables, KeptAreSome DEF ListReturned, Scope, Place, TablesHere, KeptHere,
       KeptOf, TypeOK
  <2>2. Cardinality(KeptHere) \in Nat /\ Cardinality(TablesHere \ KeptHere) \in Nat
    BY <2>1, TablesAreFinite
  <2>3. count' \in Count
    <3>1. count' = [count EXCEPT !.total = (@ + Cardinality(KeptHere)) + Cardinality(TablesHere \ KeptHere)]
      BY <1>6 DEF ListReturned, KeptHere, TablesHere, KeptOf, TablesOf
    <3>2. count \in Count
      BY DEF TypeOK
    <3> QED BY <2>2, <3>1, <3>2 DEF Count
  <2>4. drops' \subseteq Table /\ todo' \subseteq Table
    BY <2>1, <1>6 DEF ListReturned, KeptHere, TablesHere, KeptOf, TablesOf
  <2> QED BY <2>3, <2>4, <1>1, <1>6 DEF ListReturned, TypeOK, store, Collected
<1>7. CASE LogDropped
  <2>1. ASSUME NEW t \in drops PROVE RowOf(t, "skipped", 0) \in Row
    BY DEF RowOf, Row, Status, TypeOK
  <2>2. log' \in Seq(Row)
    BY <2>1, <1>7 DEF LogDropped, Log, TypeOK
  <2>3. "skipped" \in Status
    BY DEF Status
  <2>4. count' \in Count
    BY <2>3, BumpAdds, <1>7 DEF LogDropped, TypeOK
  <2> QED BY <2>2, <2>4, <1>1, <1>7 DEF LogDropped, TypeOK, history, Abort
<1>8. CASE NextTable
  <2>1. todo # {} => First(todo) \in todo /\ First(todo) \in Table
    BY FirstIsOne, TablesAreFinite DEF TypeOK
  <2>2. [status |-> "success", metrics |-> 0] \in [status: Status, metrics: Nat]
    BY DEF Status
  <2>3. entry' \in [status: Status, metrics: Nat]
    BY <2>2, <1>8 DEF NextTable
  <2>4. /\ ns' \in Nat /\ table' \in Table /\ todo' \subseteq Table /\ names' \subseteq Table
        /\ call' \in {"none", "running", "ok", "error", "timeout"} /\ late' \in BOOLEAN
    <3>1. CASE todo = {}
      BY <3>1, <1>8 DEF NextTable, TypeOK
    <3>2. CASE todo # {}
      BY <2>1, <3>2, <1>8 DEF NextTable, TypeOK, Submit
    <3> QED BY <3>1, <3>2
  <2>5. pc' \in {"namespace", "schema", "size", "scan"}
    BY <1>8 DEF NextTable
  <2> QED BY <2>3, <2>4, <2>5, <1>1, <1>8 DEF NextTable, TypeOK, counters, store, history
<1>9. CASE CheckSize
  <2>1. RowOf(table, "skipped", 0) \in Row
    BY DEF RowOf, Row, Status, TypeOK
  <2>2. log' \in Seq(Row)
    <3>1. log' = log \/ log' = Append(log, RowOf(table, "skipped", 0))
      BY <1>9 DEF CheckSize, Log
    <3> QED BY <2>1, <3>1 DEF TypeOK
  <2>3. "skipped" \in Status
    BY DEF Status
  <2>4. count' \in Count
    BY <2>3, BumpAdds, <1>9 DEF CheckSize, TypeOK
  <2> QED BY <2>2, <2>4, <1>1, <1>9 DEF CheckSize, TypeOK, history, Abort
<1>10. CASE Scan
  <2>1. PICK n \in 0 .. MaxMetrics :
          \/ /\ entry' = [status |-> "success", metrics |-> n]
             /\ count' = [count EXCEPT !.saved = @ + n]
             /\ pc' = "schema" /\ Submit /\ UNCHANGED verdict
          \/ Fail(n) /\ pc' = "logging" /\ UNCHANGED <<count, call, late>>
    BY <1>10 DEF Scan
  <2>2. n \in Nat
    BY ConstantsAssumption
  <2>3. entry' \in [status: Status, metrics: Nat]
    BY <2>1, <2>2 DEF Fail, Status
  <2>4. count' \in Count
    BY <2>1, <2>2 DEF TypeOK, Count
  <2>5. heavy' \subseteq Nat \X Table
    BY <1>10 DEF Scan, TypeOK
  <2> QED BY <2>1, <2>3, <2>4, <2>5, <1>1, <1>10 DEF Scan, TypeOK, store, Submit, Fail
<1>11. CASE SchemaCollected
  <2>1. entry' \in [status: Status, metrics: Nat]
    BY <1>11 DEF SchemaCollected, TypeOK, Fail, Status
  <2> QED BY <2>1, <1>1, <1>11 DEF SchemaCollected, TypeOK, store, history, Collected, Fail
<1>12. CASE LogTable
  <2>1. entry.status \in Status /\ entry.metrics \in Nat
    BY DEF TypeOK
  <2>2. RowOf(table, entry.status, entry.metrics) \in Row
    BY <2>1 DEF RowOf, Row, TypeOK
  <2>3. log' \in Seq(Row)
    BY <2>2, <1>12 DEF LogTable, Log, TypeOK
  <2>4. count' \in Count
    BY <2>1, BumpAdds, <1>12 DEF LogTable
  <2> QED BY <2>3, <2>4, <1>1, <1>12 DEF LogTable, TypeOK, history, Abort
<1>13. CASE Close
  BY <1>1, <1>13 DEF Close, TypeOK, counters, store, history, Submit, Collected, Abort
<1>14. CASE Report
  BY <1>1, <1>14 DEF Report, TypeOK, counters, store, history, Submit, Collected, Abort
<1>15. CASE WorkerEnds
  BY <1>1, <1>15 DEF WorkerEnds, TypeOK, counters, store, history, Submit, Collected, Abort
<1>16. CASE BudgetEnds
  BY <1>1, <1>16 DEF BudgetEnds, TypeOK, counters, store, history, Submit, Collected, Abort
<1> QED BY <1>2, <1>3, <1>4, <1>5, <1>6, <1>7, <1>8, <1>9, <1>10, <1>11, <1>12, <1>13, <1>14,
       <1>15, <1>16 DEF Next, Tick

\* A tick that was cut short stays so.
LEMMA AliveBefore == Scope /\ [Next]_vars /\ Alive' => Alive
<1> SUFFICES ASSUME Scope, [Next]_vars, Alive' PROVE Alive
  OBVIOUS
<1>1. SUFFICES ASSUME pc \in {"closing", "reporting", "done"} PROVE verdict' = verdict
  BY DEF Scope, Place, Alive
<1> QED BY <1>1 DEF Next, Tick, ListTables, ListTimedOut, ListFailed, ListReturned, LogDropped,
           NextTable, CheckSize, Scan, SchemaCollected, LogTable, Close, Report, WorkerEnds,
           BudgetEnds, vars, counters

LEMMA TickPlace == TypeOK /\ Scope /\ [Next]_vars => Place'
<1> SUFFICES ASSUME TypeOK, Scope, [Next]_vars PROVE Place'
  OBVIOUS
<1>1. config' = config
  BY ConfigStays
<1>2. CASE UNCHANGED vars
  BY <1>2 DEF vars, counters, store, history, Scope, Place, Within, AtTable, Alive
<1>3. CASE ListTables
  BY <1>1, <1>3 DEF ListTables, TypeOK, Scope, Place, Aim, Within, AtTable, Alive, counters, history,
     Abort, Fail
<1>4. CASE ListTimedOut
  BY <1>1, <1>4 DEF ListTimedOut, TypeOK, Scope, Place, Aim, Within, AtTable, Alive, counters, history,
     Abort, Fail
<1>5. CASE ListFailed
  BY <1>1, <1>5 DEF ListFailed, TypeOK, Scope, Place, Aim, Within, AtTable, Alive, counters, history,
     Abort, Fail
<1>6. CASE ListReturned
  BY <1>1, <1>6 DEF ListReturned, TypeOK, Scope, Place, Aim, Within, AtTable, Alive, counters, history,
     Abort, Fail
<1>7. CASE LogDropped
  BY <1>1, <1>7 DEF LogDropped, TypeOK, Scope, Place, Aim, Within, AtTable, Alive, counters, history,
     Abort, Fail
<1>8. CASE NextTable
  BY <1>1, <1>8 DEF NextTable, TypeOK, Scope, Place, Aim, Within, AtTable, Alive, counters, history,
     Abort, Fail
<1>9. CASE CheckSize
  BY <1>1, <1>9 DEF CheckSize, TypeOK, Scope, Place, Aim, Within, AtTable, Alive, counters, history,
     Abort, Fail
<1>10. CASE Scan
  BY <1>1, <1>10 DEF Scan, TypeOK, Scope, Place, Aim, Within, AtTable, Alive, counters, history,
     Abort, Fail
<1>11. CASE SchemaCollected
  BY <1>1, <1>11 DEF SchemaCollected, TypeOK, Scope, Place, Aim, Within, AtTable, Alive, counters, history,
     Abort, Fail
<1>12. CASE LogTable
  BY <1>1, <1>12 DEF LogTable, TypeOK, Scope, Place, Aim, Within, AtTable, Alive, counters, history,
     Abort, Fail
<1>13. CASE Close
  BY <1>1, <1>13 DEF Close, TypeOK, Scope, Place, Aim, Within, AtTable, Alive, counters, history,
     Abort, Fail
<1>14. CASE Report
  BY <1>1, <1>14 DEF Report, TypeOK, Scope, Place, Aim, Within, AtTable, Alive, counters, history,
     Abort, Fail
<1>15. CASE WorkerEnds
  BY <1>1, <1>15 DEF WorkerEnds, TypeOK, Scope, Place, Aim, Within, AtTable, Alive, counters, history,
     Abort, Fail
<1>16. CASE BudgetEnds
  BY <1>1, <1>16 DEF BudgetEnds, TypeOK, Scope, Place, Aim, Within, AtTable, Alive, counters, history,
     Abort, Fail
<1> QED BY <1>2, <1>3, <1>4, <1>5, <1>6, <1>7, <1>8, <1>9, <1>10, <1>11, <1>12, <1>13, <1>14,
       <1>15, <1>16 DEF Next, Tick

LEMMA TickAim == TypeOK /\ Scope /\ [Next]_vars => Aim'
<1> SUFFICES ASSUME TypeOK, Scope, [Next]_vars PROVE Aim'
  OBVIOUS
<1>1. /\ config' = config
      /\ ns' = ns => TablesHere' = TablesHere /\ KeptHere' = KeptHere
  BY ConfigStays, ListingsStay
<1>2. CASE UNCHANGED vars
  BY <1>1, <1>2 DEF vars, counters, store, history, Scope, Aim, Within, AtTable, Alive
<1>3. CASE ListTables
  BY <1>1, <1>3 DEF ListTables, Scope, Place, Aim, Within, AtTable, Alive, counters, history
<1>4. CASE ListTimedOut
  BY <1>1, <1>4 DEF ListTimedOut, Scope, Place, Aim, Within, AtTable, Alive, counters, history,
     Abort, Fail
<1>5. CASE ListFailed
  BY <1>1, <1>5 DEF ListFailed, Scope, Place, Aim, Within, AtTable, Alive, counters, history,
     Abort, Fail
<1>6. CASE ListReturned
  BY <1>1, <1>6 DEF ListReturned, Aim, Within, AtTable, TablesHere, KeptHere, KeptOf, TablesOf
<1>7. CASE LogDropped
  BY <1>1, <1>7 DEF LogDropped, Scope, Place, Aim, Within, AtTable, Alive, counters, history,
     Abort, Fail
<1>8. CASE NextTable
  <2>1. CASE todo = {}
    BY <2>1, <1>8 DEF NextTable, Scope, Aim, Within, AtTable
  <2>2. CASE todo # {}
    <3>1. First(todo) \in todo
      BY <2>2, FirstIsOne, TablesAreFinite DEF TypeOK
    <3> QED BY <2>2, <3>1, <1>1, <1>8 DEF NextTable, Scope, Place, Aim, Within, AtTable
  <2> QED BY <2>1, <2>2
<1>9. CASE CheckSize
  BY <1>1, <1>9 DEF CheckSize, Scope, Place, Aim, Within, AtTable, Alive, counters, history,
     Abort, Fail
<1>10. CASE Scan
  BY <1>1, <1>10 DEF Scan, Scope, Place, Aim, Within, AtTable, Alive, counters, history, Abort,
     Fail
<1>11. CASE SchemaCollected
  BY <1>1, <1>11 DEF SchemaCollected, Scope, Place, Aim, Within, AtTable, Alive, counters,
     history, Abort, Fail
<1>12. CASE LogTable
  BY <1>1, <1>12 DEF LogTable, Scope, Place, Aim, Within, AtTable, Alive, counters, history,
     Abort, Fail
<1>13. CASE Close
  BY <1>1, <1>13 DEF Close, Scope, Place, Aim, Within, AtTable, Alive, counters, history, Abort,
     Fail
<1>14. CASE Report
  BY <1>1, <1>14 DEF Report, Scope, Place, Aim, Within, AtTable, Alive, counters, history,
     Abort, Fail
<1>15. CASE WorkerEnds
  BY <1>1, <1>15 DEF WorkerEnds, Scope, Place, Aim, Within, AtTable, Alive, counters, history,
     Abort, Fail
<1>16. CASE BudgetEnds
  BY <1>1, <1>16 DEF BudgetEnds, Scope, Place, Aim, Within, AtTable, Alive, counters, history,
     Abort, Fail
<1> QED BY <1>2, <1>3, <1>4, <1>5, <1>6, <1>7, <1>8, <1>9, <1>10, <1>11, <1>12, <1>13, <1>14,
       <1>15, <1>16 DEF Next, Tick

LEMMA TickDoing == TypeOK /\ Scope /\ [Next]_vars => Doing'
<1> SUFFICES ASSUME TypeOK, Scope, [Next]_vars PROVE Doing'
  OBVIOUS
<1>1. config' = config
  BY ConfigStays
<1>2. CASE UNCHANGED vars
  BY <1>2 DEF vars, Scope, Doing, Pending
<1>3. CASE ListTables
  BY <1>1, <1>3 DEF ListTables, Scope, Doing, Pending, Abort, Fail
<1>4. CASE ListTimedOut
  BY <1>1, <1>4 DEF ListTimedOut, Scope, Doing, Pending, Abort, Fail
<1>5. CASE ListFailed
  BY <1>1, <1>5 DEF ListFailed, Scope, Doing, Pending, Abort, Fail
<1>6. CASE ListReturned
  BY <1>1, <1>6 DEF ListReturned, Scope, Doing, Pending, Abort, Fail
<1>7. CASE LogDropped
  BY <1>1, <1>7 DEF LogDropped, Scope, Doing, Pending, Abort, Fail
<1>8. CASE NextTable
  BY <1>1, <1>8 DEF NextTable, Scope, Doing, Pending, Abort, Fail
<1>9. CASE CheckSize
  BY <1>1, <1>9 DEF CheckSize, Scope, Doing, Pending, Abort, Fail
<1>10. CASE Scan
  BY <1>1, <1>10 DEF Scan, Scope, Doing, Pending, Abort, Fail
<1>11. CASE SchemaCollected
  <2>1. entry \in [status: Status, metrics: Nat] /\ entry.status = "success"
    BY <1>11 DEF TypeOK, SchemaCollected, Scope, Doing
  <2>2. /\ entry'.metrics = entry.metrics
        /\ entry'.status = "skipped" => config.metadataOnly
    BY <1>11, <2>1 DEF SchemaCollected, Fail
  <2>3. config.metadataOnly => entry.metrics = 0
    BY <1>11 DEF Scope, Doing, Pending, SchemaCollected
  <2> QED BY <1>1, <1>11, <2>2, <2>3 DEF SchemaCollected, Doing, Pending
<1>12. CASE LogTable
  BY <1>1, <1>12 DEF LogTable, Scope, Doing, Pending, Abort, Fail
<1>13. CASE Close
  BY <1>1, <1>13 DEF Close, Scope, Doing, Pending, Abort, Fail
<1>14. CASE Report
  BY <1>1, <1>14 DEF Report, Scope, Doing, Pending, Abort, Fail
<1>15. CASE WorkerEnds
  BY <1>1, <1>15 DEF WorkerEnds, Scope, Doing, Pending, Abort, Fail
<1>16. CASE BudgetEnds
  BY <1>1, <1>16 DEF BudgetEnds, Scope, Doing, Pending, Abort, Fail
<1> QED BY <1>2, <1>3, <1>4, <1>5, <1>6, <1>7, <1>8, <1>9, <1>10, <1>11, <1>12, <1>13, <1>14,
       <1>15, <1>16 DEF Next, Tick

LEMMA TickLoad == Scope /\ Load /\ [Next]_vars => Load'
<1> SUFFICES ASSUME Scope, Load, [Next]_vars PROVE Load'
  OBVIOUS
<1>1. config' = config /\ \A i : KeptOf(i)' = KeptOf(i)
  BY ConfigStays, ListingsStay
<1>2. CASE UNCHANGED vars
  BY <1>1, <1>2 DEF vars, history, Load
<1>3. CASE ListTables
  BY <1>1, <1>3 DEF ListTables, Load, history
<1>4. CASE ListTimedOut
  BY <1>1, <1>4 DEF ListTimedOut, Load, history
<1>5. CASE ListFailed
  BY <1>1, <1>5 DEF ListFailed, Load, history
<1>6. CASE ListReturned
  BY <1>1, <1>6 DEF ListReturned, Load, history
<1>7. CASE LogDropped
  BY <1>1, <1>7 DEF LogDropped, Load, history
<1>8. CASE NextTable
  BY <1>1, <1>8 DEF NextTable, Load, history
<1>9. CASE CheckSize
  BY <1>1, <1>9 DEF CheckSize, Load, history
<1>10. CASE Scan
  BY <1>1, <1>10 DEF Scan, Load, Scope, Place, Aim, Doing, Within, AtTable, KeptHere
<1>11. CASE SchemaCollected
  BY <1>1, <1>11 DEF SchemaCollected, Load, history
<1>12. CASE LogTable
  BY <1>1, <1>12 DEF LogTable, Load, history
<1>13. CASE Close
  BY <1>1, <1>13 DEF Close, Load, history
<1>14. CASE Report
  BY <1>1, <1>14 DEF Report, Load, history
<1>15. CASE WorkerEnds
  BY <1>1, <1>15 DEF WorkerEnds, Load, history
<1>16. CASE BudgetEnds
  BY <1>1, <1>16 DEF BudgetEnds, Load, history
<1> QED BY <1>2, <1>3, <1>4, <1>5, <1>6, <1>7, <1>8, <1>9, <1>10, <1>11, <1>12, <1>13, <1>14,
       <1>15, <1>16 DEF Next, Tick

LEMMA TickEnded == Ended /\ [Next]_vars => Ended'
<1> SUFFICES ASSUME Ended, [Next]_vars PROVE Ended'
  OBVIOUS
<1>1. CASE UNCHANGED vars
  BY <1>1 DEF vars, counters, store, Ended
<1>2. CASE ListTables
  BY <1>2 DEF ListTables, Ended, counters, store
<1>3. CASE ListTimedOut
  BY <1>3 DEF ListTimedOut, Ended, counters, store
<1>4. CASE ListFailed
  BY <1>4 DEF ListFailed, Ended, counters, store
<1>5. CASE ListReturned
  BY <1>5 DEF ListReturned, Ended, counters, store
<1>6. CASE LogDropped
  BY <1>6 DEF LogDropped, Ended, counters, store
<1>7. CASE NextTable
  BY <1>7 DEF NextTable, Ended, counters, store
<1>8. CASE CheckSize
  BY <1>8 DEF CheckSize, Ended, counters, store
<1>9. CASE Scan
  BY <1>9 DEF Scan, Ended, counters, store
<1>10. CASE SchemaCollected
  BY <1>10 DEF SchemaCollected, Ended, counters, store
<1>11. CASE LogTable
  BY <1>11 DEF LogTable, Ended, counters, store
<1>12. CASE Close
  BY <1>12 DEF Close, Ended, counters, store
<1>13. CASE Report
  BY <1>13 DEF Report, Ended, counters, store
<1>14. CASE WorkerEnds
  BY <1>14 DEF WorkerEnds, Ended, counters, store
<1>15. CASE BudgetEnds
  BY <1>15 DEF BudgetEnds, Ended, counters, store
<1> QED BY <1>1, <1>2, <1>3, <1>4, <1>5, <1>6, <1>7, <1>8, <1>9, <1>10, <1>11, <1>12, <1>13,
       <1>14, <1>15 DEF Next, Tick

------------------------------------------------------------------------------
\* The totals and the rows of the log

\* An outstanding table gets its row and is counted.
Settles(t, status, metrics) ==
  /\ t \in Outstanding /\ status \in Status /\ metrics \in Nat /\ ns \in listed
  /\ count' = Bump(status)
  /\ log' = Append(log, RowOf(t, status, metrics))
  /\ Outstanding' = Outstanding \ {t}
  /\ \A st : Claim(st) = IF status \in st THEN metrics ELSE 0
  /\ pc = "logging" /\ entry.status = "failed" <=> status = "failed"
  /\ pc' \in {"dropping", "tables"}
  /\ UNCHANGED <<config, ns, listed, verdict>>

LEMMA SettlesTotals ==
  ASSUME TypeOK, Totals, Claims, NEW t, NEW status, NEW metrics, Settles(t, status, metrics)
  PROVE  Totals' /\ Claims'
<1> DEFINE row == RowOf(t, status, metrics)
           more == IF status = "skipped" THEN 1 ELSE 0
<1>1. /\ row \in Row /\ row.status = status /\ row.metrics = metrics
      /\ log \in Seq(Row) /\ log' = Append(log, row)
  BY OutstandingIsFinite DEF Settles, RowOf, Row, TypeOK
<1> HIDE DEF row
<1>2. /\ Len(log') = Len(log) + 1
      /\ \A st : Claimed(st) \in Nat /\ Claimed(st)' = Claimed(st) + Worth(row, st)
      /\ \A st : Rows(st)' = Rows(st) \cup IF row.status \in st THEN {Len(log) + 1} ELSE {}
      /\ \A st : Cardinality(Rows(st)') =
                   Cardinality(Rows(st)) + IF row.status \in st THEN 1 ELSE 0
  BY <1>1, RowAdded
<1>3. /\ count'.total = count.total /\ count'.saved = count.saved
      /\ count'.checked + count'.skipped = count.checked + count.skipped + 1
      /\ count'.skipped = count.skipped + more
  BY BumpAdds DEF Settles
<1>4. /\ count.total \in Nat /\ count.checked \in Nat /\ count.skipped \in Nat
      /\ count.saved \in Nat
      /\ count'.total \in Nat /\ count'.checked \in Nat /\ count'.skipped \in Nat
      /\ count'.saved \in Nat
  <2>1. count \in Count /\ count' \in Count
    BY BumpAdds DEF Settles, TypeOK
  <2> QED BY <2>1 DEF Count
<1>5. /\ Cardinality(Outstanding') = Cardinality(Outstanding) - 1
      /\ Cardinality(Outstanding) \in Nat
  BY OutstandingIsFinite, FS_RemoveElement DEF Settles
<1>6. Len(log) \in Nat
  BY <1>1
<1>7. Cardinality(Rows({"skipped"})) \in Nat
  BY <1>1, RowsAreFinite
<1>8. count'.total = count'.checked + count'.skipped + Cardinality(Outstanding')
  <2>1. count.total = count.checked + count.skipped + Cardinality(Outstanding)
    BY DEF Totals
  <2>2. ASSUME NEW a \in Nat, NEW b \in Nat, NEW c \in Nat, NEW d \in Nat,
               NEW x \in Nat, NEW y \in Nat, a = b + c + d, x + y = b + c + 1
        PROVE  a = x + y + (d - 1)
    BY <2>2
  <2> QED BY <1>3, <1>4, <1>5, <2>1, <2>2
<1>9. Len(log') = count'.checked + count'.skipped
  BY <1>2, <1>3, <1>4, <1>6 DEF Totals
<1>10. count'.skipped = Cardinality(Rows({"skipped"})')
  <2>1. Cardinality(Rows({"skipped"})') = Cardinality(Rows({"skipped"})) + more
    BY <1>1, <1>2
  <2> QED BY <1>3, <1>7, <2>1 DEF Totals
<1>11. verdict' = "warning" <=>
         Rows({"failed"})' # {} \/ (pc' = "logging" /\ entry'.status = "failed")
  <2>1. Rows({"failed"})' # {} <=> Rows({"failed"}) # {} \/ status = "failed"
    BY <1>1, <1>2
  <2> QED BY <2>1 DEF Totals, Settles
<1>12. Totals'
  BY <1>8, <1>9, <1>10, <1>11 DEF Totals
<1>13. \A st : Claim(st) = Worth(row, st) /\ Claim(st)' = 0
  BY <1>1 DEF Settles, Worth, Claim, Pending
<1>14. \A st : Claimed(st)' + Claim(st)' = Claimed(st) + Claim(st)
  <2>1. \A st : Worth(row, st) \in Nat
    BY <1>1 DEF Worth, Settles
  <2> SUFFICES ASSUME NEW st PROVE Claimed(st)' + Claim(st)' = Claimed(st) + Claim(st)
    OBVIOUS
  <2>2. Claimed(st)' = Claimed(st) + Worth(row, st) /\ Claimed(st) \in Nat
    BY <1>2
  <2>3. Claim(st) = Worth(row, st) /\ Claim(st)' = 0 /\ Worth(row, st) \in Nat
    BY <1>13, <2>1
  <2> QED BY <2>2, <2>3
<1>15. Claims'
  BY <1>3, <1>14 DEF Claims
<1> QED BY <1>12, <1>15

LEMMA SettlesAccounts ==
  ASSUME TypeOK, Accounts, NEW t, NEW status, NEW metrics, Settles(t, status, metrics)
  PROVE  Accounts'
<1> DEFINE row == RowOf(t, status, metrics)
           n == Len(log) + 1
<1>1. /\ row \in Row /\ row.ns = ns /\ row.table = t
      /\ log \in Seq(Row) /\ log' = Append(log, row) /\ n \in Nat
  BY OutstandingIsFinite DEF Settles, RowOf, Row, TypeOK
<1> HIDE DEF row
<1>2. /\ log' \in Seq(Row) /\ Len(log') = n
      /\ \A i, u : Times(i, u)' = Times(i, u) \cup IF row.ns = i /\ row.table = u THEN {n} ELSE {}
  BY <1>1, RowAdded
<1>3. \A k \in DOMAIN log : k \in DOMAIN log' /\ log'[k] = log[k]
  BY <1>1, AppendProperties
<1>4. log'[n] = row /\ n \in DOMAIN log' /\ \A k \in DOMAIN log' : k \in DOMAIN log \/ k = n
  BY <1>1, <1>2, AppendProperties
<1>5. \A i : TablesOf(i)' = TablesOf(i)
  BY ListingsStay DEF Settles
<1> HIDE DEF n
<1>6. \A k \in DOMAIN log' : log'[k].ns \in listed'
  BY <1>1, <1>3, <1>4 DEF Settles, Accounts
<1>7. ASSUME NEW i \in listed', NEW u \in TablesOf(i)'
      PROVE  IF i = ns' /\ u \in Outstanding' THEN Times(i, u)' = {}
             ELSE \E k \in DOMAIN log' : Times(i, u)' = {k}
  <2>1. i \in listed /\ u \in TablesOf(i) /\ ns' = ns /\ Outstanding' = Outstanding \ {t}
        /\ t \in Outstanding
    BY <1>5, <1>7 DEF Settles
  <2>2. CASE i = ns /\ u = t
    <3>1. Times(i, u) = {}
      BY <2>1, <2>2 DEF Accounts
    <3>2. Times(i, u)' = {n}
      BY <1>1, <1>2, <2>2, <3>1
    <3> QED BY <1>4, <2>1, <2>2, <3>2
  <2>3. CASE ~(i = ns /\ u = t)
    <3>1. Times(i, u)' = Times(i, u)
      BY <1>1, <1>2, <2>3
    <3> QED BY <1>3, <2>1, <2>3, <3>1 DEF Accounts
  <2> QED BY <2>2, <2>3
<1> QED BY <1>6, <1>7 DEF Accounts

\* The rest of the steps leave the log alone.
LEMMA AccountsStay ==
  ASSUME Accounts, UNCHANGED <<config, log, listed>>,
         \/ ns' = ns /\ Outstanding' = Outstanding
         \/ Outstanding = {} /\ Outstanding' = {}
  PROVE  Accounts'
<1>1. /\ \A i : TablesOf(i)' = TablesOf(i)
      /\ \A i, t : Times(i, t)' = Times(i, t)
  BY ListingsStay, LogStays
<1> QED BY <1>1 DEF Accounts

\* A step that settles no table: it stores `more` metrics at most.
Owed == pc = "logging" /\ entry.status = "failed"
Quiet(more) ==
  /\ more \in Nat
  /\ count'.total = count.total /\ count'.checked = count.checked
  /\ count'.skipped = count.skipped /\ count'.saved = count.saved + more
  /\ Claim({"success"})' <= Claim({"success"}) + more
  /\ Claim(Status)' >= Claim(Status) + more
  /\ Owed' => verdict' = "warning"
  /\ ~Owed' => verdict' = verdict /\ ~Owed
  /\ Outstanding' = Outstanding /\ (ns' = ns \/ Outstanding = {})
  /\ UNCHANGED <<config, log, listed>>

LEMMA ClaimsAreNumbers == ASSUME TypeOK, NEW st PROVE Claim(st) \in Nat
BY DEF TypeOK, Claim

LEMMA ClaimsAreNumbersNext == ASSUME TypeOK', NEW st PROVE Claim(st)' \in Nat
BY DEF TypeOK, Claim

LEMMA QuietBooks ==
  ASSUME TypeOK, TypeOK', Totals, Claims, Accounts, NEW more, Quiet(more)
  PROVE  Totals' /\ Claims' /\ Accounts'
<1>1. /\ \A st : Rows(st)' = Rows(st) /\ Claimed(st)' = Claimed(st)
      /\ \A i, t : Times(i, t)' = Times(i, t)
  BY LogStays DEF Quiet
<1>2. \A st : Claimed(st) \in Nat
  <2>1. log \in Seq(Row)
    BY DEF TypeOK
  <2> SUFFICES ASSUME NEW st PROVE Claimed(st) \in Nat
    OBVIOUS
  <2>2. PICK f \in [0 .. Len(log) -> Nat] : SumOf(log, st) = f[Len(log)]
    BY <2>1, SumIsFold
  <2> QED BY <2>1, <2>2, ClaimedIsSum
<1>3. Cardinality(Outstanding') = Cardinality(Outstanding)
  BY DEF Quiet
<1>4. Totals'
  <2>1. verdict' = "warning" <=> Rows({"failed"})' # {} \/ Owed'
    <3>1. verdict = "warning" <=> Rows({"failed"}) # {} \/ Owed
      BY DEF Totals, Owed
    <3>2. (Owed' => verdict' = "warning") /\ (~Owed' => verdict' = verdict /\ ~Owed)
      BY DEF Quiet
    <3>3. Rows({"failed"})' = Rows({"failed"})
      BY <1>1
    <3> QED BY <3>1, <3>2, <3>3
  <2>2. (Len(log))' = Len(log)
    BY DEF Quiet
  <2> QED BY <1>1, <1>3, <2>1, <2>2 DEF Totals, Quiet, Owed
<1>5. Claims'
  <2>1. count.saved \in Nat
    BY DEF TypeOK, Count
  <2>2. \A st : Claim(st) \in Nat /\ Claim(st)' \in Nat
    BY ClaimsAreNumbers, ClaimsAreNumbersNext
  <2>3. /\ Claim({"success"})' <= Claim({"success"}) + more
        /\ Claim(Status)' >= Claim(Status) + more
        /\ count'.saved = count.saved + more /\ more \in Nat
    BY DEF Quiet
  <2>4. Claimed({"success"})' = Claimed({"success"}) /\ Claimed(Status)' = Claimed(Status)
    BY <1>1
  <2>5. /\ Claimed({"success"}) + Claim({"success"}) <= count.saved
        /\ count.saved <= Claimed(Status) + Claim(Status)
    BY DEF Claims
  <2>6. Claimed({"success"})' + Claim({"success"})' <= count'.saved
    BY <1>2, <2>1, <2>2, <2>3, <2>4, <2>5
  <2>7. Status' = Status
    BY DEF Status
  <2>8. count'.saved <= Claimed(Status)' + Claim(Status)'
    BY <1>2, <2>1, <2>2, <2>3, <2>4, <2>5
  <2> QED BY <2>6, <2>7, <2>8 DEF Claims
<1>6. Accounts'
  <2>1. UNCHANGED <<config, log, listed>>
    BY DEF Quiet
  <2>2. \/ ns' = ns /\ Outstanding' = Outstanding
        \/ Outstanding = {} /\ Outstanding' = {}
    BY DEF Quiet
  <2> QED BY <2>1, <2>2, AccountsStay
<1> QED BY <1>4, <1>5, <1>6

\* The three steps that log a row.
LEMMA LogDroppedSettles ==
  ASSUME TypeOK, Scope, LogDropped, Alive', drops # {}
  PROVE  \E t \in drops : Settles(t, "skipped", 0)
<1>1. PICK t \in drops : /\ Log(RowOf(t, "skipped", 0)) /\ drops' = drops \ {t}
                         /\ UNCHANGED <<pc, verdict>>
  BY DEF LogDropped, Abort, Alive
<1>2. pc = "dropping" /\ pc' = "dropping" /\ todo' = todo
  BY <1>1 DEF LogDropped
<1>3. t \notin todo /\ ns \in listed
  BY <1>2 DEF Scope, Place, Aim, Within
<1>4. Outstanding = drops \cup todo /\ Outstanding' = (drops \ {t}) \cup todo
  BY <1>1, <1>2 DEF Outstanding, Here, AtTable
<1>5. count' = Bump("skipped")
  BY BumpAdds DEF LogDropped, Status
<1>6. \A st : Claim(st) = 0
  BY <1>2 DEF Claim, Pending
<1> QED BY <1>1, <1>2, <1>3, <1>4, <1>5, <1>6 DEF Settles, Log, LogDropped, history, Status

LEMMA CheckSizeSettles ==
  ASSUME TypeOK, Scope, CheckSize, Alive', table \in Large
  PROVE  Settles(table, "skipped", 0)
<1>1. /\ pc = "size" /\ pc' = "tables" /\ verdict' = verdict
      /\ Log(RowOf(table, "skipped", 0)) /\ count' = [count EXCEPT !.skipped = @ + 1]
      /\ UNCHANGED <<config, ns, drops, todo, table, listed>>
  BY DEF CheckSize, Abort, Alive, history
<1>2. table \notin todo /\ ns \in listed /\ drops = {}
  BY <1>1 DEF Scope, Place, Aim, Within, AtTable
<1>3. Outstanding = todo \cup {table} /\ Outstanding' = todo
  BY <1>1, <1>2 DEF Outstanding, Here, AtTable
<1>4. count' = Bump("skipped")
  BY <1>1, BumpAdds DEF Status
<1>5. \A st : Claim(st) = 0
  BY <1>1 DEF Claim, Pending
<1> QED BY <1>1, <1>2, <1>3, <1>4, <1>5 DEF Settles, Log, Status

LEMMA LogTableSettles ==
  ASSUME TypeOK, Scope, LogTable, Alive'
  PROVE  Settles(table, entry.status, entry.metrics)
<1>1. /\ pc = "logging" /\ pc' = "tables" /\ verdict' = verdict
      /\ Log(RowOf(table, entry.status, entry.metrics)) /\ count' = Bump(entry.status)
      /\ UNCHANGED <<config, ns, drops, todo, table, listed>>
  BY DEF LogTable, Abort, Alive, history
<1>2. table \notin todo /\ ns \in listed /\ drops = {}
  BY <1>1 DEF Scope, Place, Aim, Within, AtTable
<1>3. Outstanding = todo \cup {table} /\ Outstanding' = todo
  BY <1>1, <1>2 DEF Outstanding, Here, AtTable
<1>4. entry.status \in Status /\ entry.metrics \in Nat
  BY DEF TypeOK
<1>5. \A st : Claim(st) = IF entry.status \in st THEN entry.metrics ELSE 0
  BY <1>1 DEF Claim, Pending
<1> QED BY <1>1, <1>2, <1>3, <1>4, <1>5 DEF Settles, Log

\* The others settle none.
LEMMA QuietSteps ==
  ASSUME TypeOK, TypeOK', Scope, Totals, [Next]_vars, Alive',
         ~ListReturned, ~LogTable, ~Scan,
         LogDropped => drops = {}, CheckSize => table \notin Large
  PROVE  Quiet(0)
<1>1. /\ count.total \in Nat /\ count.checked \in Nat /\ count.skipped \in Nat
      /\ count.saved \in Nat /\ entry.metrics \in Nat /\ entry'.metrics \in Nat
      /\ entry.status \in Status /\ entry'.status \in Status
  BY DEF TypeOK, Count
<1>2. /\ pc \notin {"closing", "reporting", "done"} => Alive
      /\ Owed => verdict = "warning"
  BY DEF Scope, Place, Totals, Owed
<1>3. CASE UNCHANGED vars
  BY <1>1, <1>2, <1>3 DEF vars, counters, store, history, Quiet, Owed, Outstanding, Here, AtTable,
     Claim, Pending
<1>4. CASE ListTables
  <2>1. Outstanding = {} /\ Outstanding' = {}
    BY <1>4 DEF ListTables, Outstanding, Here, AtTable, Within, Scope, Place, Aim
  <2>2. ~Pending /\ ~Pending' /\ ~Owed /\ ~Owed'
    BY <1>4 DEF ListTables, Pending, Owed
  <2> QED BY <2>1, <2>2, <1>1, <1>4 DEF ListTables, Quiet, Claim, counters, store, history
<1>5. CASE ListTimedOut
  <2>1. Outstanding = {} /\ Outstanding' = {}
    BY <1>5 DEF ListTimedOut, Outstanding, Here, AtTable, Within, Scope, Place, Aim
  <2>2. ~Pending /\ ~Pending' /\ ~Owed /\ ~Owed'
    BY <1>5 DEF ListTimedOut, Pending, Owed
  <2> QED BY <2>1, <2>2, <1>1, <1>5 DEF ListTimedOut, Quiet, Claim, counters, store, history
<1>6. CASE ListFailed
  BY <1>6 DEF ListFailed, Abort, Alive
<1>7. CASE LogDropped
  <2>1. drops = {}
    BY <1>7
  <2>2. ~Pending /\ ~Pending' /\ ~Owed /\ ~Owed'
    BY <2>1, <1>7 DEF LogDropped, Pending, Owed
  <2>3. Outstanding' = Outstanding
    BY <2>1, <1>7 DEF LogDropped, Outstanding, Here, AtTable
  <2> QED BY <2>1, <2>2, <2>3, <1>1, <1>7 DEF LogDropped, Quiet, Claim, history
<1>8. CASE NextTable
  <2>1. drops = {} /\ drops' = {} /\ pc = "tables" /\ Here = {}
    BY <1>8 DEF NextTable, Scope, Aim, Within, Here, AtTable
  <2>2. CASE todo = {}
    <3>1. Outstanding = {} /\ Outstanding' = {}
      BY <2>1, <2>2, <1>8 DEF NextTable, Outstanding, Here, AtTable
    <3>2. ~Pending /\ ~Pending' /\ ~Owed /\ ~Owed'
      BY <2>2, <1>8 DEF NextTable, Pending, Owed
    <3> QED BY <3>1, <3>2, <1>1, <1>8 DEF NextTable, Quiet, Claim, counters, store, history
  <2>3. CASE todo # {}
    <3>1. First(todo) \in todo
      BY <2>3, FirstIsOne, TablesAreFinite DEF TypeOK
    <3>2. Here' = {First(todo)} /\ todo' = todo \ {First(todo)} /\ ns' = ns
      BY <2>3, <1>8 DEF NextTable, Here, AtTable
    <3>3. Outstanding' = Outstanding
      BY <2>1, <3>1, <3>2 DEF Outstanding
    <3>4. ~Pending /\ ~Owed /\ ~Owed' /\ entry'.metrics = 0
      BY <2>3, <1>8 DEF NextTable, Pending, Owed
    <3>5. \A st : Claim(st) = 0 /\ Claim(st)' = 0
      BY <3>4 DEF Claim
    <3>6. UNCHANGED <<config, count, verdict, log, listed>>
      BY <1>8 DEF NextTable, counters, store, history
    <3> QED BY <3>2, <3>3, <3>4, <3>5, <3>6, <1>1 DEF Quiet
  <2> QED BY <2>2, <2>3
<1>9. CASE CheckSize
  <2>1. /\ pc = "size" /\ pc' = "scan"
        /\ UNCHANGED <<count, verdict, log, config, ns, drops, todo, table, listed>>
    BY <1>9 DEF CheckSize, Abort, Alive, history
  <2>2. ~Pending /\ ~Pending' /\ ~Owed /\ ~Owed'
    BY <2>1 DEF Pending, Owed
  <2>3. Outstanding' = Outstanding
    BY <2>1 DEF Outstanding, Here, AtTable
  <2> QED BY <2>1, <2>2, <2>3, <1>1 DEF Quiet, Claim
<1>10. CASE SchemaCollected
  <2>1. /\ pc = "schema" /\ pc' = "logging" /\ entry.status = "success"
        /\ UNCHANGED <<count, log, config, ns, drops, todo, table, listed>>
    BY <1>10 DEF SchemaCollected, store, history, Scope, Doing
  <2>2. entry \in [status: Status, metrics: Nat] /\ entry' \in [status: Status, metrics: Nat]
    BY DEF TypeOK
  <2>3. /\ entry'.metrics = entry.metrics
        /\ entry'.status = "failed" => verdict' = "warning"
        /\ entry'.status # "failed" => verdict' = verdict
    BY <1>10, <2>1, <2>2 DEF SchemaCollected, Fail
  <2>4. Outstanding' = Outstanding
    BY <2>1 DEF Outstanding, Here, AtTable
  <2>5. Claim({"success"})' <= Claim({"success"}) + 0 /\ Claim(Status)' >= Claim(Status) + 0
    BY <2>1, <2>3, <1>1 DEF Claim, Pending, Status
  <2> QED BY <2>1, <2>3, <2>4, <2>5, <1>1 DEF Quiet, Owed
<1>11. CASE Close
  <2>1. ~Pending /\ ~Pending' /\ ~Owed /\ ~Owed'
    BY <1>11 DEF Close, Pending, Owed
  <2>2. Outstanding' = Outstanding
    BY <1>11 DEF Close, Outstanding, Here, AtTable
  <2> QED BY <2>1, <2>2, <1>1, <1>11 DEF Close, Quiet, Claim, counters, store, history
<1>12. CASE Report
  <2>1. ~Pending /\ ~Pending' /\ ~Owed /\ ~Owed'
    BY <1>12 DEF Report, Pending, Owed
  <2>2. Outstanding' = Outstanding
    BY <1>12 DEF Report, Outstanding, Here, AtTable
  <2> QED BY <2>1, <2>2, <1>1, <1>12 DEF Report, Quiet, Claim, counters, store, history
<1>13. CASE WorkerEnds
  BY <1>1, <1>2, <1>13 DEF WorkerEnds, counters, store, history, Quiet, Owed, Outstanding, Here,
     AtTable, Claim, Pending
<1>14. CASE BudgetEnds
  BY <1>1, <1>2, <1>14 DEF BudgetEnds, counters, store, history, Quiet, Owed, Outstanding, Here,
     AtTable, Claim, Pending
<1> QED BY <1>3, <1>4, <1>5, <1>6, <1>7, <1>8, <1>9, <1>10, <1>11, <1>12, <1>13, <1>14 DEF Next,
       Tick

LEMMA ScanIsQuiet ==
  ASSUME TypeOK, TypeOK', Scope, Scan
  PROVE  \E more : Quiet(more)
<1>1. PICK n \in 0 .. MaxMetrics :
        \/ /\ entry' = [status |-> "success", metrics |-> n]
           /\ count' = [count EXCEPT !.saved = @ + n]
           /\ pc' = "schema" /\ UNCHANGED verdict
        \/ Fail(n) /\ pc' = "logging" /\ UNCHANGED count
  BY DEF Scan
<1>2. n \in Nat
  BY ConstantsAssumption
<1>3. /\ pc = "scan" /\ pc' \in {"schema", "logging"}
      /\ UNCHANGED <<log, config, ns, drops, todo, table, listed>>
  BY DEF Scan, store
<1>4. Outstanding' = Outstanding
  BY <1>3 DEF Outstanding, Here, AtTable
<1>5. /\ count \in Count /\ count.total \in Nat /\ count.checked \in Nat
      /\ count.skipped \in Nat /\ count.saved \in Nat
  BY DEF TypeOK, Count
<1>6. \A st : Claim(st) = 0
  BY <1>3 DEF Claim, Pending
<1>7. CASE /\ entry' = [status |-> "success", metrics |-> n]
           /\ count' = [count EXCEPT !.saved = @ + n]
           /\ pc' = "schema" /\ UNCHANGED verdict
  <2>1. /\ count'.total = count.total /\ count'.checked = count.checked
        /\ count'.skipped = count.skipped /\ count'.saved = count.saved + n
    BY <1>5, <1>7 DEF Count
  <2>2. Claim({"success"})' = n /\ Claim(Status)' = n
    BY <1>7 DEF Claim, Pending, Status
  <2> QED BY <1>2, <1>3, <1>4, <1>6, <1>7, <2>1, <2>2 DEF Quiet, Owed
<1>8. CASE Fail(n) /\ pc' = "logging" /\ UNCHANGED count
  <2>1. Claim({"success"})' = 0 /\ Claim(Status)' = n
    BY <1>8 DEF Claim, Pending, Status, Fail
  <2>2. Quiet(0)
    BY <1>2, <1>3, <1>4, <1>5, <1>6, <1>8, <2>1 DEF Quiet, Owed, Fail
  <2> QED BY <2>2
<1> QED BY <1>1, <1>7, <1>8

\* A listing opens an account for each of its tables.
LEMMA ListReturnedBooks ==
  ASSUME TypeOK, Scope, Totals, Claims, Accounts, ListReturned
  PROVE  Totals' /\ Claims' /\ Accounts'
<1>1. /\ pc = "listing" /\ pc' = "dropping" /\ Alive /\ ns \notin listed
      /\ UNCHANGED <<config, ns, table, entry, verdict, log, run>> /\ listed' = listed \cup {ns}
      /\ drops' = TablesHere \ KeptHere /\ todo' = KeptHere
      /\ count' = [count EXCEPT !.total = (@ + Cardinality(KeptHere))
                                            + Cardinality(TablesHere \ KeptHere)]
  BY DEF ListReturned, Scope, Place, Within, AtTable, store, TablesHere, KeptHere, KeptOf, TablesOf
<1>2. TablesHere \subseteq Table /\ KeptHere \subseteq TablesHere
  BY <1>1, ListingsAreTables, KeptAreSome DEF Scope, Place, TablesHere, KeptHere, KeptOf, TypeOK
<1>3. Outstanding = {} /\ Outstanding' = TablesHere
  BY <1>1, <1>2 DEF Outstanding, Here, AtTable, Within, Scope, Aim
<1>4. Cardinality(TablesHere) = Cardinality(KeptHere) + Cardinality(TablesHere \ KeptHere)
  <2> DEFINE S == KeptHere
             T == TablesHere \ KeptHere
  <2>1. IsFiniteSet(S) /\ IsFiniteSet(T) /\ S \cap T = {} /\ S \cup T = TablesHere
        /\ Cardinality(S) \in Nat /\ Cardinality(T) \in Nat
    BY <1>2, TablesAreFinite
  <2>2. Cardinality(S \cup T) = Cardinality(S) + Cardinality(T) - Cardinality(S \cap T)
    BY <2>1, FS_Union
  <2> QED BY <2>1, <2>2, FS_EmptySet
<1>5. /\ Cardinality(KeptHere) \in Nat /\ Cardinality(TablesHere \ KeptHere) \in Nat
  BY <1>2, TablesAreFinite
<1>6. /\ count \in Count /\ count.total \in Nat /\ count.checked \in Nat
      /\ count.skipped \in Nat /\ count.saved \in Nat
  BY DEF TypeOK, Count
<1>7. /\ count'.total = count.total + Cardinality(TablesHere)
      /\ count'.checked = count.checked /\ count'.skipped = count.skipped
      /\ count'.saved = count.saved
  BY <1>1, <1>4, <1>5, <1>6 DEF Count
<1>8. /\ \A st : Rows(st)' = Rows(st) /\ Claimed(st)' = Claimed(st)
      /\ \A i, t : Times(i, t)' = Times(i, t)
  BY <1>1, LogStays
<1>9. Totals'
  <2>1. count.total = count.checked + count.skipped + 0
    BY <1>3, FS_EmptySet DEF Totals
  <2>2. count'.total = count'.checked + count'.skipped + Cardinality(Outstanding')
    BY <1>3, <1>4, <1>5, <1>6, <1>7, <2>1
  <2> QED BY <1>1, <1>7, <1>8, <2>2 DEF Totals
<1>10. Claims'
  <2>1. \A st : Claim(st) = 0 /\ Claim(st)' = 0
    BY <1>1 DEF Claim, Pending
  <2> QED BY <1>7, <1>8, <2>1 DEF Claims, Status
<1>11. Accounts'
  <2>1. \A i : TablesOf(i)' = TablesOf(i)
    BY <1>1, ListingsStay
  <2>2. ASSUME NEW t PROVE Times(ns, t) = {}
    BY <1>1 DEF Times, Accounts
  <2>3. \A k \in DOMAIN log' : log'[k].ns \in listed'
    BY <1>1 DEF Accounts
  <2>4. ASSUME NEW i \in listed', NEW t \in TablesOf(i)'
        PROVE  IF i = ns' /\ t \in Outstanding' THEN Times(i, t)' = {}
               ELSE \E k \in DOMAIN log' : Times(i, t)' = {k}
    <3>1. CASE i = ns
      BY <1>1, <1>3, <1>8, <2>1, <2>2, <2>4, <3>1 DEF TablesHere
    <3>2. CASE i # ns
      <4>1. i \in listed /\ t \in TablesOf(i)
        BY <1>1, <2>1, <2>4, <3>2
      <4>2. \E k \in DOMAIN log : Times(i, t) = {k}
        BY <3>2, <4>1 DEF Accounts
      <4> QED BY <1>1, <1>8, <3>2, <4>2
    <3> QED BY <3>1, <3>2
  <2> QED BY <2>3, <2>4 DEF Accounts
<1> QED BY <1>9, <1>10, <1>11

LEMMA TickBooks ==
  ASSUME TypeOK, TypeOK', Scope, Totals, Claims, Accounts, [Next]_vars, Alive'
  PROVE  Totals' /\ Claims' /\ Accounts'
<1>1. CASE ListReturned
  BY <1>1, ListReturnedBooks
<1>2. CASE LogTable
  <2>1. Settles(table, entry.status, entry.metrics)
    BY <1>2, LogTableSettles
  <2> QED BY <2>1, SettlesTotals, SettlesAccounts
<1>3. CASE Scan
  <2>1. PICK more : Quiet(more)
    BY <1>3, ScanIsQuiet
  <2> QED BY <2>1, QuietBooks
<1>4. CASE LogDropped /\ drops # {}
  <2>1. PICK t \in drops : Settles(t, "skipped", 0)
    BY <1>4, LogDroppedSettles
  <2> QED BY <2>1, SettlesTotals, SettlesAccounts
<1>5. CASE CheckSize /\ table \in Large
  <2>1. Settles(table, "skipped", 0)
    BY <1>5, CheckSizeSettles
  <2> QED BY <2>1, SettlesTotals, SettlesAccounts
<1>6. CASE /\ ~ListReturned /\ ~LogTable /\ ~Scan
           /\ ~(LogDropped /\ drops # {}) /\ ~(CheckSize /\ table \in Large)
  <2>1. Quiet(0)
    BY <1>6, QuietSteps
  <2> QED BY <2>1, QuietBooks
<1> QED BY <1>1, <1>2, <1>3, <1>4, <1>5, <1>6

LEMMA TickCollects ==
  ASSUME TypeOK, Scope, Collects, [Next]_vars, Alive'
  PROVE  Collects'
<1>1. config' = config /\ \A i : KeptOf(i)' = KeptOf(i)
  BY ConfigStays, ListingsStay
<1>2. verdict' # "failed"
  BY DEF Alive
<1>3. CASE UNCHANGED vars
  BY <1>1, <1>3 DEF vars, history, Collects, Unscanned
<1>4. CASE ListTables
  BY <1>1, <1>4 DEF ListTables, Collects, Unscanned, history
<1>5. CASE ListTimedOut
  <2>1. Unscanned = {}
    BY <1>5 DEF ListTimedOut, Unscanned, Scope, Place, Aim, Within, AtTable
  <2> QED BY <1>1, <2>1, <1>5 DEF ListTimedOut, Collects, history
<1>6. CASE ListFailed
  BY <1>1, <1>2, <1>6 DEF ListFailed, Collects, Unscanned, history, Alive, Abort
<1>7. CASE ListReturned
  <2>1. /\ ns \notin listed /\ listed' = listed \cup {ns} /\ todo' = KeptHere
        /\ ns' = ns /\ heavy' = heavy
    BY <1>7 DEF ListReturned, Scope, Place, Within, AtTable, KeptHere, KeptOf, TablesOf
  <2> QED BY <1>1, <2>1 DEF Collects, Unscanned, KeptHere
<1>8. CASE LogDropped
  <2>1. Unscanned' = Unscanned /\ UNCHANGED <<ns, heavy, listed>>
    BY <1>2, <1>8 DEF LogDropped, Unscanned, history, Abort, Alive
  <2> QED BY <1>1, <2>1 DEF Collects
<1>9. CASE NextTable
  <2>1. CASE todo = {}
    <3>1. Unscanned = {}
      BY <2>1, <1>9 DEF NextTable, Unscanned
    <3> QED BY <1>1, <3>1, <1>9 DEF NextTable, Collects, history
  <2>2. CASE todo # {} /\ ~config.metadataOnly
    <3>1. First(todo) \in todo
      BY <2>2, FirstIsOne, TablesAreFinite DEF TypeOK
    <3>2. Unscanned \subseteq Unscanned' /\ ns' = ns
      BY <2>2, <3>1, <1>9 DEF NextTable, Unscanned
    <3> QED BY <1>1, <3>2, <1>9 DEF NextTable, Collects, history
  <2>3. CASE config.metadataOnly
    BY <1>1, <2>3 DEF Collects
  <2> QED BY <2>1, <2>2, <2>3
<1>10. CASE CheckSize
  <2>1. /\ pc = "size" /\ config.sizeLimit
        /\ UNCHANGED <<ns, todo, table, heavy, listed>>
        /\ table \in Large \/ pc' = "scan"
    BY <1>2, <1>10 DEF CheckSize, history, Scope, Doing, Abort, Alive
  <2>2. Unscanned \subseteq Unscanned' \/ (Unscanned \subseteq Unscanned' \cup {table} /\ table \in Large)
    BY <2>1 DEF Unscanned
  <2> QED BY <1>1, <2>1, <2>2 DEF Collects
<1>11. CASE Scan
  <2>1. /\ heavy' = heavy \cup {<<ns, table>>} /\ UNCHANGED <<ns, todo, table, listed>>
        /\ Unscanned \subseteq Unscanned' \cup {table}
    BY <1>11 DEF Scan, Unscanned
  <2> QED BY <1>1, <2>1 DEF Collects
<1>12. CASE SchemaCollected
  BY <1>1, <1>2, <1>12 DEF SchemaCollected, Collects, Unscanned, history, Alive, Abort
<1>13. CASE LogTable
  BY <1>1, <1>2, <1>13 DEF LogTable, Collects, Unscanned, history, Alive, Abort
<1>14. CASE Close
  BY <1>1, <1>2, <1>14 DEF Close, Collects, Unscanned, history, Alive, Abort
<1>15. CASE Report
  BY <1>1, <1>2, <1>15 DEF Report, Collects, Unscanned, history, Alive, Abort
<1>16. CASE WorkerEnds
  BY <1>1, <1>2, <1>16 DEF WorkerEnds, Collects, Unscanned, history, Alive, Abort
<1>17. CASE BudgetEnds
  BY <1>1, <1>2, <1>17 DEF BudgetEnds, Collects, Unscanned, history, Alive, Abort
<1> QED BY <1>3, <1>4, <1>5, <1>6, <1>7, <1>8, <1>9, <1>10, <1>11, <1>12, <1>13, <1>14, <1>15,
       <1>16, <1>17 DEF Next, Tick

LEMMA TickStep == TickInv /\ [Next]_vars => TickInv'
<1> SUFFICES ASSUME TickInv, [Next]_vars PROVE TickInv'
  OBVIOUS
<1>1. TypeOK /\ Scope /\ Load /\ Ended
  BY DEF TickInv
<1>2. TypeOK'
  BY <1>1, TickTypes
<1>3. Scope'
  BY <1>1, TickPlace, TickAim, TickDoing DEF Scope
<1>4. Load' /\ Ended'
  BY <1>1, TickLoad, TickEnded
<1>5. ASSUME Alive' PROVE Books'
  <2>1. Alive /\ Books
    BY <1>1, <1>5, AliveBefore DEF TickInv
  <2>2. Totals' /\ Claims' /\ Accounts'
    BY <1>1, <1>2, <1>5, <2>1, TickBooks DEF Books
  <2>3. Collects'
    BY <1>1, <1>5, <2>1, TickCollects DEF Books
  <2> QED BY <2>2, <2>3 DEF Books
<1> QED BY <1>2, <1>3, <1>4, <1>5 DEF TickInv

\* What the invariant says of a run that was not cut short, once it is closed.
LEMMA TickSound == TickInv => RunAddsUp
<1> SUFFICES ASSUME TickInv PROVE RunAddsUp
  OBVIOUS
<1>1. TypeOK /\ Scope /\ Load
  BY DEF TickInv
<1>2. Completed => /\ Books /\ run.status = verdict /\ run.count = count
                   /\ Outstanding = {} /\ ~Pending /\ Unscanned = {}
  BY DEF TickInv, Ended, Completed, Alive, Outstanding, Here, Pending, Unscanned, AtTable, Within,
         Scope, Aim
<1>3. RunMatchesRows
  <2> SUFFICES ASSUME Completed
               PROVE  /\ run.count.total = run.count.checked + run.count.skipped
                      /\ run.count.total = Len(log)
                      /\ run.count.skipped = Cardinality(Rows({"skipped"}))
                      /\ run.status = "warning" <=> Rows({"failed"}) # {}
                      /\ Claimed({"success"}) <= run.count.saved
                      /\ run.count.saved <= Claimed(Status)
    BY DEF RunMatchesRows
  <2>1. Totals /\ Claims /\ run.status = verdict /\ run.count = count
    BY <1>2 DEF Books
  <2>2. Cardinality(Outstanding) = 0 /\ \A st : Claim(st) = 0
    BY <1>2, FS_EmptySet DEF Claim
  <2>3. count.total \in Nat /\ count.checked \in Nat /\ count.skipped \in Nat
    BY <1>1 DEF TypeOK, Count
  <2>4. count.total = count.checked + count.skipped
    BY <2>1, <2>2, <2>3 DEF Totals
  <2>5. verdict = "warning" <=> Rows({"failed"}) # {}
    BY <1>2, <2>1 DEF Totals, Pending
  <2>6. Claimed({"success"}) + 0 <= count.saved /\ count.saved <= Claimed(Status) + 0
    BY <2>1, <2>2 DEF Claims
  <2>7. Claimed({"success"}) \in Nat /\ Claimed(Status) \in Nat
    BY <1>1, ClaimedIsNumber DEF TypeOK
  <2> QED BY <2>1, <2>4, <2>5, <2>6, <2>7 DEF Totals
<1>4. EveryTableAccounted
  <2> SUFFICES ASSUME Completed, NEW i \in listed, NEW t \in TablesOf(i)
               PROVE  Cardinality(Times(i, t)) = 1
    BY DEF EveryTableAccounted, TablesOf, Times
  <2>1. \E k \in DOMAIN log : Times(i, t) = {k}
    BY <1>2 DEF Books, Accounts
  <2> QED BY <2>1, FS_Singleton
<1>5. LoadIsBounded
  BY <1>1 DEF Load, LoadIsBounded, KeptOf, Kept, TablesOf
<1>6. WantedIsCollected
  <2> SUFFICES ASSUME Completed, ~config.metadataOnly, NEW i \in listed,
                      NEW t \in Wanted(config, TablesOf(i)),
                      Cardinality({u \in Wanted(config, TablesOf(i)) : u < t}) < config.cap
               PROVE  <<i, t>> \in heavy \/ (config.sizeLimit /\ t \in Large)
    BY DEF WantedIsCollected, TablesOf
  <2>1. t \in KeptOf(i)
    BY DEF KeptOf, Kept
  <2> QED BY <1>2, <2>1 DEF Books, Collects
<1> QED BY <1>1, <1>3, <1>4, <1>5, <1>6 DEF RunAddsUp, ScopeIsRespected

\* A completed run says of itself what it did and what its owner asked for: its
\* totals are those of its rows, each listed table has one row, and the filters
\* bound what is scanned both ways (collect_for_connection).
THEOREM RunsAlwaysAddUp == Spec => []RunAddsUp
<1>1. Spec => []TickInv
  BY TickInit, TickStep, PTL DEF Spec
<1> QED BY <1>1, TickSound, PTL

------------------------------------------------------------------------------
\* What is measured of a table, and shown

MeasureFields == {"pc", "mode", "rows", "columns", "counts", "rate", "still"}
PageFields == {"pc", "rows", "rate", "badge", "by", "counts"}
TableFields == {"columns", "nulls", "live", "deleted", "entries", "equality", "counted",
                "estimate", "analyzed"}

\* A row that is deleted is not live, and has an entry of its own unless some are
\* by equality; what ANALYZE found are rates.
IsTable(t) ==
  /\ DOMAIN t = TableFields
  /\ t.columns \subseteq Column /\ t.live \subseteq Tuple /\ t.deleted \subseteq Tuple
  /\ t.live \cap t.deleted = {}
  /\ ~t.equality => t.entries = Cardinality(t.deleted)
  /\ t.analyzed # None => t.analyzed \in [Column -> 0 .. 100]

\* What the tick has in hand.
InHand ==
  /\ measure.columns \subseteq Column
  /\ measure.rate # None => measure.rate \in 0 .. 100
  /\ measure.pc # "saving" => measure.rate = None
  /\ measure.pc = "counting" => measure.columns # {} /\ engine # "iceberg"

\* As long as the table holds still, it is what the tick has found it to be.
HeldStill ==
  measure.still =>
    /\ measure.pc \in {"columns", "counting", "saving"} =>
         /\ monitored # None
         /\ TellsRows(monitored) => measure.rows = Cardinality(monitored.live)
    /\ measure.pc = "counting" => measure.columns = monitored.columns
    /\ /\ measure.pc = "saving" /\ engine # "iceberg"
       /\ measure.mode = "full" /\ measure.rate # None
       => measure.rate = Truth.rate

\* The mode as a tag.
TagOf(mode) == IF mode = "full" THEN None ELSE mode

\* A measurement that was saved.
IsExact(b) ==
  /\ b.rate # None => b.rate \in 0 .. 100
  /\ b.source = TagOf(b.truth.by)
  /\ b.truth.table # None =>
       /\ b.truth.table.rows # None => b.rows = b.truth.table.rows
       /\ engine # "iceberg" /\ b.truth.by = "full" /\ b.rate # None
          => b.rate = b.truth.table.rate

MeasureInv ==
  /\ DOMAIN measure = MeasureFields /\ DOMAIN shown = PageFields
  /\ monitored # None => IsTable(monitored)
  /\ InHand
  /\ HeldStill
  /\ batches \in Seq(Range(batches)) /\ \A b \in Range(batches) : IsExact(b)
  /\ shown.rate # None => shown.badge = TagOf(shown.by)

\* What part of some things is so is a rate.
LEMMA PercentBound ==
  ASSUME NEW S, IsFiniteSet(S), NEW T \in SUBSET S
  PROVE  Percent(Cardinality(T), Cardinality(S)) \in 0 .. 100
<1> DEFINE n == Cardinality(T)
           d == Cardinality(S)
<1>1. n \in Nat /\ d \in Nat /\ n <= d
  BY FS_Subset, FS_CardinalityType
<1> HIDE DEF n, d
<1>2. CASE d = 0
  BY <1>2 DEF Percent, n, d
<1>3. CASE d # 0
  <2>1. 100 * n \in Nat /\ 100 * n <= 100 * d
    BY <1>1
  <2>2. (100 * n) \div d \in 0 .. 100
    BY <1>1, <1>3, <2>1, DivBound
  <2> QED BY <1>3, <2>2 DEF Percent, n, d
<1> QED BY <1>2, <1>3

\* The mean of rates is a rate.
LEMMA MeanBound ==
  ASSUME NEW C, IsFiniteSet(C), C # {}, NEW f \in [C -> 0 .. 100]
  PROVE  Mean(f) \in 0 .. 100
<1> DEFINE s == SumFunction(f)
           d == Cardinality(C)
<1>1. d \in Nat /\ d # 0
  BY FS_CardinalityType, FS_EmptySet
<1>2. s \in Nat /\ s <= 100 * d
  <2>1. f \in [C -> Nat] /\ \A x \in C : f[x] <= 100
    OBVIOUS
  <2>2. 100 \in Nat
    OBVIOUS
  <2> QED BY <2>1, <2>2, SumBound
<1>3. DOMAIN f = C
  OBVIOUS
<1> HIDE DEF s, d
<1>4. s \div d \in 0 .. 100
  BY <1>1, <1>2, DivBound
<1> QED BY <1>3, <1>4 DEF Mean, s, d

LEMMA RateBound ==
  ASSUME NEW t, NEW tuples \in SUBSET Tuple, NEW C \in SUBSET Column, C # {}
  PROVE  RateIn(t, tuples, C) \in 0 .. 100
<1>1. IsFiniteSet(tuples) /\ IsFiniteSet(C)
  BY MeasureAssumption, FS_Subset
<1> DEFINE f == [c \in C |-> Percent(NullsIn(t, tuples, c), Cardinality(tuples))]
<1>2. ASSUME NEW c \in C
      PROVE  Percent(NullsIn(t, tuples, c), Cardinality(tuples)) \in 0 .. 100
  <2>1. {r \in tuples : c \in t.nulls[r]} \in SUBSET tuples
    OBVIOUS
  <2> QED BY <1>1, <2>1, PercentBound DEF NullsIn
<1>3. f \in [C -> 0 .. 100]
  BY <1>2
<1>4. Mean(f) \in 0 .. 100
  <2> HIDE DEF f
  <2> QED BY <1>1, <1>3, MeanBound
<1> QED BY <1>4 DEF RateIn

\* A snapshot's records, less those deleted row by row, are the rows.
LEMMA SnapshotIsLive ==
  ASSUME NEW t, IsTable(t), ~t.equality
  PROVE  IcebergRows(t) = Cardinality(t.live)
<1> DEFINE L == t.live
           D == t.deleted
<1>1. IsFiniteSet(L) /\ IsFiniteSet(D) /\ L \cap D = {}
  BY MeasureAssumption, FS_Subset DEF IsTable
<1>2. Cardinality(L) \in Nat /\ Cardinality(D) \in Nat
  BY <1>1, FS_CardinalityType
<1>3. Cardinality(L \cup D) = Cardinality(L) + Cardinality(D) - Cardinality(L \cap D)
  BY <1>1, FS_Union
<1>4. Cardinality(L \cap D) = 0
  BY <1>1, FS_EmptySet
<1>5. t.entries = Cardinality(D)
  BY DEF IsTable
<1> HIDE DEF L, D
<1>6. /\ Cardinality(L \cup D) - Cardinality(D) = Cardinality(L)
      /\ Cardinality(D) <= Cardinality(L \cup D)
  BY <1>2, <1>3, <1>4
<1> QED BY <1>5, <1>6 DEF IcebergRows, L, D

\* A query of the tick.
LEMMA TickKeeps ==
  ASSUME MeasureInv, UNCHANGED <<engine, setting, monitored, batches, shown>>,
         DOMAIN measure' = MeasureFields, InHand', HeldStill'
  PROVE  MeasureInv'
BY DEF MeasureInv, IsExact

\* A change of the table.
LEMMA WorldKeeps ==
  ASSUME MeasureInv, NEW t, t # None => IsTable(t), Altered(t)
  PROVE  MeasureInv'
<1>1. UNCHANGED <<engine, setting, batches, shown>> /\ monitored' = t
  BY DEF Altered
<1>2. CASE measure.pc = "idle"
  <2>1. measure' = measure
    BY <1>2 DEF Altered
  <2>2. InHand' /\ DOMAIN measure' = MeasureFields
    BY <1>1, <2>1 DEF MeasureInv, InHand
  <2>3. HeldStill'
    BY <1>2, <2>1 DEF HeldStill
  <2> QED BY <1>1, <2>2, <2>3 DEF MeasureInv, IsExact
<1>3. CASE measure.pc # "idle"
  <2>1. measure' = [measure EXCEPT !.still = FALSE] /\ DOMAIN measure = MeasureFields
    BY <1>3 DEF Altered, MeasureInv
  <2>2. /\ DOMAIN measure' = MeasureFields /\ measure'.still = FALSE
        /\ measure'.pc = measure.pc /\ measure'.rate = measure.rate
        /\ measure'.columns = measure.columns
    BY <2>1 DEF MeasureFields
  <2>3. InHand'
    BY <1>1, <2>2 DEF MeasureInv, InHand
  <2>4. HeldStill'
    BY <2>2 DEF HeldStill
  <2> QED BY <1>1, <2>2, <2>3, <2>4 DEF MeasureInv, IsExact
<1> QED BY <1>2, <1>3

\* A step of the page.
LEMMA PageKeeps ==
  ASSUME MeasureInv, UNCHANGED <<engine, monitored, measure, batches>>,
         DOMAIN shown' = PageFields,
         shown'.rate # None => shown'.badge = TagOf(shown'.by)
  PROVE  MeasureInv'
<1>1. InHand' /\ HeldStill'
  BY DEF MeasureInv, InHand, HeldStill, Truth, TellsRows
<1> QED BY <1>1 DEF MeasureInv, IsExact

LEMMA MeasureBegins == MeasureInit => MeasureInv
<1> SUFFICES ASSUME MeasureInit PROVE MeasureInv
  OBVIOUS
<1>1. monitored # None => IsTable(monitored)
  BY FS_EmptySet DEF MeasureInit, IsTable, TableFields
<1>2. DOMAIN measure = MeasureFields /\ DOMAIN shown = PageFields
  BY DEF MeasureInit, NoMeasure, NoPage, MeasureFields, PageFields
<1>3. InHand /\ HeldStill
  BY DEF MeasureInit, NoMeasure, InHand, HeldStill
<1>4. batches \in Seq(Range(batches)) /\ Range(batches) = {}
  BY DEF MeasureInit, Range
<1>5. shown.rate # None => shown.badge = TagOf(shown.by)
  BY DEF MeasureInit, NoPage
<1> QED BY <1>1, <1>2, <1>3, <1>4, <1>5 DEF MeasureInv

\* Until there is a rate, or the table was measured, nothing is claimed.
LEMMA StatsKeep ==
  ASSUME MeasureInv, BeginMeasure \/ ReadStats \/ NothingFound \/ ReadColumns
  PROVE  MeasureInv'
<1> USE DEF MeasureInv
<1>1. /\ DOMAIN measure = MeasureFields
      /\ UNCHANGED <<engine, setting, monitored, batches, shown>>
  BY DEF BeginMeasure, ReadStats, NothingFound, ReadColumns
<1>2. DOMAIN NoMeasure = MeasureFields /\ NoMeasure.columns = {} /\ NoMeasure.rate = None
      /\ NoMeasure.pc = "idle"
  BY DEF NoMeasure, MeasureFields
<1>3. ASSUME measure' = NoMeasure PROVE MeasureInv'
  <2>1. DOMAIN measure' = MeasureFields /\ InHand' /\ HeldStill'
    BY <1>1, <1>2, <1>3 DEF InHand, HeldStill
  <2> HIDE DEF MeasureInv
  <2> QED BY <1>1, <2>1, TickKeeps
<1>4. CASE BeginMeasure
  <2>1. measure' = [NoMeasure EXCEPT !.pc = "stats", !.mode = EffectiveMode]
    BY <1>4 DEF BeginMeasure
  <2>2. /\ DOMAIN measure' = MeasureFields /\ measure'.columns = {}
        /\ measure'.rate = None /\ measure'.pc = "stats"
    BY <1>2, <2>1 DEF MeasureFields
  <2>3. InHand' /\ HeldStill'
    BY <2>2 DEF InHand, HeldStill
  <2> HIDE DEF MeasureInv
  <2> QED BY <1>1, <2>2, <2>3, TickKeeps
<1>5. CASE ReadStats
  <2>1. CASE measure' = NoMeasure
    BY <1>3, <2>1
  <2>2. CASE measure' # NoMeasure
    <3>1. /\ measure.pc = "stats" /\ monitored # None /\ IsTable(monitored)
          /\ measure' = [measure EXCEPT !.rows = RowCount(monitored), !.pc = "columns"]
      BY <1>5, <2>2 DEF ReadStats
    <3>2. /\ DOMAIN measure' = MeasureFields /\ measure'.columns = measure.columns
          /\ measure'.rate = measure.rate /\ measure'.pc = "columns"
          /\ measure'.rows = RowCount(monitored)
      BY <1>1, <3>1 DEF MeasureFields
    <3>3. TellsRows(monitored) => RowCount(monitored) = Cardinality(monitored.live)
      <4>1. CASE engine = "clickhouse" /\ monitored.counted
        BY <4>1 DEF RowCount, ClickHouseRows
      <4>2. CASE engine = "iceberg" /\ ~monitored.equality
        BY <3>1, <4>2, SnapshotIsLive DEF RowCount
      <4> QED BY <4>1, <4>2 DEF TellsRows
    <3>4. InHand'
      BY <1>1, <3>1, <3>2 DEF InHand
    <3>5. HeldStill'
      BY <1>1, <3>1, <3>2, <3>3 DEF HeldStill, TellsRows
    <3> HIDE DEF MeasureInv
    <3> QED BY <1>1, <3>2, <3>4, <3>5, TickKeeps
  <2> QED BY <2>1, <2>2
<1>6. CASE NothingFound
  <2>1. measure.pc \in {"columns", "counting"} /\ measure' = [measure EXCEPT !.pc = "saving"]
    BY <1>6 DEF NothingFound
  <2>2. /\ DOMAIN measure' = MeasureFields /\ measure'.columns = measure.columns
        /\ measure'.rate = measure.rate /\ measure'.pc = "saving"
        /\ measure'.rows = measure.rows /\ measure'.still = measure.still
    BY <1>1, <2>1 DEF MeasureFields
  <2>3. InHand' /\ measure'.rate = None
    BY <1>1, <2>1, <2>2 DEF InHand
  <2>4. HeldStill'
    BY <1>1, <2>1, <2>2, <2>3 DEF HeldStill, TellsRows
  <2> HIDE DEF MeasureInv
  <2> QED BY <1>1, <2>2, <2>3, <2>4, TickKeeps
<1>7. CASE ReadColumns
  <2>1. /\ measure.pc = "columns" /\ engine # "iceberg" /\ monitored # None
        /\ IsTable(monitored) /\ monitored.columns # {}
        /\ measure' = [measure EXCEPT !.columns = monitored.columns, !.pc = "counting"]
    BY <1>7 DEF ReadColumns
  <2>2. /\ DOMAIN measure' = MeasureFields /\ measure'.columns = monitored.columns
        /\ measure'.rate = measure.rate /\ measure'.pc = "counting"
        /\ measure'.rows = measure.rows /\ measure'.still = measure.still
    BY <1>1, <2>1 DEF MeasureFields
  <2>3. InHand'
    BY <1>1, <2>1, <2>2 DEF InHand, IsTable
  <2>4. HeldStill'
    BY <1>1, <2>1, <2>2 DEF HeldStill, TellsRows
  <2> HIDE DEF MeasureInv
  <2> QED BY <1>1, <2>2, <2>3, <2>4, TickKeeps
<1> QED BY <1>4, <1>5, <1>6, <1>7

\* What a query that measures NULLs leaves to save.
LEMMA RatesKeep ==
  ASSUME MeasureInv, UNCHANGED <<engine, setting, monitored, batches, shown>>,
         measure.pc \in {"columns", "counting"}, NEW found, NEW m,
         m \in {measure, [measure EXCEPT !.counts = found]},
         NEW rate, rate # None => rate \in 0 .. 100,
         /\ measure.still /\ engine # "iceberg" /\ measure.mode = "full" /\ rate # None
         => rate = Truth.rate,
         measure' = [m EXCEPT !.pc = "saving", !.rate = rate]
  PROVE  MeasureInv'
<1>1. DOMAIN measure = MeasureFields /\ InHand /\ HeldStill
  BY DEF MeasureInv
<1>2. /\ DOMAIN m = MeasureFields /\ m.columns = measure.columns /\ m.rows = measure.rows
      /\ m.still = measure.still /\ m.mode = measure.mode
  BY <1>1 DEF MeasureFields
<1>3. /\ DOMAIN measure' = MeasureFields /\ measure'.columns = measure.columns
      /\ measure'.rate = rate /\ measure'.pc = "saving" /\ measure'.mode = measure.mode
      /\ measure'.rows = measure.rows /\ measure'.still = measure.still
  BY <1>2 DEF MeasureFields
<1>4. InHand'
  BY <1>1, <1>3 DEF InHand
<1>5. Truth' = Truth /\ TellsRows(monitored)' = TellsRows(monitored)
  BY DEF Truth, TellsRows
<1>6. HeldStill'
  BY <1>1, <1>3, <1>5 DEF HeldStill
<1> QED BY <1>3, <1>4, <1>6, TickKeeps

LEMMA NullsKeep ==
  ASSUME MeasureInv, CountNulls \/ SampleNulls \/ ReadFractions \/ ReadManifests
  PROVE  MeasureInv'
<1>1. /\ UNCHANGED <<engine, setting, monitored, batches, shown>>
      /\ measure.pc \in {"columns", "counting"}
      /\ DOMAIN measure = MeasureFields /\ InHand /\ HeldStill
      /\ monitored # None /\ IsTable(monitored)
  BY DEF CountNulls, SampleNulls, ReadFractions, ReadManifests, Measuring, Countable,
         MeasureInv
<1>2. CASE CountNulls
  <2> DEFINE found == [c \in measure.columns |-> NullsIn(monitored, monitored.live, c)]
             rate == RateIn(monitored, monitored.live, measure.columns)
             m == [measure EXCEPT !.counts = found]
  <2>1. measure.pc = "counting" /\ measure' =
          [measure EXCEPT !.pc = "saving", !.counts = found, !.rate = rate]
    BY <1>2 DEF CountNulls, Measuring, FullRate
  <2>2. measure.columns \in SUBSET Column /\ measure.columns # {}
    BY <1>1, <2>1 DEF InHand
  <2>3. rate \in 0 .. 100
    BY <1>1, <2>2, RateBound DEF IsTable
  <2>4. measure.still => rate = Truth.rate
    BY <1>1, <2>1, <2>2 DEF HeldStill, Truth
  <2> HIDE DEF found, rate
  <2>5. measure' = [m EXCEPT !.pc = "saving", !.rate = rate]
    BY <1>1, <2>1 DEF MeasureFields
  <2>6. m \in {measure, [measure EXCEPT !.counts = found]}
    OBVIOUS
  <2> HIDE DEF m
  <2> QED BY <1>1, <2>3, <2>4, <2>5, <2>6, RatesKeep
<1>3. CASE SampleNulls
  <2>1. PICK tuples \in SUBSET monitored.live :
          measure' = [measure EXCEPT !.pc = "saving", !.rate = SampleRate(tuples)]
    BY <1>3 DEF SampleNulls
  <2>2. measure.pc = "counting" /\ measure.mode = "sample"
    BY <1>3 DEF SampleNulls, Measuring
  <2> DEFINE rate == SampleRate(tuples)
  <2>3. rate # None => rate \in 0 .. 100
    <3>1. measure.columns \in SUBSET Column /\ measure.columns # {}
      BY <1>1, <2>2 DEF InHand
    <3>2. tuples \in SUBSET Tuple
      BY <1>1 DEF IsTable
    <3>3. RateIn(monitored, tuples, measure.columns) \in 0 .. 100
      BY <3>1, <3>2, RateBound
    <3> QED BY <3>3 DEF SampleRate
  <2> HIDE DEF rate
  <2> QED BY <1>1, <2>1, <2>2, <2>3, RatesKeep DEF rate
<1>4. CASE ReadFractions
  <2> DEFINE C == monitored.columns
             f == Restrict(monitored.analyzed, C)
             rate == Mean(f)
  <2>1. /\ measure.mode = "approx" /\ C # {} /\ monitored.analyzed # None
        /\ measure' = [measure EXCEPT !.pc = "saving", !.rate = rate]
    BY <1>4 DEF ReadFractions, Measuring, ApproxRate
  <2>2. f \in [C -> 0 .. 100]
    BY <1>1, <2>1 DEF Restrict, IsTable
  <2>3. IsFiniteSet(C)
    BY <1>1, MeasureAssumption, FS_Subset DEF IsTable
  <2>4. rate \in 0 .. 100
    <3> HIDE DEF f, C
    <3> QED BY <2>1, <2>2, <2>3, MeanBound
  <2> HIDE DEF rate
  <2> QED BY <1>1, <2>1, <2>4, RatesKeep
<1>5. CASE ReadManifests
  <2> DEFINE tuples == monitored.live \cup monitored.deleted
             found == [c \in monitored.columns |-> NullsIn(monitored, tuples, c)]
             rate == RateIn(monitored, tuples, monitored.columns)
             m == [measure EXCEPT !.counts = found]
  <2>1. /\ engine = "iceberg" /\ monitored.columns # {}
        /\ measure' = [measure EXCEPT !.pc = "saving", !.counts = found, !.rate = rate]
    BY <1>5 DEF ReadManifests
  <2>2. rate \in 0 .. 100
    <3>1. tuples \in SUBSET Tuple /\ monitored.columns \in SUBSET Column
      BY <1>1 DEF IsTable
    <3> HIDE DEF tuples
    <3> QED BY <2>1, <3>1, RateBound
  <2> HIDE DEF found, rate
  <2>3. measure' = [m EXCEPT !.pc = "saving", !.rate = rate]
    BY <1>1, <2>1 DEF MeasureFields
  <2>4. m \in {measure, [measure EXCEPT !.counts = found]}
    OBVIOUS
  <2> HIDE DEF m
  <2> QED BY <1>1, <2>1, <2>2, <2>3, <2>4, RatesKeep
<1> QED BY <1>2, <1>3, <1>4, <1>5

LEMMA BatchKeeps ==
  ASSUME MeasureInv, SaveBatch
  PROVE  MeasureInv'
<1> DEFINE b == [rows |-> measure.rows, rate |-> measure.rate, counts |-> measure.counts,
                 source |-> IF measure.mode = "full" THEN None ELSE measure.mode,
                 truth |-> [by |-> measure.mode,
                            table |-> IF measure.still THEN Truth ELSE None]]
<1>1. /\ measure.pc = "saving" /\ batches' = Append(batches, b)
      /\ measure' = NoMeasure /\ UNCHANGED <<engine, setting, monitored, shown>>
  BY DEF SaveBatch
<1>2. DOMAIN measure' = MeasureFields /\ InHand' /\ HeldStill'
  BY <1>1 DEF NoMeasure, MeasureFields, InHand, HeldStill
<1>3. IsExact(b)
  <2>1. b.rate # None => b.rate \in 0 .. 100
    BY DEF MeasureInv, InHand
  <2>2. b.source = TagOf(b.truth.by)
    BY DEF TagOf
  <2>3. CASE measure.still
    <3>1. /\ b.truth.table = Truth
          /\ Truth.rows # None => TellsRows(monitored)
                                  /\ Truth.rows = Cardinality(monitored.live)
      BY <2>3 DEF Truth
    <3>2. HeldStill
      BY DEF MeasureInv
    <3>3. Truth.rows # None => b.rows = Truth.rows
      BY <1>1, <2>3, <3>1, <3>2 DEF HeldStill
    <3>4. engine # "iceberg" /\ b.truth.by = "full" /\ b.rate # None => b.rate = Truth.rate
      BY <1>1, <2>3, <3>2 DEF HeldStill
    <3> HIDE DEF b
    <3> QED BY <2>1, <2>2, <3>1, <3>3, <3>4 DEF IsExact
  <2>4. CASE ~measure.still
    <3>1. b.truth.table = None
      BY <2>4
    <3> HIDE DEF b
    <3> QED BY <2>1, <2>2, <3>1 DEF IsExact
  <2> QED BY <2>3, <2>4
<1> HIDE DEF b
<1> DEFINE old == Range(batches)
<1>4. batches \in Seq(old) /\ \A x \in old : IsExact(x)
  BY DEF MeasureInv
<1>5. batches' \in Seq(Range(batches')) /\ \A x \in Range(batches') : x \in old \cup {b}
  <2> HIDE DEF old
  <2>1. batches \in Seq(old \cup {b})
    BY <1>4
  <2>2. /\ Len(batches') = Len(batches) + 1
        /\ \A i \in 1 .. Len(batches) : batches'[i] = batches[i]
        /\ batches'[Len(batches) + 1] = b
        /\ batches' \in Seq(old \cup {b})
    BY <1>1, <2>1, AppendProperties
  <2>3. \A x \in Range(batches') : x \in old \cup {b}
    BY <2>2 DEF Range
  <2>4. /\ batches' = [i \in 1 .. Len(batches') |-> batches'[i]] /\ Len(batches') \in Nat
        /\ \A i \in 1 .. Len(batches') : batches'[i] \in Range(batches')
    BY <2>2 DEF Range
  <2>5. batches' \in Seq(Range(batches'))
    BY <2>4
  <2> QED BY <2>3, <2>5
<1>6. \A x \in Range(batches') : IsExact(x)
  BY <1>3, <1>4, <1>5
<1>7. \A x \in Range(batches') : IsExact(x)'
  BY <1>1, <1>6 DEF IsExact
<1> QED BY <1>1, <1>2, <1>5, <1>7 DEF MeasureInv

LEMMA PagesKeep ==
  ASSUME MeasureInv, OpenPage \/ ShowRate \/ ShowCounts \/ LeavePage
  PROVE  MeasureInv'
<1>1. /\ DOMAIN shown = PageFields
      /\ shown.rate # None => shown.badge = TagOf(shown.by)
      /\ UNCHANGED <<engine, monitored, measure, batches>>
  BY DEF MeasureInv, OpenPage, ShowRate, ShowCounts, LeavePage
<1>2. DOMAIN NoPage = PageFields /\ NoPage.rate = None
  BY DEF NoPage, PageFields
<1>3. CASE OpenPage
  <2>1. DOMAIN shown' = PageFields /\ shown'.rate = None
    BY <1>2, <1>3 DEF OpenPage, PageFields
  <2> QED BY <1>1, <2>1, PageKeeps
<1>4. CASE ShowRate
  <2>1. CASE WithRate = {}
    <3>1. shown' = [shown EXCEPT !.pc = "counts"]
      BY <1>4, <2>1 DEF ShowRate
    <3>2. /\ DOMAIN shown' = PageFields /\ shown'.rate = shown.rate
          /\ shown'.badge = shown.badge /\ shown'.by = shown.by
      BY <1>1, <3>1 DEF PageFields
    <3> QED BY <1>1, <3>2, PageKeeps
  <2>2. CASE WithRate # {}
    <3> DEFINE newest == Max(WithRate)
               b == batches[newest]
    <3>1. newest \in DOMAIN batches
      <4>1. batches \in Seq(Range(batches))
        BY DEF MeasureInv
      <4>2. DOMAIN batches = 1 .. Len(batches) /\ Len(batches) \in Nat
        BY <4>1
      <4>3. IsFiniteSet(1 .. Len(batches))
        BY <4>2, FS_Interval
      <4>4. WithRate \in SUBSET (1 .. Len(batches))
        BY <4>2 DEF WithRate
      <4>5. IsFiniteSet(WithRate)
        BY <4>3, <4>4, FS_Subset
      <4>6. WithRate \subseteq Nat
        BY <4>2, <4>4
      <4>7. newest \in WithRate
        BY <2>2, <4>5, <4>6, GreatestOfFinite
      <4> QED BY <4>2, <4>4, <4>7
    <3>2. IsExact(b)
      BY <3>1 DEF MeasureInv, Range
    <3> HIDE DEF newest
    <3>3. shown' = [shown EXCEPT !.pc = "counts", !.rate = b.rate,
                      !.badge = b.source, !.by = b.truth.by]
      BY <1>4, <2>2 DEF ShowRate, BadgeOf, newest
    <3> HIDE DEF b
    <3>4. /\ DOMAIN shown' = PageFields
          /\ shown'.badge = b.source /\ shown'.by = b.truth.by
      BY <1>1, <3>3 DEF PageFields
    <3>5. shown'.badge = TagOf(shown'.by)
      BY <3>2, <3>4 DEF IsExact
    <3> QED BY <1>1, <3>4, <3>5, PageKeeps
  <2> QED BY <2>1, <2>2
<1>5. CASE ShowCounts
  <2>1. PICK c : shown' = [shown EXCEPT !.pc = "shown", !.counts = c]
    BY <1>5 DEF ShowCounts
  <2>2. /\ DOMAIN shown' = PageFields /\ shown'.rate = shown.rate
        /\ shown'.badge = shown.badge /\ shown'.by = shown.by
    BY <1>1, <2>1 DEF PageFields
  <2> QED BY <1>1, <2>2, PageKeeps
<1>6. CASE LeavePage
  <2>1. shown' = NoPage
    BY <1>6 DEF LeavePage
  <2> QED BY <1>1, <1>2, <2>1, PageKeeps
<1> QED BY <1>3, <1>4, <1>5, <1>6

LEMMA TablesKeep ==
  ASSUME MeasureInv,
         \/ InsertRow \/ DeleteRow \/ DeleteEqual
         \/ ChangeColumns \/ Analyze \/ DropMonitored
  PROVE  MeasureInv'
<1>1. monitored # None /\ IsTable(monitored)
  BY DEF MeasureInv, InsertRow, DeleteRow, DeleteEqual, ChangeColumns, Analyze,
         DropMonitored
<1> DEFINE t == monitored
<1>2. /\ DOMAIN t = TableFields /\ t.columns \subseteq Column
      /\ t.live \subseteq Tuple /\ t.deleted \subseteq Tuple /\ t.live \cap t.deleted = {}
      /\ ~t.equality => t.entries = Cardinality(t.deleted)
      /\ t.analyzed # None => t.analyzed \in [Column -> 0 .. 100]
  BY <1>1 DEF IsTable
<1>3. CASE InsertRow
  <2>1. PICK r \in Tuple \ (t.live \cup t.deleted) : \E nulls \in SUBSET t.columns :
          Altered([t EXCEPT !.live = @ \cup {r}, !.nulls[r] = nulls])
    BY <1>3 DEF InsertRow
  <2>2. PICK nulls \in SUBSET t.columns :
          Altered([t EXCEPT !.live = @ \cup {r}, !.nulls[r] = nulls])
    BY <2>1
  <2> DEFINE u == [t EXCEPT !.live = @ \cup {r}, !.nulls[r] = nulls]
  <2>3. /\ DOMAIN u = TableFields /\ u.columns = t.columns /\ u.live = t.live \cup {r}
        /\ u.deleted = t.deleted /\ u.analyzed = t.analyzed
        /\ u.entries = t.entries /\ u.equality = t.equality
    BY <1>2 DEF TableFields
  <2>4. Altered(u)
    BY <2>2
  <2> HIDE DEF u
  <2>5. IsTable(u)
    BY <1>2, <2>3 DEF IsTable
  <2> QED BY <2>4, <2>5, WorldKeeps
<1>4. CASE DeleteRow
  <2> DEFINE U(r) == [t EXCEPT !.live = @ \ {r}, !.deleted = @ \cup {r}, !.entries = @ + 1]
             V(r) == [t EXCEPT !.live = @ \ {r}, !.nulls[r] = {}]
  <2>1. PICK r \in t.live : Altered(IF engine = "iceberg" THEN U(r) ELSE V(r))
    BY <1>4 DEF DeleteRow
  <2>2. IsTable(U(r))
    <3> DEFINE u == U(r)
    <3>1. /\ DOMAIN u = TableFields /\ u.columns = t.columns /\ u.live = t.live \ {r}
          /\ u.deleted = t.deleted \cup {r} /\ u.analyzed = t.analyzed
          /\ u.entries = t.entries + 1 /\ u.equality = t.equality
      BY <1>2 DEF TableFields
    <3>2. Cardinality(t.deleted \cup {r}) = Cardinality(t.deleted) + 1
      <4>1. IsFiniteSet(t.deleted) /\ r \notin t.deleted
        BY <1>2, MeasureAssumption, FS_Subset
      <4> QED BY <4>1, FS_AddElement
    <3> HIDE DEF u
    <3> QED BY <1>2, <3>1, <3>2 DEF IsTable
  <2>3. IsTable(V(r))
    <3> DEFINE v == V(r)
    <3>1. /\ DOMAIN v = TableFields /\ v.columns = t.columns /\ v.live = t.live \ {r}
          /\ v.deleted = t.deleted /\ v.analyzed = t.analyzed
          /\ v.entries = t.entries /\ v.equality = t.equality
      BY <1>2 DEF TableFields
    <3> HIDE DEF v
    <3> QED BY <1>2, <3>1 DEF IsTable
  <2> HIDE DEF U, V
  <2> DEFINE w == IF engine = "iceberg" THEN U(r) ELSE V(r)
  <2>4. IsTable(w)
    BY <2>2, <2>3
  <2>5. Altered(w)
    BY <2>1
  <2> HIDE DEF w
  <2> QED BY <2>4, <2>5, WorldKeeps
<1>5. CASE DeleteEqual
  <2>1. PICK equal \in SUBSET t.live :
          Altered([t EXCEPT !.live = @ \ equal, !.deleted = @ \cup equal,
                            !.entries = @ + 1, !.equality = TRUE])
    BY <1>5 DEF DeleteEqual
  <2> DEFINE u == [t EXCEPT !.live = @ \ equal, !.deleted = @ \cup equal,
                            !.entries = @ + 1, !.equality = TRUE]
  <2>2. /\ DOMAIN u = TableFields /\ u.columns = t.columns /\ u.live = t.live \ equal
        /\ u.deleted = t.deleted \cup equal /\ u.analyzed = t.analyzed
        /\ u.equality = TRUE
    BY <1>2 DEF TableFields
  <2>3. Altered(u)
    BY <2>1
  <2> HIDE DEF u
  <2>4. IsTable(u)
    BY <1>2, <2>2 DEF IsTable
  <2> QED BY <2>3, <2>4, WorldKeeps
<1>6. CASE ChangeColumns
  <2>1. PICK c \in t.columns : Altered([t EXCEPT !.columns = @ \ {c}])
    BY <1>6 DEF ChangeColumns
  <2> DEFINE u == [t EXCEPT !.columns = @ \ {c}]
  <2>2. /\ DOMAIN u = TableFields /\ u.columns = t.columns \ {c} /\ u.live = t.live
        /\ u.deleted = t.deleted /\ u.analyzed = t.analyzed
        /\ u.entries = t.entries /\ u.equality = t.equality
    BY <1>2 DEF TableFields
  <2>3. Altered(u)
    BY <2>1
  <2> HIDE DEF u
  <2>4. IsTable(u)
    BY <1>2, <2>2 DEF IsTable
  <2> QED BY <2>3, <2>4, WorldKeeps
<1>7. CASE Analyze
  <2> DEFINE f == [c \in Column |-> Percent(NullsIn(t, t.live, c), Cardinality(t.live))]
             stats == IF engine = "mysql" THEN None ELSE f
  <2>1. PICK n \in Estimates : Altered([t EXCEPT !.estimate = n, !.analyzed = stats])
    BY <1>7 DEF Analyze
  <2>2. f \in [Column -> 0 .. 100]
    <3>1. IsFiniteSet(t.live)
      BY <1>2, MeasureAssumption, FS_Subset
    <3>2. ASSUME NEW c \in Column
          PROVE  Percent(NullsIn(t, t.live, c), Cardinality(t.live)) \in 0 .. 100
      <4>1. {r \in t.live : c \in t.nulls[r]} \in SUBSET t.live
        OBVIOUS
      <4> QED BY <3>1, <4>1, PercentBound DEF NullsIn
    <3> QED BY <3>2
  <2> HIDE DEF f
  <2>3. stats # None => stats \in [Column -> 0 .. 100]
    BY <2>2
  <2> HIDE DEF stats
  <2> DEFINE u == [t EXCEPT !.estimate = n, !.analyzed = stats]
  <2>4. /\ DOMAIN u = TableFields /\ u.columns = t.columns /\ u.live = t.live
        /\ u.deleted = t.deleted /\ u.analyzed = stats
        /\ u.entries = t.entries /\ u.equality = t.equality
    BY <1>2 DEF TableFields
  <2>5. Altered(u)
    BY <2>1
  <2> HIDE DEF u
  <2>6. IsTable(u)
    BY <1>2, <2>3, <2>4 DEF IsTable
  <2> QED BY <2>5, <2>6, WorldKeeps
<1>8. CASE DropMonitored
  <2>1. Altered(None)
    BY <1>8 DEF DropMonitored
  <2> QED BY <2>1, WorldKeeps
<1> QED BY <1>3, <1>4, <1>5, <1>6, <1>7, <1>8

LEMMA MeasureStep == MeasureInv /\ [MeasureNext]_measureVars => MeasureInv'
<1> SUFFICES ASSUME MeasureInv, [MeasureNext]_measureVars PROVE MeasureInv'
  OBVIOUS
<1>1. CASE BeginMeasure \/ ReadStats \/ NothingFound \/ ReadColumns
  BY <1>1, StatsKeep
<1>2. CASE CountNulls \/ SampleNulls \/ ReadFractions \/ ReadManifests
  BY <1>2, NullsKeep
<1>3. CASE SaveBatch
  BY <1>3, BatchKeeps
<1>4. CASE OpenPage \/ ShowRate \/ ShowCounts \/ LeavePage
  BY <1>4, PagesKeep
<1>5. CASE \/ InsertRow \/ DeleteRow \/ DeleteEqual
           \/ ChangeColumns \/ Analyze \/ DropMonitored
  BY <1>5, TablesKeep
<1>6. CASE UNCHANGED <<engine, monitored, measure, batches, shown>>
  <2>1. DOMAIN shown' = PageFields /\ (shown'.rate # None => shown'.badge = TagOf(shown'.by))
    BY <1>6 DEF MeasureInv
  <2> QED BY <1>6, <2>1, PageKeeps
<1>7. CASE \E mode \in {"full", "sample", "approx"} : SetMode(mode)
  BY <1>6, <1>7 DEF SetMode
<1>8. CASE UNCHANGED measureVars
  BY <1>6, <1>8 DEF measureVars
<1> QED BY <1>1, <1>2, <1>3, <1>4, <1>5, <1>7, <1>8 DEF MeasureNext

\* What is saved and shown of a table can be believed, whatever changes between the
\* queries of its tick: rates are rates; of a table that held still, a count of rows that
\* its metadata tells (TellsRows) and a full count of NULLs by SQL
\* are exact; and a rate is marked as estimated exactly when it is.
THEOREM MeasuresAreAlwaysSound == MeasureSpec => []MeasuresAreSound
<1>1. MeasureInv => MeasuresAreSound
  <2> SUFFICES ASSUME MeasureInv PROVE MeasuresAreSound
    OBVIOUS
  <2>1. \A i \in DOMAIN batches : IsExact(batches[i])
    BY DEF MeasureInv, Range
  <2>2. RatesAreRates
    BY <2>1 DEF RatesAreRates, IsExact
  <2>3. StillTablesAreExact
    BY <2>1 DEF StillTablesAreExact, IsExact
  <2>4. BadgesAreTrue
    BY DEF MeasureInv, BadgesAreTrue, TagOf
  <2> QED BY <2>2, <2>3, <2>4 DEF MeasuresAreSound
<1> QED BY <1>1, MeasureBegins, MeasureStep, PTL DEF MeasureSpec

------------------------------------------------------------------------------
\* What the pages make of what was stored

SampleSet == [ts: Nat, source: Source, table: Observed, rate: {m.rate : m \in Measures},
               distribution: {m.distribution : m \in Measures}]
VerdictSet == [ts: Nat, table: Observed, source: Source \cup {None},
               version: Version \cup {None}, anomaly: BOOLEAN]
TickFields == {"pc", "ts", "left", "saved", "degraded", "computed"}

\* A report of a drift says what its snapshots say.
Founded(t, r) ==
  r.severity = "drift" =>
    /\ r.base.table = t /\ r.current.table = t
    /\ r.base.ts < r.current.ts /\ r.base.distribution # r.current.distribution
    /\ r.base.ts >= r.computed - BaselineDays * PerDay

SamplesOK ==
  /\ now \in Nat /\ samples \subseteq SampleSet /\ IsFiniteSet(samples)
  /\ \A s \in samples : s.ts <= now

\* The primary key of anomaly_scores, which the upsert keeps.
VerdictsOK ==
  /\ verdicts \subseteq VerdictSet /\ \A v \in verdicts : v.ts <= now
  /\ \A v, w \in verdicts : Key(v) = Key(w) => v = w

TicksOK ==
  /\ DOMAIN tick = Source
  /\ \A c \in Source :
       /\ DOMAIN tick[c] = TickFields /\ tick[c].ts \in Nat /\ tick[c].ts <= now
       /\ tick[c].computed # None =>
            /\ tick[c].computed.table \in Observed
            /\ tick[c].computed.value # None =>
                 Founded(tick[c].computed.table, tick[c].computed.value)

ReportsOK ==
  /\ DOMAIN report = Observed
  /\ \A t \in Observed : report[t] # None => Founded(t, report[t])

HistoryInv ==
  SamplesOK /\ VerdictsOK /\ bindings \in Configurations /\ TicksOK /\ ReportsOK

\* Of finitely many rows some are the oldest, and some the newest.
LEMMA OldestExists ==
  ASSUME NEW S \in SUBSET SampleSet, IsFiniteSet(S), S # {}
  PROVE  Oldest(S) \in S /\ \A q \in S : ~Earlier(q, Oldest(S))
<1> DEFINE HasFirst(T) == T = {} \/ \E s \in T : \A q \in T : ~Earlier(q, s)
           G == {T \in SUBSET S : HasFirst(T)}
<1>1. {} \in G
  OBVIOUS
<1>2. ASSUME NEW T \in SUBSET S, NEW x \in S, T \in G, x \notin T
      PROVE  T \cup {x} \in G
  <2>1. \A s \in S : s.ts \in Int /\ s.source \in Int
    BY HistoryAssumption DEF SampleSet
  <2>2. ~Earlier(x, x)
    BY <2>1 DEF Earlier
  <2>3. CASE T = {}
    BY <2>2, <2>3
  <2>4. CASE T # {}
    <3>1. PICK s \in T : \A q \in T : ~Earlier(q, s)
      BY <1>2, <2>4
    <3>2. CASE Earlier(x, s)
      <4>1. ASSUME NEW q \in T PROVE ~Earlier(q, x)
        <5>1. ~Earlier(q, s)
          BY <3>1
        <5> QED BY <2>1, <3>2, <5>1 DEF Earlier
      <4> QED BY <2>2, <4>1
    <3>3. CASE ~Earlier(x, s)
      BY <3>1, <3>3
    <3> QED BY <3>2, <3>3
  <2> QED BY <2>3, <2>4
<1> HIDE DEF G
<1>3. S \in G
  BY <1>1, <1>2, FiniteInduction
<1>4. \E s \in S : \A q \in S : ~Earlier(q, s)
  BY <1>3 DEF G
<1> QED BY <1>4 DEF Oldest

LEMMA NewestExists ==
  ASSUME NEW S \in SUBSET SampleSet, IsFiniteSet(S), S # {}
  PROVE  Newest(S) \in S /\ \A q \in S : ~Earlier(Newest(S), q)
<1> DEFINE HasLast(T) == T = {} \/ \E s \in T : \A q \in T : ~Earlier(s, q)
           G == {T \in SUBSET S : HasLast(T)}
<1>1. {} \in G
  OBVIOUS
<1>2. ASSUME NEW T \in SUBSET S, NEW x \in S, T \in G, x \notin T
      PROVE  T \cup {x} \in G
  <2>1. \A s \in S : s.ts \in Int /\ s.source \in Int
    BY HistoryAssumption DEF SampleSet
  <2>2. ~Earlier(x, x)
    BY <2>1 DEF Earlier
  <2>3. CASE T = {}
    BY <2>2, <2>3
  <2>4. CASE T # {}
    <3>1. PICK s \in T : \A q \in T : ~Earlier(s, q)
      BY <1>2, <2>4
    <3>2. CASE Earlier(s, x)
      <4>1. ASSUME NEW q \in T PROVE ~Earlier(x, q)
        <5>1. ~Earlier(s, q)
          BY <3>1
        <5> QED BY <2>1, <3>2, <5>1 DEF Earlier
      <4> QED BY <2>2, <4>1
    <3>3. CASE ~Earlier(s, x)
      BY <3>1, <3>3
    <3> QED BY <3>2, <3>3
  <2> QED BY <2>3, <2>4
<1> HIDE DEF G
<1>3. S \in G
  BY <1>1, <1>2, FiniteInduction
<1>4. \E s \in S : \A q \in S : ~Earlier(s, q)
  BY <1>3 DEF G
<1> QED BY <1>4 DEF Newest

LEMMA HistoryBegins == HistoryInit => HistoryInv
<1> SUFFICES ASSUME HistoryInit PROVE HistoryInv
  OBVIOUS
<1>1. SamplesOK
  BY FS_EmptySet DEF HistoryInit, SamplesOK
<1>2. VerdictsOK
  BY DEF HistoryInit, VerdictsOK
<1>3. bindings \in Configurations
  BY DEF HistoryInit, Configurations
<1>4. TicksOK
  BY DEF HistoryInit, TicksOK, NoTick, TickFields
<1>5. ReportsOK
  BY DEF HistoryInit, ReportsOK
<1> QED BY <1>1, <1>2, <1>3, <1>4, <1>5 DEF HistoryInv

LEMMA SamplesKeep ==
  ASSUME HistoryInv, [HistoryNext]_historyVars
  PROVE  SamplesOK' /\ now <= now'
<1> USE DEF SamplesOK
<1>1. SamplesOK
  BY DEF HistoryInv
<1>2. CASE UNCHANGED <<now, samples>>
  BY <1>1, <1>2
<1>3. CASE Pass
  <2>1. now' = now + 1 /\ samples' = samples
    BY <1>3 DEF Pass
  <2> QED BY <1>1, <2>1 DEF SampleSet
<1>4. CASE Purge
  <2>1. now' = now /\ samples' \in SUBSET samples
    BY <1>4 DEF Purge, Purged, Recent
  <2>2. IsFiniteSet(samples')
    BY <1>1, <2>1, FS_Subset
  <2> QED BY <1>1, <2>1, <2>2
<1>5. ASSUME NEW c \in Source, NEW t \in Observed, Save(c, t)
      PROVE  SamplesOK' /\ now <= now'
  <2>1. PICK m \in Measures : samples' = samples \cup
          {[ts |-> tick[c].ts, source |-> c, table |-> t, rate |-> m.rate,
            distribution |-> m.distribution]}
    BY <1>5 DEF Save
  <2> DEFINE x == [ts |-> tick[c].ts, source |-> c, table |-> t, rate |-> m.rate,
                   distribution |-> m.distribution]
  <2>2. tick[c].ts \in Nat /\ tick[c].ts <= now /\ now' = now
    BY <1>5 DEF HistoryInv, TicksOK, Save
  <2>3. x \in SampleSet /\ x.ts <= now
    BY <2>2 DEF SampleSet
  <2>4. samples' = samples \cup {x}
    BY <2>1
  <2> HIDE DEF x
  <2>5. IsFiniteSet(samples')
    BY <1>1, <2>4, FS_AddElement
  <2> QED BY <1>1, <2>2, <2>3, <2>4, <2>5
<1>6. \/ UNCHANGED <<now, samples>> \/ Pass \/ Purge
      \/ \E c \in Source, t \in Observed : Save(c, t)
  BY DEF HistoryNext, TickNext, historyVars, StartTick, SaveFails, ScoreOwn, Read, Break,
         EndTick, BeginScoring, EndScoring, Replace, EndReports, Revoke, Configure, Predict
<1> QED BY <1>2, <1>3, <1>4, <1>5, <1>6

\* What save_anomaly_scores makes of the verdicts.
LEMMA UpsertKeeps ==
  ASSUME HistoryInv, NEW new, new \subseteq VerdictSet, \A v \in new : v.ts <= now,
         \A v, w \in new : Key(v) = Key(w) => v = w,
         verdicts' = Stored(new), now' = now
  PROVE  VerdictsOK'
<1>1. VerdictsOK
  BY DEF HistoryInv
<1>2. verdicts' \subseteq VerdictSet /\ \A v \in verdicts' : v.ts <= now'
  BY <1>1 DEF VerdictsOK, Stored
<1>3. ASSUME NEW v \in verdicts', NEW w \in verdicts', Key(v) = Key(w) PROVE v = w
  BY <1>1, <1>3 DEF VerdictsOK, Stored
<1> QED BY <1>2, <1>3 DEF VerdictsOK

LEMMA VerdictsKeep ==
  ASSUME HistoryInv, [HistoryNext]_historyVars
  PROVE  VerdictsOK'
<1>1. SamplesOK /\ VerdictsOK /\ bindings \in Configurations
  BY DEF HistoryInv
<1>2. CASE UNCHANGED <<now, verdicts>>
  BY <1>1, <1>2 DEF VerdictsOK
<1>3. CASE Pass
  <2>1. now' = now + 1 /\ verdicts' = verdicts /\ now \in Nat
    BY <1>1, <1>3 DEF Pass, SamplesOK
  <2>2. \A v \in verdicts : v.ts \in Nat
    BY <1>1 DEF VerdictsOK, VerdictSet
  <2> QED BY <1>1, <2>1, <2>2 DEF VerdictsOK
<1>4. ASSUME NEW S \in SUBSET samples, S # {}
      PROVE  Newest(S).ts \in Nat /\ Newest(S).ts <= now
  <2>1. IsFiniteSet(S) /\ S \in SUBSET SampleSet
    BY <1>1, FS_Subset DEF SamplesOK
  <2>2. Newest(S) \in S
    BY <1>4, <2>1, NewestExists
  <2> QED BY <1>1, <2>1, <2>2 DEF SamplesOK, SampleSet
<1>5. ASSUME NEW c \in Source, ScorePublished(c), bindings # None, now' = now
      PROVE  VerdictsOK'
  <2> DEFINE BatchesOf(b) == {s \in samples : s.source = b.source /\ s.table = b.table}
  <2>1. PICK B \in SUBSET {b \in bindings : b.source \in accessible},
             flagged \in SUBSET {b \in bindings : b.source \in accessible} :
          /\ \A b \in B : BatchesOf(b) # {}
          /\ verdicts' = Stored({[ts |-> Newest(BatchesOf(b)).ts, table |-> b.table,
                                  source |-> b.source, version |-> b.version,
                                  anomaly |-> b \in flagged] : b \in B})
    BY <1>5 DEF ScorePublished
  <2> DEFINE scoreOf(b) == [ts |-> Newest(BatchesOf(b)).ts, table |-> b.table, source |-> b.source,
                            version |-> b.version, anomaly |-> b \in flagged]
             new == {scoreOf(b) : b \in B}
  <2>2. ASSUME NEW b \in B
        PROVE  /\ b.table \in Observed /\ b.source \in Source /\ b.version \in Version
               /\ b \in bindings
    BY <1>1, <1>5 DEF Configurations
  <2>3. ASSUME NEW b \in B PROVE Newest(BatchesOf(b)).ts \in Nat /\ Newest(BatchesOf(b)).ts <= now
    <3>1. BatchesOf(b) \in SUBSET samples /\ BatchesOf(b) # {}
      BY <2>1
    <3> HIDE DEF BatchesOf
    <3> QED BY <1>4, <3>1
  <2> HIDE DEF BatchesOf
  <2>4. \A b \in B : scoreOf(b) \in VerdictSet /\ scoreOf(b).ts <= now
    BY <2>2, <2>3 DEF VerdictSet
  <2>5. ASSUME NEW b \in B, NEW d \in B, Key(scoreOf(b)) = Key(scoreOf(d)) PROVE b = d
    <3>1. scoreOf(b).source = scoreOf(d).source /\ scoreOf(b).table = scoreOf(d).table
      <4> DEFINE x == scoreOf(b)
                 y == scoreOf(d)
      <4>1. x \in VerdictSet /\ y \in VerdictSet /\ Key(x) = Key(y)
        BY <2>4, <2>5
      <4> HIDE DEF x, y
      <4>2. x.source = Key(x).source /\ x.table = Key(x).table
            /\ y.source = Key(y).source /\ y.table = Key(y).table
        BY <4>1 DEF Key, VerdictSet
      <4>3. x.source = y.source /\ x.table = y.table
        BY <4>1, <4>2
      <4> QED BY <4>3 DEF x, y
    <3>2. b.source = d.source /\ b.table = d.table
      BY <3>1
    <3> QED BY <1>1, <1>5, <2>2, <3>2 DEF Configurations
  <2> HIDE DEF scoreOf
  <2>6. /\ new \subseteq VerdictSet /\ \A v \in new : v.ts <= now
        /\ \A v, w \in new : Key(v) = Key(w) => v = w
    BY <2>4, <2>5
  <2>7. verdicts' = Stored(new)
    BY <2>1 DEF scoreOf
  <2> HIDE DEF new
  <2> QED BY <1>5, <2>6, <2>7, UpsertKeeps
<1>6. ASSUME NEW c \in Source, NEW t \in Observed, ScoreOwn(c, t) PROVE VerdictsOK'
  <2>1. CASE UNCHANGED verdicts
    BY <1>2, <1>6, <2>1 DEF ScoreOwn
  <2>2. CASE verdicts' # verdicts
    <3>1. PICK flagged \in SUBSET Scorable(t) :
            verdicts' = Stored({[ts |-> ts, table |-> t, source |-> None, version |-> None,
                                 anomaly |-> ts \in flagged] : ts \in Scorable(t)})
      BY <1>6, <2>2 DEF ScoreOwn
    <3> DEFINE scoreOf(ts) == [ts |-> ts, table |-> t, source |-> None, version |-> None,
                               anomaly |-> ts \in flagged]
               new == {scoreOf(ts) : ts \in Scorable(t)}
    <3>2. \A ts \in Scorable(t) : ts \in Nat /\ ts <= now
      BY <1>1 DEF Scorable, RatesOf, Recent, SamplesOK, SampleSet
    <3>3. \A ts \in Scorable(t) : scoreOf(ts) \in VerdictSet /\ scoreOf(ts).ts <= now
      BY <3>2 DEF VerdictSet
    <3>4. ASSUME NEW a \in Scorable(t), NEW b \in Scorable(t),
                 Key(scoreOf(a)) = Key(scoreOf(b))
          PROVE  a = b
      <4> DEFINE x == scoreOf(a)
                 y == scoreOf(b)
      <4>1. x \in VerdictSet /\ y \in VerdictSet /\ Key(x) = Key(y)
        BY <3>3, <3>4
      <4>2. x.ts = a /\ y.ts = b
        OBVIOUS
      <4> HIDE DEF x, y
      <4>3. x.ts = Key(x).ts /\ y.ts = Key(y).ts
        BY <4>1 DEF Key, VerdictSet
      <4> QED BY <4>1, <4>2, <4>3
    <3> HIDE DEF scoreOf
    <3>5. /\ new \subseteq VerdictSet /\ \A v \in new : v.ts <= now
          /\ \A v, w \in new : Key(v) = Key(w) => v = w
      BY <3>3, <3>4
    <3>6. verdicts' = Stored(new)
      BY <3>1 DEF scoreOf
    <3>7. now' = now
      BY <1>6 DEF ScoreOwn
    <3> HIDE DEF new
    <3> QED BY <3>5, <3>6, <3>7, UpsertKeeps
  <2> QED BY <2>1, <2>2
<1>7. ASSUME NEW c \in Source, NEW t \in Observed, NEW v \in Version, Predict(c, t, v)
      PROVE  VerdictsOK'
  <2> DEFINE S == {s \in samples : s.source = c /\ s.table = t}
  <2>1. PICK anomaly \in BOOLEAN :
          verdicts' = Stored({[ts |-> Newest(S).ts, table |-> t, source |-> c,
                               version |-> v, anomaly |-> anomaly]})
    BY <1>7 DEF Predict
  <2>2. S # {} /\ S \in SUBSET samples /\ now' = now
    BY <1>7 DEF Predict
  <2> HIDE DEF S
  <2> DEFINE x == [ts |-> Newest(S).ts, table |-> t, source |-> c, version |-> v,
                   anomaly |-> anomaly]
  <2>3. x \in VerdictSet /\ x.ts <= now
    BY <1>4, <2>2 DEF VerdictSet
  <2>4. verdicts' = Stored({x})
    BY <2>1
  <2> HIDE DEF x
  <2> DEFINE new == {x}
  <2>5. /\ new \subseteq VerdictSet /\ \A w \in new : w.ts <= now
        /\ \A u, w \in new : Key(u) = Key(w) => u = w
    BY <2>3
  <2> HIDE DEF new
  <2> QED BY <2>2, <2>4, <2>5, UpsertKeeps DEF new
<1>8. ASSUME NEW c \in Source, BeginScoring(c) PROVE VerdictsOK'
  BY <1>2, <1>5, <1>8 DEF BeginScoring
<1>9. \/ UNCHANGED <<now, verdicts>> \/ Pass
      \/ \E c \in Source : BeginScoring(c) \/ \E t \in Observed : ScoreOwn(c, t)
      \/ \E c \in Source, t \in Observed, v \in Version : Predict(c, t, v)
  BY DEF HistoryNext, TickNext, historyVars, StartTick, Save, SaveFails, Read, Break,
         EndTick, EndScoring, Replace, EndReports, Revoke, Configure, Purge
<1> QED BY <1>2, <1>3, <1>6, <1>7, <1>8, <1>9

\* A report of a drift is computed as it claims to be.
LEMMA ComputeFounded ==
  ASSUME SamplesOK, NEW t \in Observed, Compute(t) # None
  PROVE  Founded(t, Compute(t))
<1> DEFINE S == Snapshots(t)
           r == Compute(t)
<1>1. S \subseteq samples /\ S # {}
  BY DEF Compute, Snapshots, Recent
<1>2. S \in SUBSET SampleSet /\ IsFiniteSet(S)
  BY <1>1, FS_Subset DEF SamplesOK
<1>3. \A s \in S : s.table = t /\ s.ts >= now - BaselineDays * PerDay
  BY DEF Snapshots, Recent
<1>4. r = [base |-> Oldest(S), current |-> Newest(S), computed |-> now,
           severity |-> IF Oldest(S).ts = Newest(S).ts THEN "insufficient_data"
                        ELSE IF Oldest(S).distribution = Newest(S).distribution THEN "ok"
                        ELSE "drift"]
  BY DEF Compute
<1> HIDE DEF S, r
<1> DEFINE old == Oldest(S)
           new == Newest(S)
<1>5. old \in S /\ new \in S /\ ~Earlier(new, old)
  BY <1>1, <1>2, OldestExists, NewestExists
<1>6. r.base = old /\ r.current = new /\ r.computed = now
  BY <1>4
<1>7. r.severity = "drift" => old.ts # new.ts /\ old.distribution # new.distribution
  BY <1>4
<1> HIDE DEF old, new
<1>8. old.ts \in Nat /\ new.ts \in Nat /\ old.ts <= new.ts
  BY <1>2, <1>5 DEF SampleSet, Earlier
<1> QED BY <1>3, <1>5, <1>6, <1>7, <1>8 DEF Founded, r

\* What a tick may have in hand.
IsTick(k, moment) ==
  /\ DOMAIN k = TickFields /\ k.ts \in Nat /\ k.ts <= moment
  /\ k.computed # None =>
       /\ k.computed.table \in Observed
       /\ k.computed.value # None => Founded(k.computed.table, k.computed.value)

LEMMA OneTickKeeps ==
  ASSUME TicksOK, NEW c \in Source, NEW k, IsTick(k, now),
         tick' = [tick EXCEPT ![c] = k], now' = now
  PROVE  TicksOK'
<1>1. DOMAIN tick' = Source
  BY DEF TicksOK
<1>2. ASSUME NEW d \in Source PROVE IsTick(tick'[d], now)
  <2>1. IsTick(tick[d], now)
    BY DEF TicksOK, IsTick
  <2>2. tick'[d] = IF d = c THEN k ELSE tick[d]
    BY DEF TicksOK
  <2> QED BY <2>1, <2>2
<1> QED BY <1>1, <1>2 DEF TicksOK, IsTick

LEMMA TicksKeep ==
  ASSUME HistoryInv, [HistoryNext]_historyVars
  PROVE  TicksOK'
<1>1. SamplesOK /\ TicksOK /\ now \in Nat
  BY DEF HistoryInv, SamplesOK
<1>2. CASE UNCHANGED <<now, tick>>
  BY <1>1, <1>2 DEF TicksOK
<1>3. CASE Pass
  <2>1. now' = now + 1 /\ tick' = tick
    BY <1>3 DEF Pass
  <2> QED BY <1>1, <2>1 DEF TicksOK
<1>4. IsTick(NoTick, now)
  BY <1>1 DEF NoTick, IsTick, TickFields
<1>5. ASSUME NEW c \in Source PROVE IsTick(tick[c], now)
  BY <1>1 DEF TicksOK, IsTick
<1>6. ASSUME NEW c \in Source, StartTick(c) PROVE TicksOK'
  <2>1. PICK observed \in SUBSET Observed :
          tick' = [tick EXCEPT ![c] = [NoTick EXCEPT !.pc = "collecting", !.ts = now,
                                                     !.left = observed]]
    BY <1>6 DEF StartTick
  <2> DEFINE k == [NoTick EXCEPT !.pc = "collecting", !.ts = now, !.left = observed]
  <2>2. DOMAIN k = TickFields /\ k.ts = now /\ k.computed = None
    BY DEF NoTick, TickFields
  <2>3. tick' = [tick EXCEPT ![c] = k] /\ now' = now
    BY <1>6, <2>1 DEF StartTick
  <2> HIDE DEF k
  <2>4. IsTick(k, now)
    BY <1>1, <2>2 DEF IsTick
  <2> QED BY <1>1, <2>3, <2>4, OneTickKeeps
\* A step that leaves the moment and what was computed alone.
<1>7. ASSUME NEW c \in Source, NEW k, DOMAIN k = TickFields, k.ts = tick[c].ts,
             k.computed = tick[c].computed, tick' = [tick EXCEPT ![c] = k], now' = now
      PROVE  TicksOK'
  <2>1. IsTick(k, now)
    BY <1>5, <1>7 DEF IsTick
  <2> QED BY <1>1, <1>7, <2>1, OneTickKeeps
<1>8. ASSUME NEW c \in Source
      PROVE  DOMAIN tick = Source /\ DOMAIN tick[c] = TickFields
  BY <1>1 DEF TicksOK
<1>9. ASSUME NEW c \in Source, NEW t \in Observed, Save(c, t) PROVE TicksOK'
  <2> DEFINE k == [tick[c] EXCEPT !.left = @ \ {t}, !.saved = @ \cup {t}]
  <2>1. tick' = [tick EXCEPT ![c] = k] /\ now' = now
    BY <1>8, <1>9 DEF Save, TickFields
  <2>2. DOMAIN k = TickFields /\ k.ts = tick[c].ts /\ k.computed = tick[c].computed
    BY <1>8 DEF TickFields
  <2> HIDE DEF k
  <2> QED BY <1>7, <2>1, <2>2
<1>10. ASSUME NEW c \in Source, NEW t \in Observed, SaveFails(c, t) PROVE TicksOK'
  <2> DEFINE k == [tick[c] EXCEPT !.left = @ \ {t}, !.degraded = TRUE]
  <2>1. tick' = [tick EXCEPT ![c] = k] /\ now' = now
    BY <1>8, <1>10 DEF SaveFails, TickFields
  <2>2. DOMAIN k = TickFields /\ k.ts = tick[c].ts /\ k.computed = tick[c].computed
    BY <1>8 DEF TickFields
  <2> HIDE DEF k
  <2> QED BY <1>7, <2>1, <2>2
<1>11. ASSUME NEW c \in Source, Break(c) \/ EndReports(c) PROVE TicksOK'
  <2>1. tick' = [tick EXCEPT ![c] = NoTick] /\ now' = now
    BY <1>11 DEF Break, EndReports
  <2> QED BY <1>1, <1>4, <2>1, OneTickKeeps
<1>12. ASSUME NEW c \in Source, EndTick(c) PROVE TicksOK'
  <2>1. now' = now
    BY <1>12 DEF EndTick
  <2>2. CASE tick[c].saved = {}
    <3>1. tick' = [tick EXCEPT ![c] = NoTick]
      BY <1>12, <2>2 DEF EndTick
    <3> QED BY <1>1, <1>4, <2>1, <3>1, OneTickKeeps
  <2>3. CASE tick[c].saved # {}
    <3> DEFINE k == [tick[c] EXCEPT !.pc = "scoring"]
    <3>1. tick' = [tick EXCEPT ![c] = k]
      BY <1>12, <2>3 DEF EndTick
    <3>2. DOMAIN k = TickFields /\ k.ts = tick[c].ts /\ k.computed = tick[c].computed
      BY <1>8 DEF TickFields
    <3> HIDE DEF k
    <3> QED BY <1>7, <2>1, <3>1, <3>2
  <2> QED BY <2>2, <2>3
<1>13. ASSUME NEW c \in Source
       PROVE  /\ DOMAIN ToDrift(c) = TickFields /\ ToDrift(c).ts = tick[c].ts
              /\ ToDrift(c).computed = tick[c].computed
  BY <1>8 DEF ToDrift, TickFields
<1>14. ASSUME NEW c \in Source, BeginScoring(c) PROVE TicksOK'
  <2>1. now' = now
    BY <1>14 DEF BeginScoring
  <2>2. CASE tick' = [tick EXCEPT ![c] = ToDrift(c)]
    BY <1>7, <1>13, <2>1, <2>2
  <2>3. CASE tick' # [tick EXCEPT ![c] = ToDrift(c)]
    <3> DEFINE own == tick[c].saved \ {b.table : b \in bindings}
               k == [tick[c] EXCEPT !.pc = "own", !.left = own]
    <3>1. tick' = [tick EXCEPT ![c] = k]
      BY <1>14, <2>3 DEF BeginScoring
    <3>2. DOMAIN k = TickFields /\ k.ts = tick[c].ts /\ k.computed = tick[c].computed
      BY <1>8 DEF TickFields
    <3> HIDE DEF k
    <3> QED BY <1>7, <2>1, <3>1, <3>2
  <2> QED BY <2>2, <2>3
<1>15. ASSUME NEW c \in Source, EndScoring(c) PROVE TicksOK'
  <2>1. now' = now /\ tick' = [tick EXCEPT ![c] = ToDrift(c)]
    BY <1>15 DEF EndScoring
  <2> QED BY <1>7, <1>13, <2>1
<1>16. ASSUME NEW c \in Source, NEW t \in Observed, ScoreOwn(c, t) PROVE TicksOK'
  <2> DEFINE k == [tick[c] EXCEPT !.left = @ \ {t}]
  <2>1. tick' = [tick EXCEPT ![c] = k] /\ now' = now
    BY <1>8, <1>16 DEF ScoreOwn, TickFields
  <2>2. DOMAIN k = TickFields /\ k.ts = tick[c].ts /\ k.computed = tick[c].computed
    BY <1>8 DEF TickFields
  <2> HIDE DEF k
  <2> QED BY <1>7, <2>1, <2>2
<1>17. ASSUME NEW c \in Source, NEW t \in Observed, Read(c, t) PROVE TicksOK'
  <2> DEFINE found == [table |-> t, value |-> Compute(t)]
             k == [tick[c] EXCEPT !.computed = found, !.left = @ \ {t}]
  <2>1. tick' = [tick EXCEPT ![c] = k] /\ now' = now
    BY <1>8, <1>17 DEF Read, TickFields
  <2>2. DOMAIN k = TickFields /\ k.ts = tick[c].ts /\ k.computed = found
    BY <1>8 DEF TickFields
  <2>3. found.table = t /\ found.value = Compute(t)
    OBVIOUS
  <2>4. found.value # None => Founded(t, found.value)
    BY <1>1, <2>3, ComputeFounded
  <2> HIDE DEF k, found
  <2>5. IsTick(k, now)
    BY <1>5, <2>2, <2>3, <2>4 DEF IsTick
  <2> QED BY <1>1, <2>1, <2>5, OneTickKeeps
<1>18. ASSUME NEW c \in Source, Replace(c) PROVE TicksOK'
  <2> DEFINE k == [tick[c] EXCEPT !.computed = None]
  <2>1. tick' = [tick EXCEPT ![c] = k] /\ now' = now
    BY <1>8, <1>18 DEF Replace, TickFields
  <2>2. DOMAIN k = TickFields /\ k.ts = tick[c].ts /\ k.computed = None
    BY <1>8 DEF TickFields
  <2> HIDE DEF k
  <2>3. IsTick(k, now)
    BY <1>5, <2>2 DEF IsTick
  <2> QED BY <1>1, <2>1, <2>3, OneTickKeeps
<1>19. ASSUME NEW c \in Source, TickNext(c) PROVE TicksOK'
  BY <1>6, <1>9, <1>10, <1>11, <1>12, <1>14, <1>15, <1>16, <1>17, <1>18, <1>19 DEF TickNext
<1>20. UNCHANGED <<now, tick>> \/ Pass \/ \E c \in Source : TickNext(c)
  BY DEF HistoryNext, historyVars, Revoke, Configure, Purge, Predict
<1> QED BY <1>2, <1>3, <1>19, <1>20

LEMMA ReportsKeep ==
  ASSUME HistoryInv, [HistoryNext]_historyVars
  PROVE  ReportsOK'
<1>1. ReportsOK /\ TicksOK
  BY DEF HistoryInv
<1>2. CASE UNCHANGED report
  BY <1>1, <1>2 DEF ReportsOK
<1>3. ASSUME NEW c \in Source, Replace(c) PROVE ReportsOK'
  <2> DEFINE t == tick[c].computed.table
             r == tick[c].computed.value
  <2>1. t \in Observed /\ (r # None => Founded(t, r)) /\ report' = [report EXCEPT ![t] = r]
    BY <1>1, <1>3 DEF TicksOK, Replace
  <2> HIDE DEF t, r
  <2>2. PICK u, q : u \in Observed /\ (q # None => Founded(u, q))
                    /\ report' = [report EXCEPT ![u] = q]
    BY <2>1
  <2>3. DOMAIN report' = Observed
    BY <1>1, <2>2 DEF ReportsOK
  <2>4. ASSUME NEW x \in Observed, report'[x] # None PROVE Founded(x, report'[x])
    BY <1>1, <2>2, <2>4 DEF ReportsOK
  <2> QED BY <2>3, <2>4 DEF ReportsOK, Founded
<1>4. UNCHANGED report \/ \E c \in Source : Replace(c)
  BY DEF HistoryNext, TickNext, historyVars, StartTick, Save, SaveFails, ScoreOwn, Read, Break,
         EndTick, BeginScoring, EndScoring, EndReports, Revoke, Configure, Predict, Pass,
         Purge
<1> QED BY <1>2, <1>3, <1>4

LEMMA HistoryStep == HistoryInv /\ [HistoryNext]_historyVars => HistoryInv'
<1> SUFFICES ASSUME HistoryInv, [HistoryNext]_historyVars PROVE HistoryInv'
  OBVIOUS
<1>1. SamplesOK' /\ VerdictsOK' /\ TicksOK' /\ ReportsOK'
  BY SamplesKeep, VerdictsKeep, TicksKeep, ReportsKeep
<1>2. bindings' = bindings \/ \E B \in Configurations : bindings' = B
  BY DEF HistoryNext, TickNext, historyVars, StartTick, Save, SaveFails, ScoreOwn, Read, Break,
         EndTick, BeginScoring, EndScoring, Replace, EndReports, Revoke, Configure, Predict,
         Pass, Purge
<1>3. bindings' \in Configurations
  BY <1>2 DEF HistoryInv
<1> QED BY <1>1, <1>3 DEF HistoryInv, Configurations

LEMMA OneVerdictShown ==
  ASSUME HistoryInv
  PROVE  VerdictsCountOnce
<1>1. VerdictsOK /\ bindings \in Configurations
  BY DEF HistoryInv
<1>2. SUFFICES ASSUME NEW v \in Counted, NEW w \in Counted,
                      v # w, v.ts = w.ts, v.table = w.table
               PROVE  v.source # w.source /\ None \notin {v.source, w.source}
  BY DEF VerdictsCountOnce
<1>3. bindings # None /\ v \in verdicts /\ w \in verdicts
  BY <1>2 DEF Counted
<1>4. /\ v \in VerdictSet /\ w \in VerdictSet
      /\ \A b, d \in bindings : (b.source = d.source /\ b.table = d.table) => b = d
      /\ \A b \in bindings : b.source \in Source
  BY <1>1, <1>3 DEF VerdictsOK, Configurations
<1>5. ~(v.source = w.source /\ v.version = w.version)
  <2>1. SUFFICES ASSUME v.source = w.source, v.version = w.version PROVE FALSE
    OBVIOUS
  <2>2. Key(v) = Key(w)
    BY <1>2, <1>4, <2>1 DEF Key, VerdictSet
  <2> QED BY <1>1, <1>2, <1>3, <2>2 DEF VerdictsOK
<1> DEFINE Bound(x, b) == b.table = x.table /\ b.source = x.source /\ b.version = x.version
           OwnVerdict(x) ==
             /\ x.source = None /\ x.version = None
             /\ \A b \in bindings : b.table # x.table
<1>6. ASSUME NEW x \in Counted PROVE (\E b \in bindings : Bound(x, b)) \/ OwnVerdict(x)
  BY <1>3 DEF Counted, Scored, Legacy0
<1>7. CASE OwnVerdict(v) \/ OwnVerdict(w)
  <2>1. ~(\E b \in bindings : Bound(v, b)) /\ ~(\E b \in bindings : Bound(w, b))
    BY <1>2, <1>7
  <2>2. OwnVerdict(v) /\ OwnVerdict(w)
    <3> HIDE DEF Bound, OwnVerdict
    <3> QED BY <1>6, <2>1
  <2> QED BY <1>5, <2>2
<1>8. CASE ~(OwnVerdict(v) \/ OwnVerdict(w))
  <2>1. PICK b \in bindings : Bound(v, b)
    BY <1>6, <1>8
  <2>2. PICK d \in bindings : Bound(w, d)
    BY <1>6, <1>8
  <2>3. v.source # w.source
    BY <1>2, <1>4, <1>5, <2>1, <2>2
  <2>4. v.source # None /\ w.source # None
    BY <1>4, <2>1, <2>2, HistoryAssumption
  <2> QED BY <2>3, <2>4
<1> QED BY <1>7, <1>8

\* The checks that the history page knows lie between the beginning and now.
LEMMA MomentsAreFinite ==
  ASSUME HistoryInv
  PROVE  IsFiniteSet(Moments) /\ Moments \subseteq Nat
<1>1. SamplesOK /\ VerdictsOK /\ now \in Nat
  BY DEF HistoryInv, SamplesOK
<1>2. \A s \in HistoryRows : s.ts \in Nat /\ s.ts <= now
  BY <1>1 DEF HistoryRows, Recent, SamplesOK, SampleSet
<1>3. \A v \in AnomaliesShown : v.ts \in Nat /\ v.ts <= now
  BY <1>1 DEF AnomaliesShown, Recent, Counted, VerdictsOK, VerdictSet
<1>4. Moments \in SUBSET (0 .. now)
  BY <1>1, <1>2, <1>3 DEF Moments
<1>5. IsFiniteSet(0 .. now)
  <2>1. 0 \in Int /\ now \in Int
    BY <1>1
  <2> QED BY <2>1, FS_Interval
<1>6. IsFiniteSet(Moments)
  BY <1>4, <1>5, FS_Subset
<1> QED BY <1>4, <1>6

LEMMA LatestMoment ==
  ASSUME HistoryInv, NEW M \in SUBSET Moments, M # {}
  PROVE  Latest(M) \in M /\ Latest(M) \in Nat /\ \A y \in M : y <= Latest(M)
<1>1. IsFiniteSet(M) /\ M \subseteq Nat
  BY MomentsAreFinite, FS_Subset
<1>2. Max(M) \in M /\ \A y \in M : Max(M) >= y
  BY <1>1, GreatestOfFinite
<1>3. \E x \in M : \A y \in M : y <= x
  BY <1>1, <1>2
<1>4. Latest(M) \in M /\ \A y \in M : y <= Latest(M)
  BY <1>3 DEF Latest
<1> QED BY <1>1, <1>4

LEMMA GrowthsAreSpikes ==
  ASSUME HistoryInv
  PROVE  InsightsAgree
<1> DEFINE last == Latest(Moments)
           before == Latest(Moments \ {last})
           OfCheck(t, ts) == {s \in RatesOf(t, HistoryRows) : s.ts = ts}
           Final(S) == CHOOSE s \in S : \A q \in S : ~Earlier(s, q)
<1>1. SUFFICES ASSUME Moments # {},
                      \A s, u \in HistoryRows : (s.ts = u.ts /\ s.table = u.table) => s = u,
                      \E g \in Growths : g >= Spike
               PROVE  Line(last).spikes > 0
  BY DEF InsightsAgree
<1>2. /\ HistoryRows \subseteq samples /\ IsFiniteSet(samples)
      /\ \A s \in samples : s.ts \in Nat /\ s.source \in Nat
  BY HistoryAssumption DEF HistoryInv, SamplesOK, HistoryRows, Recent, SampleSet
<1>3. PICK t \in Observed :
        /\ OfCheck(t, last) # {} /\ OfCheck(t, before) # {}
        /\ Final(OfCheck(t, last)).rate - Final(OfCheck(t, before)).rate >= Spike
  BY <1>1 DEF Growths
<1>4. Cardinality(Moments) >= 2
  <2>1. SUFFICES ASSUME ~(Cardinality(Moments) >= 2) PROVE FALSE
    OBVIOUS
  <2>2. Cardinality(Moments) \in Nat
    BY MomentsAreFinite, FS_CardinalityType
  <2>3. Growths = {}
    BY <2>1, <2>2 DEF Growths
  <2> QED BY <1>1, <2>3
<1>5. /\ last \in Moments /\ last \in Nat /\ \A y \in Moments : y <= last
      /\ before \in Moments /\ before \in Nat /\ before # last
      /\ \A y \in Moments : y # last => y <= before
  <2>1. last \in Moments /\ last \in Nat /\ \A y \in Moments : y <= last
    BY <1>1, LatestMoment
  <2> DEFINE M == Moments \ {last}
  <2>2. M # {}
    <3>1. SUFFICES ASSUME M = {} PROVE FALSE
      OBVIOUS
    <3>2. Moments = {last}
      BY <2>1, <3>1
    <3>3. Cardinality(Moments) = 1
      BY <3>2, FS_Singleton
    <3> QED BY <1>4, <3>3
  <2>3. M \in SUBSET Moments
    OBVIOUS
  <2> HIDE DEF M
  <2>4. Latest(M) \in M /\ Latest(M) \in Nat /\ \A y \in M : y <= Latest(M)
    BY <2>2, <2>3, LatestMoment
  <2> QED BY <2>1, <2>4 DEF M
<1> HIDE DEF last, before
<1>6. ASSUME NEW ts, OfCheck(t, ts) # {}
      PROVE  Final(OfCheck(t, ts)) \in OfCheck(t, ts)
  <2>1. PICK s \in OfCheck(t, ts) : TRUE
    BY <1>6
  <2>2. \A q \in OfCheck(t, ts) : q = s
    BY <1>1 DEF RatesOf
  <2>3. ~Earlier(s, s)
    BY <1>2 DEF Earlier, RatesOf
  <2>4. \E u \in OfCheck(t, ts) : \A q \in OfCheck(t, ts) : ~Earlier(u, q)
    BY <2>2, <2>3
  <2> HIDE DEF OfCheck
  <2> QED BY <2>4
<1> DEFINE s == Final(OfCheck(t, last))
           p == Final(OfCheck(t, before))
<1>7. s \in OfCheck(t, last) /\ p \in OfCheck(t, before) /\ s.rate - p.rate >= Spike
  BY <1>3, <1>6
<1> HIDE DEF s, p
<1>8. /\ s \in HistoryRows /\ s.table = t /\ s.rate # None /\ s.ts = last
      /\ p \in HistoryRows /\ p.table = t /\ p.rate # None /\ p.ts = before
      /\ p \in RatesOf(t, HistoryRows)
  BY <1>7 DEF RatesOf
<1>9. Earlier(p, s)
  BY <1>5, <1>8 DEF Earlier
<1>10. ASSUME NEW q \in RatesOf(t, HistoryRows), Earlier(q, s) PROVE ~Earlier(p, q)
  <2>1. /\ q \in HistoryRows /\ q.table = t /\ q.ts \in Nat /\ q.ts \in Moments
        /\ q.source \in Nat /\ p.source \in Nat /\ s.source \in Nat
    BY <1>2, <1>8 DEF RatesOf, Moments
  <2>2. CASE q.ts = last
    <3>1. q = s
      BY <1>1, <1>8, <2>1, <2>2
    <3> QED BY <1>5, <1>8, <1>10, <2>1, <3>1 DEF Earlier
  <2>3. CASE q.ts # last
    <3>1. q.ts <= before
      BY <1>5, <2>1, <2>3
    <3>2. CASE q.ts = before
      <4>1. q = p
        BY <1>1, <1>8, <2>1, <3>2
      <4> QED BY <1>5, <1>8, <2>1, <4>1 DEF Earlier
    <3>3. CASE q.ts # before
      BY <1>5, <1>8, <2>1, <3>1, <3>3 DEF Earlier
    <3> QED BY <3>2, <3>3
  <2> QED BY <2>2, <2>3
<1>11. s \in SpikesIn(HistoryRows)
  BY <1>7, <1>8, <1>9, <1>10 DEF SpikesIn
<1> DEFINE A == {u \in SpikesIn(HistoryRows) : u.ts = last}
<1>12. A # {} /\ A \in SUBSET samples
  BY <1>2, <1>8, <1>11 DEF SpikesIn
<1> HIDE DEF A
<1>13. IsFiniteSet(A)
  BY <1>2, <1>12, FS_Subset
<1>14. Cardinality(A) \in Nat /\ Cardinality(A) # 0
  BY <1>12, <1>13, FS_CardinalityType, FS_EmptySet
<1>15. Line(last).spikes = Cardinality(A)
  BY DEF Line, At, A
<1> QED BY <1>14, <1>15

\* One observation of a source has one scoreOf, the insights agree with the table of
\* checks, and a cached drift is founded: for all connections, observed, versions,
\* measurements and lengths of the windows, however ticks, reports and edits of the
\* configuration interleave.
THEOREM PagesAreAlwaysConsistent == HistorySpec => []PagesAreConsistent
<1>1. HistoryInv => PagesAreConsistent
  <2> SUFFICES ASSUME HistoryInv PROVE PagesAreConsistent
    OBVIOUS
  <2>1. DriftIsFounded
    BY DEF HistoryInv, ReportsOK, DriftIsFounded, Founded
  <2> QED BY <2>1, OneVerdictShown, GrowthsAreSpikes DEF PagesAreConsistent
<1> QED BY <1>1, HistoryBegins, HistoryStep, PTL DEF HistorySpec

\* A moment of one of the last days lies within them.
LEMMA DayBound ==
  ASSUME NEW s \in Nat, NEW n \in Nat, NEW k \in Nat, NEW P \in Nat \ {0},
         s \div P >= n \div P - k
  PROVE  s > n - (k + 1) * P
<1> DEFINE a == s \div P
           b == n \div P
<1>1. a \in Int /\ b \in Int /\ P * a <= s /\ n < P * b + P
  OBVIOUS
<1>2. a >= b - k
  OBVIOUS
<1> HIDE DEF a, b
<1>3. P * a >= P * (b - k)
  <2>1. ASSUME NEW i \in Int, NEW j \in Int, i >= j PROVE P * i >= P * j
    BY <2>1
  <2> QED BY <1>1, <1>2, <2>1
<1>4. P * (b - k) = P * b - P * k /\ (k + 1) * P = P * k + P
  BY <1>1
<1> DEFINE x == P * a
           y == P * b
           z == P * k
<1>5. x \in Int /\ y \in Int /\ z \in Int
  BY <1>1
<1>6. x <= s /\ n < y + P /\ x >= y - z
  BY <1>1, <1>3, <1>4
<1> HIDE DEF x, y, z
<1>7. s > n - (z + P)
  BY <1>5, <1>6
<1> QED BY <1>4, <1>7 DEF z

\* How the windows of the code lie in each other.
LEMMA WindowsNest ==
  /\ WindowDays * PerDay \in Int /\ RetentionDays * PerDay \in Int
  /\ (ShownDays + 1) * PerDay \in Int
  /\ (ShownDays + 1) * PerDay <= WindowDays * PerDay
  /\ WindowDays * PerDay <= RetentionDays * PerDay
  /\ (WindowDays - ShownDays - 1) * PerDay
       = WindowDays * PerDay - (ShownDays + 1) * PerDay
<1>1. PICK w \in Nat : w = WindowDays
  BY HistoryAssumption
<1>2. PICK k \in Nat : k = ShownDays
  BY HistoryAssumption
<1>3. PICK r \in Nat : r = RetentionDays
  BY HistoryAssumption
<1>4. PICK P \in Nat : P = PerDay
  BY HistoryAssumption
<1>5. k + 1 <= w /\ w <= r
  BY <1>1, <1>2, <1>3, HistoryAssumption
<1>6. ASSUME NEW i \in Nat, NEW j \in Nat, i <= j PROVE i * P <= j * P
  BY <1>6
<1>7. (w - k - 1) * P = w * P - (k + 1) * P
  OBVIOUS
<1>8. (k + 1) * P <= w * P /\ w * P <= r * P
  BY <1>5, <1>6
<1>9. w * P \in Int /\ r * P \in Int /\ (k + 1) * P \in Int
  OBVIOUS
<1> QED BY <1>1, <1>2, <1>3, <1>4, <1>7, <1>8, <1>9

\* How a step changes what the trend is made from.
LEMMA StoreSteps ==
  ASSUME HistoryInv, [HistoryNext]_historyVars
  PROVE  \/ now' = now /\ samples \subseteq samples'
         \/ now' = now + 1 /\ samples' = samples
         \/ now' = now /\ samples' = Recent(samples, RetentionDays)
<1>1. CASE UNCHANGED <<now, samples>>
  BY <1>1
<1>2. CASE Pass
  BY <1>2 DEF Pass
<1>3. CASE Purge
  BY <1>3 DEF Purge, Purged
<1>4. CASE \E c \in Source, t \in Observed : Save(c, t)
  BY <1>4 DEF Save
<1>5. \/ UNCHANGED <<now, samples>> \/ Pass \/ Purge
      \/ \E c \in Source, t \in Observed : Save(c, t)
  BY DEF HistoryNext, TickNext, historyVars, StartTick, SaveFails, ScoreOwn, Read, Break,
         EndTick, BeginScoring, EndScoring, Replace, EndReports, Revoke, Configure, Predict
<1> QED BY <1>1, <1>2, <1>3, <1>4, <1>5

\* A spike of a day that is still shown is a spike in what is left, too: the check it
\* is compared with has not left the window, and nothing has come between the two.
LEMMA SpikeStays ==
  ASSUME HistoryInv, HistoryInv', [HistoryNext]_historyVars, Regular', InOrder,
         NEW s \in SpikesIn(HistoryRows),
         Day(s.ts) >= Day(now') - ShownDays
  PROVE  s \in SpikesIn(HistoryRows)'
<1> DEFINE W == WindowDays * PerDay
           R == RetentionDays * PerDay
           K == (ShownDays + 1) * PerDay
<1>1. /\ W \in Int /\ R \in Int /\ K \in Int /\ K <= W /\ W <= R
      /\ (WindowDays - ShownDays - 1) * PerDay = W - K
  BY WindowsNest
<1> HIDE DEF W, R, K
<1>2. /\ samples \subseteq SampleSet /\ samples' \subseteq SampleSet
      /\ IsFiniteSet(samples) /\ IsFiniteSet(samples')
      /\ now \in Nat /\ now' \in Nat /\ now <= now'
  BY SamplesKeep DEF HistoryInv, SamplesOK
<1>3. \A q \in SampleSet : q.ts \in Nat /\ q.source \in Nat
  BY HistoryAssumption DEF SampleSet
<1>4. HistoryRows \subseteq samples
  BY DEF HistoryRows, Recent
<1>5. s \in HistoryRows /\ s.rate # None /\ s \in samples /\ s.ts \in Nat
  BY <1>2, <1>3, <1>4 DEF SpikesIn
<1>6. PICK p \in RatesOf(s.table, HistoryRows) :
        /\ Earlier(p, s) /\ s.rate - p.rate >= Spike
        /\ \A q \in RatesOf(s.table, HistoryRows) : Earlier(q, s) => ~Earlier(p, q)
  BY DEF SpikesIn
<1>7. /\ p \in HistoryRows /\ p \in samples /\ p.ts \in Nat
      /\ p.table = s.table /\ p.rate # None
  BY <1>2, <1>3, <1>4 DEF RatesOf
<1>8. s.ts > now' - K
  <2>1. ShownDays \in Nat /\ PerDay \in Nat \ {0}
    BY HistoryAssumption
  <2>2. s.ts \div PerDay >= now' \div PerDay - ShownDays
    BY DEF Day
  <2> QED BY <1>2, <1>5, <2>1, <2>2, DayBound DEF K
<1>9. \A q \in HistoryRows : q.ts >= now - W
  <2>1. s \in Recent(samples, WindowDays)
    BY <1>1, <1>2, <1>5, <1>8 DEF Recent, W
  <2> QED BY <2>1 DEF HistoryRows, Recent, W
<1>10. \A q \in samples : q.ts >= now - W => q \in HistoryRows
  BY DEF HistoryRows, Recent, W
<1>11. s \in samples' /\ p \in samples'
  <2>1. CASE samples \subseteq samples'
    BY <1>5, <1>7, <2>1
  <2>2. CASE now' = now /\ samples' = Recent(samples, RetentionDays)
    <3>1. s.ts >= now - R /\ p.ts >= now - R
      BY <1>1, <1>2, <1>5, <1>7, <1>9
    <3> QED BY <1>5, <1>7, <2>2, <3>1 DEF Recent, R
  <2> QED BY <2>1, <2>2, StoreSteps
<1>12. p.ts >= now' - W
  <2>1. CASE now' = now
    BY <1>7, <1>9, <2>1
  <2>2. CASE now' # now
    <3>1. samples' = samples
      BY <2>2, StoreSteps
    <3> DEFINE B == {q \in RatesOf(s.table, samples') : Earlier(q, s)}
               N == Newest(B)
    <3>2. p \in B
      BY <1>6, <1>7, <1>11 DEF RatesOf
    <3>3. s.ts - N.ts <= W - K
      <4>1. B # {} => s.ts - Newest(B).ts <= (WindowDays - ShownDays - 1) * PerDay
        BY <1>11 DEF Regular, RatesOf, Earlier, Newest
      <4> HIDE DEF B
      <4> QED BY <1>1, <3>2, <4>1
    <3>4. N \in B /\ \A q \in B : ~Earlier(N, q)
      <4>1. B \in SUBSET SampleSet /\ B \in SUBSET samples'
        BY <1>2 DEF RatesOf
      <4>2. IsFiniteSet(B)
        BY <1>2, <4>1, FS_Subset
      <4> HIDE DEF B
      <4> QED BY <3>2, <4>1, <4>2, NewestExists
    <3> HIDE DEF N
    <3>5. N \in samples /\ N.table = s.table /\ N.rate # None /\ Earlier(N, s)
      BY <3>1, <3>4 DEF RatesOf
    <3>6. N.ts \in Nat /\ N.source \in Nat /\ p.source \in Nat
      BY <1>2, <1>3, <1>7, <3>5
    <3>7. N.ts >= now' - W
      BY <1>1, <1>2, <1>5, <1>8, <3>3, <3>6
    <3>8. N \in RatesOf(s.table, HistoryRows)
      <4>1. N.ts >= now - W
        BY <1>1, <1>2, <3>6, <3>7
      <4> QED BY <1>10, <3>5, <4>1 DEF RatesOf
    <3>9. ~Earlier(p, N) /\ ~Earlier(N, p)
      BY <1>6, <3>2, <3>4, <3>5, <3>8
    <3>10. p.ts = N.ts
      BY <1>7, <3>6, <3>9 DEF Earlier
    <3> QED BY <3>7, <3>10
  <2> QED BY <2>1, <2>2
<1>13. HistoryRows' = {q \in samples' : q.ts >= now' - W}
  <2>1. s \in {q \in samples' : q.ts >= now' - W}
    BY <1>1, <1>2, <1>5, <1>8, <1>11
  <2> QED BY <2>1 DEF HistoryRows, Recent, W
<1>14. s \in HistoryRows' /\ p \in RatesOf(s.table, HistoryRows')
  <2>1. s.ts >= now' - W
    BY <1>1, <1>2, <1>5, <1>8
  <2> QED BY <1>7, <1>11, <1>12, <1>13, <2>1 DEF RatesOf
<1>15. ASSUME NEW q \in RatesOf(s.table, HistoryRows'), Earlier(q, s) PROVE ~Earlier(p, q)
  <2>1. q \in samples' /\ q.table = s.table /\ q.rate # None /\ q.ts >= now' - W
    BY <1>13 DEF RatesOf
  <2>2. q.ts \in Nat /\ q.source \in Nat /\ s.source \in Nat
    BY <1>2, <1>3, <1>5, <2>1
  <2>3. CASE q \in samples
    <3>1. q.ts >= now - W
      BY <1>1, <1>2, <2>1, <2>2
    <3>2. q \in RatesOf(s.table, HistoryRows)
      BY <1>10, <2>1, <2>3, <3>1 DEF RatesOf
    <3> QED BY <1>6, <1>15, <3>2
  <2>4. CASE q \notin samples
    <3>1. Earlier(s, q)
      BY <1>5, <2>1, <2>4 DEF InOrder, Earlier
    <3> QED BY <1>5, <1>15, <2>2, <3>1 DEF Earlier
  <2> QED BY <2>3, <2>4
<1> QED BY <1>5, <1>6, <1>14, <1>15 DEF SpikesIn, RatesOf, Earlier, Spike

\* An event stays in the trend as long as its day is shown: neither the end of the
\* window nor the purge nor a later check takes it away, provided that observed are
\* observed regularly and batches arrive in the order of their moments.
THEOREM EventsAlwaysStay == HistorySpec => EventsStay
<1>1. ASSUME HistoryInv, HistoryInv', [HistoryNext]_historyVars
      PROVE  [(Regular' /\ InOrder) =>
                \A day \in DaysShown \cap DaysShown' :
                  Daily(day).spikes <= Daily(day).spikes']_historyVars
  <2>1. SUFFICES ASSUME Regular', InOrder, NEW day \in DaysShown \cap DaysShown'
                 PROVE  Daily(day).spikes <= Daily(day).spikes'
    OBVIOUS
  <2> DEFINE A == {s \in SpikesIn(HistoryRows) : Day(s.ts) = day}
             B == {s \in SpikesIn(HistoryRows)' : Day(s.ts) = day}
  <2>2. Daily(day).spikes = Cardinality(A) /\ Daily(day).spikes' = Cardinality(B)
    BY DEF Daily, OfDay, Day
  <2>3. day >= Day(now') - ShownDays
    BY <2>1 DEF DaysShown, Day
  <2>4. A \in SUBSET B
    BY <1>1, <2>1, <2>3, SpikeStays
  <2>5. B \in SUBSET samples'
    BY DEF SpikesIn, HistoryRows, Recent
  <2>6. IsFiniteSet(samples')
    BY <1>1 DEF HistoryInv, SamplesOK
  <2> HIDE DEF A, B
  <2>7. IsFiniteSet(B)
    BY <2>5, <2>6, FS_Subset
  <2>8. Cardinality(A) <= Cardinality(B)
    BY <2>4, <2>7, FS_Subset
  <2> QED BY <2>2, <2>8
<1> QED BY <1>1, HistoryBegins, HistoryStep, PTL DEF HistorySpec, EventsStay
==============================================================================
