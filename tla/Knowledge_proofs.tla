-------------------------- MODULE Knowledge_proofs --------------------------
(***************************************************************************)
(* KnowledgeCorpus, for any number of sources, operations, jobs, retrievals *)
(* and profiles, whatever edits and restarts there are: its types, and then *)
(* what is promoted and what is served: the active generation is only       *)
(* replaced by a later one that is whole, changes by ingestion only, and    *)
(* has what a ready source was last ingested with.                          *)
(***************************************************************************)
EXTENDS KnowledgeCorpus, FiniteSetTheorems, TLAPS

-----------------------------------------------------------------------------
(* Types.  A version is at most one more than the events so far; a job that *)
(* has begun has a source, and a retrieval that goes on a search to make.   *)

SourceInv ==
  /\ source \in [Sources -> SourceRow]
  /\ \A s \in Sources : source[s].version <= events + 1

ChunkInv == chunks \in [Generations -> [Sources -> Versions]]

Progress == [Sources -> {"none", "pending", "running", "completed", "failed"}]

TableInv ==
  /\ corpus \in Generations
  /\ generation \in [Generations -> GenerationRow]
  /\ operation \in [Operations -> OperationRow]
  /\ progress \in [Operations -> Progress]

WorkerInv == worker \in [Operations -> Worker]

JobInv ==
  /\ job \in [Jobs -> Job]
  /\ \A j \in Jobs : job[j].pc \in {"write", "complete", "fail"} => job[j].source \in Sources

ReaderInv ==
  /\ reader \in [Readers -> Reader]
  /\ \A r \in Readers : reader[r].pc \in {"check", "query"} => reader[r].left \in 1..2

IngestInv ==
  /\ ingested \in [Sources -> Versions]
  /\ missed \in [Operations -> SUBSET Sources]
  /\ unserved \in SUBSET Sources

KnowledgeTypeInv ==
  /\ SourceInv /\ ChunkInv /\ TableInv /\ WorkerInv /\ JobInv /\ ReaderInv /\ IngestInv
  /\ events \in 0..MaxEvents
  /\ configured \in Profiles

LEMMA Naturals == MaxOperations \in Nat /\ MaxEvents \in Nat /\ Sources \subseteq Nat \ {0}
BY KnowledgeAssumption

LEMMA NumberOfSources ==
  /\ Cardinality(Sources) \in Nat
  /\ \A S \in SUBSET Sources : IsFiniteSet(S) /\ Cardinality(S) \in 0..Cardinality(Sources)
<1>1. IsFiniteSet(Sources)
  BY KnowledgeAssumption
<1>2. Cardinality(Sources) \in Nat
  BY <1>1, FS_CardinalityType
<1>3. ASSUME NEW S \in SUBSET Sources
      PROVE  IsFiniteSet(S) /\ Cardinality(S) \in 0..Cardinality(Sources)
  <2>1. IsFiniteSet(S) /\ Cardinality(S) <= Cardinality(Sources)
    BY <1>1, FS_Subset
  <2>2. Cardinality(S) \in Nat
    BY <2>1, FS_CardinalityType
  <2>3. QED
    BY <1>2, <2>1, <2>2
<1>4. QED
  BY <1>2, <1>3

LEMMA KnowledgeInitType == KnowledgeInit => KnowledgeTypeInv
<1> SUFFICES ASSUME KnowledgeInit PROVE KnowledgeTypeInv
  OBVIOUS
<1> USE Naturals, KnowledgeAssumption DEF KnowledgeInit, Generations, Operations, Versions
<1>1. SourceInv
  BY DEF SourceInv, SourceRow
<1>2. ChunkInv
  BY DEF ChunkInv
<1>3. TableInv
  BY NumberOfSources DEF TableInv, Progress, GenerationRow, OperationRow
<1>4. WorkerInv /\ JobInv /\ ReaderInv
  BY DEF WorkerInv, Worker, IdleWorker, JobInv, Job, NoJob, ReaderInv, Reader, NoReader
<1>5. IngestInv
  BY DEF IngestInv
<1>6. QED
  BY <1>1, <1>2, <1>3, <1>4, <1>5 DEF KnowledgeTypeInv

LEMMA WithoutChunks ==
  ASSUME ChunkInv, NEW s \in Sources,
         chunks' = [g \in Generations |-> [chunks[g] EXCEPT ![s] = 0]]
  PROVE  ChunkInv'
BY Naturals DEF ChunkInv, Versions

LEMMA EditType ==
  ASSUME KnowledgeTypeInv, EditStep
  PROVE  KnowledgeTypeInv'
<1>1. PICK s \in Sources : CreateSource(s) \/ UpdateSource(s) \/ DeleteChunks(s) \/ DeleteSource(s)
  BY DEF EditStep
<1>2. /\ events \in Nat /\ events < MaxEvents /\ events' = events + 1
      /\ UNCHANGED <<corpus, generation, operation, worker, job, reader, configured, ingested, missed>>
  BY Naturals DEF EditStep, Event, KnowledgeTypeInv
<1>3. WorkerInv' /\ JobInv' /\ ReaderInv' /\ events' \in 0..MaxEvents /\ configured' \in Profiles
  BY <1>2, Naturals DEF KnowledgeTypeInv, WorkerInv, JobInv, ReaderInv
<1>4. SourceInv'
  BY <1>1, <1>2, Naturals DEF KnowledgeTypeInv, SourceInv, SourceRow, Versions, CreateSource,
     UpdateSource, DeleteChunks, DeleteSource
<1>5. ChunkInv'
  BY <1>1, WithoutChunks DEF KnowledgeTypeInv, ChunkInv, CreateSource, UpdateSource, DeleteChunks,
     DeleteSource
<1>6. progress' \in [Operations -> Progress]
  BY <1>1 DEF KnowledgeTypeInv, TableInv, Progress, CreateSource, UpdateSource, DeleteChunks,
     DeleteSource
<1>7. IngestInv'
  BY <1>1, <1>2 DEF KnowledgeTypeInv, IngestInv, CreateSource, UpdateSource, DeleteChunks, DeleteSource
<1>8. QED
  BY <1>2, <1>3, <1>4, <1>5, <1>6, <1>7 DEF KnowledgeTypeInv, TableInv

LEMMA ProgressType ==
  ASSUME TableInv, NEW g \in Operations, NEW s,
         NEW status \in {"pending", "running", "completed", "failed"}, SetProgress(g, s, status)
  PROVE  progress' \in [Operations -> Progress]
BY DEF TableInv, Progress, SetProgress

LEMMA OperationType ==
  ASSUME TableInv, NEW g \in Operations,
         NEW status \in {"pending", "running", "completed", "failed"}, SetOperation(g, status)
  PROVE  operation' \in [Operations -> OperationRow]
BY DEF TableInv, OperationRow, SetOperation

LEMMA GotoType ==
  ASSUME WorkerInv, NEW g \in Operations,
         NEW pc \in {"idle", "claim", "next", "stage", "promote", "complete", "fail"},
         GotoWorker(g, pc)
  PROVE  WorkerInv'
BY DEF WorkerInv, Worker, GotoWorker

LEMMA WorkerUpdate ==
  ASSUME WorkerInv, NEW g \in Operations, NEW new \in Worker, worker' = [worker EXCEPT ![g] = new]
  PROVE  WorkerInv'
BY DEF WorkerInv

LEMMA IdleWorkerType == IdleWorker \in Worker
BY Naturals DEF IdleWorker, Worker, Versions

LEMMA StagedType ==
  ASSUME ChunkInv, WorkerInv, NEW g \in Operations, NEW s,
         chunks' = [chunks EXCEPT ![g] =
           [@ EXCEPT ![s] = IF progress[g][s] = "none" THEN chunks[g][s] ELSE worker[g].version]]
  PROVE  ChunkInv'
<1>1. g \in Generations
  BY Naturals DEF Generations, Operations
<1>2. chunks[g] \in [Sources -> Versions]
  BY <1>1 DEF ChunkInv
<1>3. worker[g].version \in Versions
  BY DEF WorkerInv, Worker
<1> DEFINE new == [chunks[g] EXCEPT ![s] =
                     IF progress[g][s] = "none" THEN chunks[g][s] ELSE worker[g].version]
<1>4. new \in [Sources -> Versions]
  BY <1>2, <1>3
<1>5. chunks' = [chunks EXCEPT ![g] = new]
  OBVIOUS
<1> HIDE DEF new
<1>6. QED
  BY <1>1, <1>4, <1>5 DEF ChunkInv

(* The run of an operation writes its own rows, its generation's chunks and, *)
(* on promotion, the pointer.                                                *)
LEMMA RunType ==
  ASSUME KnowledgeTypeInv, NEW g \in Operations, RunStep(g)
  PROVE  TableInv' /\ ChunkInv' /\ WorkerInv' /\ missed' \in [Operations -> SUBSET Sources]
         /\ unserved' \in SUBSET Sources
<1> USE DEF KnowledgeTypeInv
<1>0. g \in Generations
  BY Naturals DEF Generations, Operations
<1>1. CASE Claim(g)
  <2>1. TableInv'
    BY <1>1, OperationType DEF Claim, TableInv
  <2>2. WorkerInv'
    <3> DEFINE rest == {s \in SourcesOf(g) : progress[g][s] # "completed"}
               new == [IdleWorker EXCEPT !.pc = "next", !.todo = rest]
    <3>1. worker' = [worker EXCEPT ![g] = new]
      BY <1>1 DEF Claim
    <3>2. rest \in SUBSET Sources
      BY DEF SourcesOf
    <3> HIDE DEF rest
    <3>3. new \in Worker
      BY <3>2, IdleWorkerType DEF Worker
    <3> HIDE DEF new
    <3>4. QED
      BY <3>1, <3>3, WorkerUpdate
  <2>3. QED
    BY <1>1, <2>1, <2>2 DEF Claim, ChunkInv, IngestInv
<1>2. ASSUME NEW s \in Sources, LoadSource(g, s)
      PROVE  TableInv' /\ ChunkInv' /\ WorkerInv' /\ missed' \in [Operations -> SUBSET Sources]
             /\ unserved' \in SUBSET Sources
  <2>1. TableInv'
    BY <1>2, ProgressType DEF LoadSource, TableInv
  <2>2. source[s].version \in Versions
    BY DEF SourceInv, SourceRow
  <2>3. WorkerInv'
    <3> DEFINE new == [worker[g] EXCEPT !.pc = "stage", !.todo = worker[g].todo \ {s},
                                        !.at = s, !.version = source[s].version]
    <3>1. worker' = [worker EXCEPT ![g] = new]
      BY <1>2 DEF LoadSource
    <3>2. new \in Worker
      BY <2>2 DEF Worker, WorkerInv
    <3> HIDE DEF new
    <3>3. QED
      BY <3>1, <3>2, WorkerUpdate
  <2>4. QED
    BY <1>2, <2>1, <2>3 DEF LoadSource, ChunkInv, IngestInv
<1>3. ASSUME NEW s \in Sources, FailSource(g, s)
      PROVE  TableInv' /\ ChunkInv' /\ WorkerInv' /\ missed' \in [Operations -> SUBSET Sources]
             /\ unserved' \in SUBSET Sources
  <2>1. TableInv'
    BY <1>3, ProgressType DEF FailSource, TableInv
  <2>2. WorkerInv'
    <3> DEFINE new == [worker[g] EXCEPT !.todo = worker[g].todo \ {s}]
    <3>1. worker' = [worker EXCEPT ![g] = new]
      BY <1>3 DEF FailSource
    <3>2. new \in Worker
      BY DEF Worker, WorkerInv
    <3> HIDE DEF new
    <3>3. QED
      BY <3>1, <3>2, WorkerUpdate
  <2>3. QED
    BY <1>3, <2>1, <2>2 DEF FailSource, ChunkInv, IngestInv
<1>4. CASE StageSource(g)
  <2>1. TableInv'
    BY <1>4, ProgressType DEF StageSource, TableInv
  <2>2. ChunkInv'
    BY <1>4, StagedType DEF StageSource
  <2>3. WorkerInv'
    <3> DEFINE new == [worker[g] EXCEPT !.pc = "next", !.at = 0, !.version = 0]
    <3>1. worker' = [worker EXCEPT ![g] = new]
      BY <1>4 DEF StageSource
    <3>2. 0 \in Versions
      BY Naturals DEF Versions
    <3>3. new \in Worker
      BY <3>2 DEF Worker, WorkerInv
    <3> HIDE DEF new
    <3>4. QED
      BY <3>1, <3>3, WorkerUpdate
  <2>4. QED
    BY <1>4, <2>1, <2>2, <2>3 DEF StageSource, IngestInv
<1>5. CASE Validate(g)
  <2>1. generation' \in [Generations -> GenerationRow]
    BY <1>0, <1>5 DEF Validate, TableInv, GenerationRow
  <2>2. WorkerInv'
    BY <1>5, GotoType DEF Validate
  <2>3. QED
    BY <1>5, <2>1, <2>2 DEF Validate, TableInv, ChunkInv, IngestInv
<1>6. CASE Promote(g)
  <2>1. CASE Activate(g)
    <3>1. generation' \in [Generations -> GenerationRow]
      BY <1>0, <2>1 DEF Activate, TableInv, GenerationRow
    <3>2. TableInv'
      BY <1>0, <2>1, <3>1, OperationType DEF Activate, TableInv
    <3>3. WorkerInv'
      BY <2>1, GotoType DEF Activate
    <3>4. QED
      BY <2>1, <3>2, <3>3 DEF Activate, ChunkInv, IngestInv
  <2>2. CASE GotoWorker(g, "fail") /\ UNCHANGED <<corpusTables, chunks, missed, unserved>>
    BY <2>2, GotoType DEF corpusTables, TableInv, ChunkInv, IngestInv
  <2>3. QED
    BY <1>6, <2>1, <2>2 DEF Promote
<1>7. CASE MarkCompleted(g)
  <2>1. WorkerInv'
    BY <1>7, GotoType, WorkerUpdate, IdleWorkerType DEF MarkCompleted
  <2>2. TableInv'
    BY <1>7, OperationType DEF MarkCompleted, TableInv
  <2>3. QED
    BY <1>7, <2>1, <2>2 DEF MarkCompleted, ChunkInv, IngestInv
<1>8. CASE FailOperation(g)
  <2>1. WorkerInv'
    BY <1>8, WorkerUpdate, IdleWorkerType DEF FailOperation
  <2>2. TableInv'
    BY <1>8, OperationType DEF FailOperation, TableInv
  <2>3. QED
    BY <1>8, <2>1, <2>2 DEF FailOperation, ChunkInv, IngestInv
<1>9. QED
  BY <1>1, <1>2, <1>3, <1>4, <1>5, <1>6, <1>7, <1>8 DEF RunStep

LEMMA WorkerStepType ==
  ASSUME KnowledgeTypeInv, NEW g \in Operations, WorkerStep(g)
  PROVE  KnowledgeTypeInv'
BY RunType DEF WorkerStep, KnowledgeTypeInv, SourceInv, JobInv, ReaderInv, IngestInv

LEMMA OperatorStepType ==
  ASSUME KnowledgeTypeInv, NEW g \in Operations, OperatorStep(g)
  PROVE  KnowledgeTypeInv'
<1> USE DEF KnowledgeTypeInv
<1>1. CASE Event /\ CreateOperation(g)
  <2>1. events' \in 0..MaxEvents /\ events < events'
    BY <1>1, Naturals DEF Event
  <2>2. TableInv'
    BY <1>1, NumberOfSources, Naturals DEF CreateOperation, TableInv, OperationRow, GenerationRow,
       Progress, Generations, Operations
  <2>3. WorkerInv'
    BY <1>1, GotoType DEF CreateOperation
  <2>4. SourceInv'
    BY <2>1, Naturals DEF OperatorStep, SourceInv, SourceRow, Versions
  <2>5. QED
    BY <1>1, <2>1, <2>2, <2>3, <2>4 DEF OperatorStep, CreateOperation, ChunkInv, JobInv, ReaderInv,
       IngestInv
<1>2. CASE RunAgain(g) /\ UNCHANGED events
  <2>1. WorkerInv'
    BY <1>2, GotoType DEF RunAgain
  <2>2. QED
    BY <1>2, <2>1 DEF OperatorStep, RunAgain, corpusTables, TableInv, SourceInv, ChunkInv, JobInv,
       ReaderInv, IngestInv
<1>3. QED
  BY <1>1, <1>2 DEF OperatorStep

LEMMA StatusType ==
  ASSUME SourceInv, NEW s \in Sources, NEW status \in {"pending", "ready", "error"},
         SetStatus(s, status), UNCHANGED events
  PROVE  SourceInv'
BY DEF SourceInv, SourceRow, SetStatus

LEMMA JobUpdate ==
  ASSUME JobInv, NEW j \in Jobs, NEW new \in Job, job' = [job EXCEPT ![j] = new],
         new.pc \in {"write", "complete", "fail"} => new.source \in Sources
  PROVE  JobInv'
BY DEF JobInv

LEMMA NoJobType == NoJob \in Job /\ [NoJob EXCEPT !.pc = "done"] \in Job
<1>1. 0 \in Versions /\ 0 \in Generations
  BY Naturals DEF Versions, Generations
<1>2. NoJob \in Job
  BY <1>1 DEF NoJob, Job
<1>3. [NoJob EXCEPT !.pc = "done"] \in Job
  BY <1>2 DEF Job
<1>4. QED
  BY <1>2, <1>3

LEMMA JobStepType ==
  ASSUME KnowledgeTypeInv, NEW j \in Jobs, JobStep(j)
  PROVE  KnowledgeTypeInv'
<1> USE DEF KnowledgeTypeInv
<1>1. TableInv' /\ WorkerInv' /\ ReaderInv' /\ configured' \in Profiles
  BY DEF JobStep, corpusTables, TableInv, WorkerInv, ReaderInv
<1>2. job[j] \in Job /\ corpus \in Generations
  BY DEF JobInv, TableInv
<1>3. ASSUME NEW s \in Sources, Event, StartJob(j, s)
      PROVE  KnowledgeTypeInv'
  <2> DEFINE new == [pc |-> "write", source |-> s, version |-> source[s].version, into |-> corpus,
                     had |-> source[s].status = "ready" /\ chunks[corpus][s] # 0]
  <2>1. job' = [job EXCEPT ![j] = new]
    BY <1>3 DEF StartJob
  <2>2. source[s].version \in Versions
    BY DEF SourceInv, SourceRow
  <2>3. (source[s].status = "ready" /\ chunks[corpus][s] # 0) \in BOOLEAN
    OBVIOUS
  <2>4. new \in Job
    BY <1>2, <2>2, <2>3 DEF Job
  <2>5. new.pc = "write" /\ new.source = s
    OBVIOUS
  <2> HIDE DEF new
  <2>6. JobInv'
    BY <2>1, <2>4, <2>5, JobUpdate
  <2>7. events' \in 0..MaxEvents /\ events < events'
    BY <1>3, Naturals DEF Event
  <2>8. SourceInv'
    BY <1>3, <2>7, Naturals DEF StartJob, sourceTables, SourceInv, SourceRow, Versions
  <2>9. QED
    BY <1>1, <1>3, <2>6, <2>7, <2>8 DEF StartJob, sourceTables, ingestVars, ChunkInv, IngestInv
<1>4. CASE WriteActive(j) /\ UNCHANGED events
  <2> DEFINE s == job[j].source
  <2>1. s \in Sources /\ job[j].version \in Versions /\ job[j].into \in Generations
    BY <1>2, <1>4 DEF WriteActive, JobInv, Job
  <2>2. ChunkInv'
    BY <1>4, <2>1 DEF WriteActive, Ingest, ChunkInv
  <2>3. SourceInv'
    BY <1>4, <2>1 DEF WriteActive, Ingest, SourceInv, SourceRow
  <2>4. IngestInv'
    BY <1>4, <2>1 DEF WriteActive, Ingest, IngestInv
  <2>5. JobInv'
    BY <1>4, <2>1, <1>2, JobUpdate DEF WriteActive, Ingest, Job
  <2>6. QED
    BY <1>1, <1>4, <2>2, <2>3, <2>4, <2>5
<1>5. CASE WriteFails(j) /\ UNCHANGED events
  <2>1. JobInv'
    BY <1>5, <1>2, JobUpdate DEF WriteFails, Job, JobInv
  <2>2. QED
    BY <1>1, <1>5, <2>1 DEF WriteFails, sourceTables, ingestVars, SourceInv, ChunkInv, IngestInv
<1>6. CASE CompleteJob(j) /\ UNCHANGED events
  <2>1. JobInv'
    BY <1>6, NoJobType, JobUpdate DEF CompleteJob, NoJob
  <2>2. SourceInv'
    BY <1>6, StatusType DEF CompleteJob, JobInv
  <2>3. QED
    BY <1>1, <1>6, <2>1, <2>2 DEF CompleteJob, ingestVars, ChunkInv, IngestInv
<1>7. CASE FailJob(j) /\ UNCHANGED events
  <2>1. JobInv'
    BY <1>7, NoJobType, JobUpdate DEF FailJob, NoJob
  <2>2. SourceInv'
    BY <1>7, StatusType DEF FailJob, JobInv, SourceInv
  <2>3. QED
    BY <1>1, <1>7, <2>1, <2>2 DEF FailJob, ingestVars, ChunkInv, IngestInv
<1>8. QED
  BY <1>3, <1>4, <1>5, <1>6, <1>7 DEF JobStep

LEMMA ReaderUpdate ==
  ASSUME ReaderInv, NEW r \in Readers, NEW new \in Reader, reader' = [reader EXCEPT ![r] = new],
         new.pc \in {"check", "query"} => new.left \in 1..2
  PROVE  ReaderInv'
BY DEF ReaderInv

LEMMA ReaderStepType ==
  ASSUME KnowledgeTypeInv, NEW r \in Readers, ReaderStep(r)
  PROVE  KnowledgeTypeInv'
<1> USE DEF KnowledgeTypeInv
<1>1. TableInv' /\ WorkerInv' /\ ChunkInv' /\ IngestInv' /\ JobInv' /\ configured' \in Profiles
  BY DEF ReaderStep, corpusTables, sourceTables, ingestVars, TableInv, WorkerInv, ChunkInv, JobInv,
     IngestInv
<1>2. reader[r] \in Reader /\ corpus \in Generations
  BY DEF ReaderInv, TableInv
<1>3. events' \in 0..MaxEvents /\ events <= events'
  BY Naturals DEF ReaderStep, Event
<1>4. SourceInv'
  BY <1>3, Naturals DEF ReaderStep, sourceTables, SourceInv, SourceRow, Versions
<1>5. CASE StartRetrieval(r)
  <2> DEFINE new == [NoReader EXCEPT !.pc = "check", !.of = corpus, !.left = 2]
  <2>1. reader' = [reader EXCEPT ![r] = new]
    BY <1>5 DEF StartRetrieval
  <2>2. NoReader \in Reader
    <3>1. 0 \in Generations /\ 0 \in 0..2
      BY Naturals DEF Generations
    <3>2. QED
      BY <3>1 DEF NoReader, Reader
  <2>3. 2 \in 0..2 /\ 2 \in 1..2
    OBVIOUS
  <2>4. new \in Reader
    BY <1>2, <2>2, <2>3 DEF Reader
  <2>5. new.left = 2
    BY <2>2 DEF Reader
  <2> HIDE DEF new
  <2>6. ReaderInv'
    BY <2>1, <2>3, <2>4, <2>5, ReaderUpdate
  <2>7. QED
    BY <1>1, <1>3, <1>4, <2>6
<1>6. CASE CheckCorpus(r)
  <2>1. GoneReader \in Reader /\ GoneReader.pc = "done"
    BY Naturals DEF GoneReader, Reader, Generations
  <2>2. ReaderInv'
    BY <1>2, <1>6, <2>1, ReaderUpdate DEF CheckCorpus, Reader, ReaderInv
  <2>3. QED
    BY <1>1, <1>3, <1>4, <2>2
<1>7. CASE QueryChunks(r)
  <2> DEFINE pc == IF reader[r].left = 1 THEN "done" ELSE "check"
             left == reader[r].left - 1
             found == reader[r].found \cup Search(r)
             new == [reader[r] EXCEPT !.pc = pc, !.left = left, !.found = found]
  <2>1. reader' = [reader EXCEPT ![r] = new]
    BY <1>7 DEF QueryChunks
  <2>2. found \in SUBSET Generations
    BY <1>2 DEF Search, Matches, Reader
  <2>3. reader[r].left \in 1..2
    BY <1>7 DEF QueryChunks, ReaderInv
  <2>4. left \in 0..2 /\ pc \in {"check", "done"} /\ (pc = "check" => left \in 1..2)
    BY <2>3
  <2> HIDE DEF pc, left, found
  <2>5. new \in Reader /\ new.pc = pc /\ new.left = left
    BY <1>2, <2>2, <2>4 DEF Reader
  <2> HIDE DEF new
  <2>6. ReaderInv'
    BY <2>1, <2>4, <2>5, ReaderUpdate
  <2>7. QED
    BY <1>1, <1>3, <1>4, <2>6
<1>8. QED
  BY <1>5, <1>6, <1>7 DEF ReaderStep

LEMMA BootType ==
  ASSUME KnowledgeTypeInv, Boot
  PROVE  KnowledgeTypeInv'
<1> USE DEF KnowledgeTypeInv, Boot
<1>1. events' \in 0..MaxEvents /\ events < events'
  BY Naturals DEF Event
<1>2. SourceInv' /\ ChunkInv' /\ IngestInv' /\ configured' \in Profiles
  BY <1>1, Naturals DEF sourceTables, ingestVars, SourceInv, SourceRow, Versions, ChunkInv, IngestInv
<1>3. TableInv'
  BY DEF Recover, TableInv, OperationRow, Progress
<1>4. WorkerInv'
  <2>1. [IdleWorker EXCEPT !.pc = "claim"] \in Worker
    BY IdleWorkerType DEF Worker
  <2>2. QED
    BY <2>1, IdleWorkerType DEF Recover, WorkerInv
<1>5. JobInv'
  BY NoJobType DEF JobInv, NoJob
<1>6. ReaderInv'
  <2>1. NoReader \in Reader /\ GoneReader \in Reader /\ NoReader.pc = "idle" /\ GoneReader.pc = "done"
    BY Naturals DEF NoReader, GoneReader, Reader, Generations
  <2>2. QED
    BY <2>1 DEF ReaderInv
<1>7. QED
  BY <1>1, <1>2, <1>3, <1>4, <1>5, <1>6

LEMMA KnowledgeNextType == KnowledgeTypeInv /\ [KnowledgeNext]_knowledgeVars => KnowledgeTypeInv'
<1> SUFFICES ASSUME KnowledgeTypeInv, [KnowledgeNext]_knowledgeVars PROVE KnowledgeTypeInv'
  OBVIOUS
<1>1. CASE UNCHANGED knowledgeVars
  BY <1>1 DEF knowledgeVars, corpusTables, sourceTables, ingestVars, KnowledgeTypeInv, SourceInv,
     ChunkInv, TableInv, WorkerInv, JobInv, ReaderInv, IngestInv
<1>2. QED
  BY <1>1, EditType, WorkerStepType, OperatorStepType, JobStepType, ReaderStepType, BootType
     DEF KnowledgeNext, KnowledgeQuiet

LEMMA KnowledgeTypeInvHolds == KnowledgeSpec => []KnowledgeTypeInv
BY KnowledgeInitType, KnowledgeNextType, PTL DEF KnowledgeSpec

(* Every table, run, job and retrieval keeps its type, for any number of    *)
(* sources, operations and events.                                          *)
THEOREM KnowledgeTypeCorrect == KnowledgeSpec => []KnowledgeTypeOK
<1>1. KnowledgeTypeInv => KnowledgeTypeOK
  BY DEF KnowledgeTypeInv, KnowledgeTypeOK, SourceInv, ChunkInv, TableInv, Progress, WorkerInv,
     JobInv, ReaderInv, IngestInv
<1>2. QED
  BY <1>1, KnowledgeTypeInvHolds, PTL

-----------------------------------------------------------------------------
(* What is promoted and what is served. *)

Begun(g) == operation[g].status # "none"

(* Operations begin in the order of their numbers, against a generation     *)
(* that is there.                                                           *)
OrderInv ==
  /\ \A f, g \in Operations : f < g /\ Begun(g) => Begun(f)
  /\ corpus \in Operations => Begun(corpus)
  /\ \A g \in Operations : Begun(g) => operation[g].expected < g
  /\ \A g \in Operations : worker[g].pc # "idle" => Begun(g)

(* No operation begins or is compared with another generation.              *)
OperationsKept ==
  \A f \in Operations : /\ operation'[f].status # "none" <=> operation[f].status # "none"
                        /\ operation'[f].expected = operation[f].expected

LEMMA OperationSets == Operations \subseteq Nat \ {0} /\ Generations = Operations \cup {0}
BY Naturals DEF Generations, Operations

LEMMA OrderKept ==
  ASSUME OrderInv, OperationsKept, UNCHANGED corpus,
         \A g \in Operations : worker'[g].pc # "idle" => worker[g].pc # "idle" \/ Begun(g)
  PROVE  OrderInv'
BY DEF OrderInv, OperationsKept, Begun

LEMMA SetKeeps ==
  ASSUME TableInv, NEW g \in Operations, Begun(g),
         NEW status \in {"pending", "running", "completed", "failed"}, SetOperation(g, status)
  PROVE  OperationsKept
BY DEF TableInv, OperationRow, SetOperation, OperationsKept, Begun

(* A run of an operation moves the pointer to its own generation, which is  *)
(* later than the one before.                                               *)
LEMMA RunMoves ==
  ASSUME KnowledgeTypeInv, OrderInv, NEW g \in Operations, RunStep(g)
  PROVE  /\ OperationsKept
         /\ \A f \in Operations : worker'[f].pc # "idle" => f = g \/ worker[f].pc # "idle"
         /\ Begun(g)
         /\ UNCHANGED corpus \/ (corpus' = g /\ corpus < g)
<1> USE DEF KnowledgeTypeInv
<1>1. worker[g].pc # "idle"
  BY DEF RunStep, Claim, LoadSource, FailSource, Takes, StageSource, Validate, Promote,
     MarkCompleted, FailOperation
<1>2. Begun(g)
  BY <1>1 DEF OrderInv
<1>3. \A f \in Operations : worker'[f].pc # "idle" => f = g \/ worker[f].pc # "idle"
  BY DEF RunStep, Claim, LoadSource, FailSource, StageSource, Validate, Promote, Activate,
     MarkCompleted, FailOperation, GotoWorker, WorkerInv
<1>4. UNCHANGED operation => OperationsKept
  BY DEF OperationsKept
<1>5. OperationsKept
  BY <1>2, <1>4, SetKeeps DEF RunStep, Claim, LoadSource, FailSource, StageSource, Validate,
     Promote, Activate, MarkCompleted, FailOperation, corpusTables
<1>6. UNCHANGED corpus \/ (corpus' = g /\ corpus < g)
  BY <1>2 DEF RunStep, Claim, LoadSource, FailSource, StageSource, Validate, Promote, Activate,
     MarkCompleted, FailOperation, corpusTables, OrderInv
<1>7. QED
  BY <1>2, <1>3, <1>5, <1>6

LEMMA WorkerStepOrder ==
  ASSUME KnowledgeTypeInv, OrderInv, NEW g \in Operations, WorkerStep(g)
  PROVE  OrderInv' /\ corpus <= corpus'
<1>1. /\ OperationsKept
      /\ \A f \in Operations : worker'[f].pc # "idle" => f = g \/ worker[f].pc # "idle"
      /\ Begun(g)
      /\ UNCHANGED corpus \/ (corpus' = g /\ corpus < g)
  BY RunMoves DEF WorkerStep
<1>2. corpus \in Nat /\ g \in Nat
  BY OperationSets DEF KnowledgeTypeInv, TableInv
<1>3. corpus <= corpus'
  BY <1>1, <1>2
<1>4. OrderInv'
  BY <1>1 DEF OrderInv, OperationsKept, Begun
<1>5. QED
  BY <1>3, <1>4

LEMMA OperatorStepOrder ==
  ASSUME KnowledgeTypeInv, OrderInv, NEW g \in Operations, OperatorStep(g)
  PROVE  OrderInv' /\ UNCHANGED corpus
<1> USE DEF KnowledgeTypeInv
<1>1. CASE CreateOperation(g)
  <2>1. UNCHANGED corpus
    BY <1>1 DEF CreateOperation
  <2>2. ~Begun(g) /\ \A f \in Operations : f < g => Begun(f)
    BY <1>1 DEF CreateOperation, Begun
  <2>3. corpus < g
    <3>1. corpus = 0 \/ (corpus \in Operations /\ Begun(corpus))
      BY OperationSets DEF OrderInv, TableInv
    <3>2. corpus \in Operations => corpus # g /\ ~(g < corpus)
      BY <2>2, <3>1, OperationSets DEF OrderInv
    <3>3. \A f \in Operations : f \in Nat /\ 0 < f
      BY OperationSets
    <3>4. QED
      BY <3>1, <3>2, <3>3
  <2>4. \A f \in Operations : f # g => operation'[f] = operation[f]
    BY <1>1 DEF CreateOperation, TableInv
  <2>5. operation'[g].status = "pending" /\ operation'[g].expected = corpus
    BY <1>1 DEF CreateOperation, TableInv
  <2>6. \A f \in Operations : f # g => worker'[f] = worker[f]
    BY <1>1 DEF CreateOperation, GotoWorker, WorkerInv
  <2>7. \A f \in Operations : operation'[f].status # "none" <=> Begun(f) \/ f = g
    BY <2>4, <2>5 DEF Begun
  <2>8. \A e, f \in Operations : e < f /\ operation'[f].status # "none" =>
          operation'[e].status # "none"
    BY <2>2, <2>7, OperationSets DEF OrderInv
  <2>9. QED
    BY <2>1, <2>3, <2>4, <2>5, <2>6, <2>7, <2>8 DEF OrderInv, Begun
<1>2. CASE RunAgain(g)
  <2>1. UNCHANGED <<corpus, operation>> /\ Begun(g)
    BY <1>2 DEF RunAgain, corpusTables, Begun
  <2>2. \A f \in Operations : f # g => worker'[f] = worker[f]
    BY <1>2 DEF RunAgain, GotoWorker, WorkerInv
  <2>3. QED
    BY <2>1, <2>2 DEF OrderInv, Begun
<1>3. QED
  BY <1>1, <1>2 DEF OperatorStep

LEMMA BootOrder ==
  ASSUME KnowledgeTypeInv, OrderInv, Boot
  PROVE  OrderInv' /\ UNCHANGED corpus
<1>1. OperationsKept
  BY DEF Boot, Recover, KnowledgeTypeInv, TableInv, OperationRow, OperationsKept
<1>2. \A g \in Operations : worker'[g].pc # "idle" => Begun(g)
  BY DEF Boot, Recover, IdleWorker, Begun
<1>3. QED
  BY <1>1, <1>2, OrderKept DEF Boot

LEMMA NextOrder ==
  ASSUME KnowledgeTypeInv, OrderInv, [KnowledgeNext]_knowledgeVars
  PROVE  OrderInv' /\ corpus <= corpus'
<1>1. corpus \in Nat
  BY OperationSets DEF KnowledgeTypeInv, TableInv
<1>2. ASSUME UNCHANGED <<corpus, operation, worker>>
      PROVE  OrderInv'
  BY <1>2 DEF OrderInv, Begun
<1>3. CASE EditStep \/ (\E j \in Jobs : JobStep(j)) \/ (\E r \in Readers : ReaderStep(r))
           \/ UNCHANGED knowledgeVars
  BY <1>1, <1>2, <1>3 DEF EditStep, JobStep, ReaderStep, knowledgeVars, corpusTables
<1>4. QED
  BY <1>1, <1>3, WorkerStepOrder, OperatorStepOrder, BootOrder DEF KnowledgeNext, KnowledgeQuiet

LEMMA OrderInvHolds == KnowledgeSpec => []OrderInv
<1>1. KnowledgeInit => OrderInv
  BY OperationSets DEF KnowledgeInit, OrderInv, Begun, IdleWorker
<1>2. KnowledgeTypeInv /\ OrderInv /\ [KnowledgeNext]_knowledgeVars => OrderInv'
  BY NextOrder
<1>3. QED
  BY <1>1, <1>2, KnowledgeTypeInvHolds, PTL DEF KnowledgeSpec

(* The active generation is only replaced by one that was begun later,      *)
(* whatever operations fail, are retried and are recovered.                 *)
THEOREM PointerOnlyAdvances == KnowledgeSpec => PointerNeverReturns
<1>1. KnowledgeTypeInv /\ OrderInv /\ [KnowledgeNext]_knowledgeVars =>
        [corpus <= corpus']_knowledgeVars
  BY NextOrder
<1>2. QED
  BY <1>1, KnowledgeTypeInvHolds, OrderInvHolds, PTL DEF KnowledgeSpec, PointerNeverReturns

-----------------------------------------------------------------------------
LEMMA RetrievalStep ==
  ASSUME KnowledgeTypeInv, RetrievalIsOfOneCorpus, [KnowledgeNext]_knowledgeVars
  PROVE  RetrievalIsOfOneCorpus'
<1>1. CASE UNCHANGED reader
  BY <1>1 DEF RetrievalIsOfOneCorpus
<1>2. ASSUME NEW r \in Readers, ReaderStep(r)
      PROVE  RetrievalIsOfOneCorpus'
  <2>1. reader'[r].found \subseteq {reader'[r].of}
    <3>1. CASE StartRetrieval(r)
      BY <3>1 DEF StartRetrieval, KnowledgeTypeInv, ReaderInv, NoReader
    <3>2. CASE CheckCorpus(r)
      BY <3>2 DEF CheckCorpus, KnowledgeTypeInv, ReaderInv, Reader, GoneReader,
         RetrievalIsOfOneCorpus
    <3>3. CASE QueryChunks(r)
      <4>1. reader'[r].of = reader[r].of /\ reader'[r].found = reader[r].found \cup Search(r)
        BY <3>3 DEF QueryChunks, KnowledgeTypeInv, ReaderInv, Reader
      <4>2. Search(r) \subseteq {reader[r].of}
        BY DEF Search, Matches
      <4>3. QED
        BY <4>1, <4>2 DEF RetrievalIsOfOneCorpus
    <3>4. QED
      BY <1>2, <3>1, <3>2, <3>3 DEF ReaderStep
  <2>2. \A q \in Readers : q # r => reader'[q] = reader[q]
    BY <1>2 DEF ReaderStep, StartRetrieval, CheckCorpus, QueryChunks, KnowledgeTypeInv, ReaderInv
  <2>3. QED
    BY <2>1, <2>2 DEF RetrievalIsOfOneCorpus
<1>3. CASE Boot
  BY <1>3 DEF Boot, NoReader, GoneReader, RetrievalIsOfOneCorpus
<1>4. QED
  BY <1>1, <1>2, <1>3 DEF KnowledgeNext, EditStep, WorkerStep, OperatorStep, JobStep,
     KnowledgeQuiet, knowledgeVars

(* What a retrieval finds is of the generation its query was embedded for,  *)
(* for any number of generations promoted between its searches.             *)
THEOREM RetrievalsDoNotMix == KnowledgeSpec => []RetrievalIsOfOneCorpus
<1>1. KnowledgeInit => RetrievalIsOfOneCorpus
  BY DEF KnowledgeInit, RetrievalIsOfOneCorpus, NoReader
<1>2. KnowledgeTypeInv /\ RetrievalIsOfOneCorpus /\ [KnowledgeNext]_knowledgeVars =>
        RetrievalIsOfOneCorpus'
  BY RetrievalStep
<1>3. QED
  BY <1>1, <1>2, KnowledgeTypeInvHolds, PTL DEF KnowledgeSpec

-----------------------------------------------------------------------------
(* Staging.  An operation has at most the sources it listed, its            *)
(* generation has chunks of no others until it is promoted, and once it is  *)
(* promoted there is nothing left to stage.                                 *)

StagingInv ==
  /\ \A g \in Operations, s \in Sources : ~Begun(g) => progress[g][s] = "none"
  /\ \A g \in Operations : Begun(g) => Cardinality(SourcesOf(g)) <= operation[g].listed
  /\ \A g \in Operations, s \in Sources :
       corpus < g /\ chunks[g][s] # 0 => progress[g][s] # "none"
  /\ \A g \in Operations : worker[g].pc = "promote" => worker[g].todo = {}
  /\ corpus \in Operations =>
       /\ worker[corpus].todo = {} /\ worker[corpus].pc # "stage"
       /\ \A s \in Sources : progress[corpus][s] \in {"none", "completed"}

LEMMA RunIsLocal ==
  ASSUME KnowledgeTypeInv, NEW g \in Operations, RunStep(g)
  PROVE  /\ \A f \in Operations : f # g =>
              /\ worker'[f] = worker[f] /\ progress'[f] = progress[f]
              /\ operation'[f] = operation[f] /\ missed'[f] = missed[f]
         /\ \A f \in Generations : f # g => chunks'[f] = chunks[f]
         /\ operation'[g].listed = operation[g].listed
<1> USE DEF KnowledgeTypeInv
<1>1. \A f \in Operations : f # g => worker'[f] = worker[f]
  BY DEF RunStep, Claim, LoadSource, FailSource, StageSource, Validate, Promote, Activate,
     MarkCompleted, FailOperation, GotoWorker, WorkerInv
<1>2. \A f \in Operations : f # g => progress'[f] = progress[f]
  BY DEF RunStep, Claim, LoadSource, FailSource, StageSource, Validate, Promote, Activate,
     MarkCompleted, FailOperation, SetProgress, corpusTables, TableInv
<1>3. /\ \A f \in Operations : f # g => operation'[f] = operation[f]
      /\ operation'[g].listed = operation[g].listed
  BY DEF RunStep, Claim, LoadSource, FailSource, StageSource, Validate, Promote, Activate,
     MarkCompleted, FailOperation, SetOperation, corpusTables, TableInv, OperationRow
<1>4. \A f \in Operations : f # g => missed'[f] = missed[f]
  BY DEF RunStep, Claim, LoadSource, FailSource, StageSource, Validate, Promote, Activate,
     MarkCompleted, FailOperation, IngestInv
<1>5. \A f \in Generations : f # g => chunks'[f] = chunks[f]
  BY DEF RunStep, Claim, LoadSource, FailSource, StageSource, Validate, Promote, Activate,
     MarkCompleted, FailOperation, ChunkInv
<1>6. QED
  BY <1>1, <1>2, <1>3, <1>4, <1>5

(* What a run does to its own rows.                                         *)
LEMMA LoadIsOf ==
  ASSUME KnowledgeTypeInv, NEW g \in Operations, NEW s \in Sources, LoadSource(g, s)
  PROVE  /\ worker'[g].pc = "stage" /\ worker'[g].todo = worker[g].todo \ {s}
         /\ worker'[g].at = s /\ worker'[g].version = source[s].version
         /\ progress'[g][s] = IF progress[g][s] = "none" THEN "none" ELSE "running"
         /\ \A t \in Sources : t # s => progress'[g][t] = progress[g][t]
         /\ missed'[g] = missed[g] \ {s}
BY DEF KnowledgeTypeInv, WorkerInv, Worker, TableInv, Progress, IngestInv, LoadSource, SetProgress

LEMMA FailIsOf ==
  ASSUME KnowledgeTypeInv, NEW g \in Operations, NEW s \in Sources, FailSource(g, s)
  PROVE  /\ worker'[g].pc = worker[g].pc /\ worker'[g].todo = worker[g].todo \ {s}
         /\ progress'[g][s] = IF progress[g][s] = "none" THEN "none" ELSE "failed"
         /\ \A t \in Sources : t # s => progress'[g][t] = progress[g][t]
BY DEF KnowledgeTypeInv, WorkerInv, Worker, TableInv, Progress, FailSource, SetProgress

LEMMA StageIsOf ==
  ASSUME KnowledgeTypeInv, NEW g \in Operations, StageSource(g)
  PROVE  /\ worker'[g].pc = "next" /\ worker'[g].todo = worker[g].todo
         /\ \A s \in Sources :
              /\ progress'[g][s] = IF s = worker[g].at /\ progress[g][s] # "none" THEN "completed"
                                   ELSE progress[g][s]
              /\ chunks'[g][s] = IF s = worker[g].at /\ progress[g][s] # "none"
                                 THEN worker[g].version ELSE chunks[g][s]
<1>1. g \in Generations
  BY OperationSets
<1>2. \A s \in Sources :
        chunks'[g][s] = IF s = worker[g].at /\ progress[g][s] # "none"
                        THEN worker[g].version ELSE chunks[g][s]
  BY <1>1 DEF KnowledgeTypeInv, ChunkInv, StageSource
<1>3. QED
  BY <1>2 DEF KnowledgeTypeInv, WorkerInv, Worker, TableInv, Progress, StageSource, SetProgress

LEMMA OthersAreOf ==
  ASSUME KnowledgeTypeInv, NEW g \in Operations,
         Claim(g) \/ Validate(g) \/ Promote(g) \/ MarkCompleted(g) \/ FailOperation(g)
  PROVE  /\ UNCHANGED <<progress, chunks, missed>>
         /\ worker'[g].pc # "stage"
         /\ \/ worker'[g].todo \subseteq worker[g].todo
            \/ worker'[g].todo = {s \in SourcesOf(g) : progress[g][s] # "completed"}
         /\ worker'[g].pc = "promote" => worker'[g].todo = {}
<1> USE DEF KnowledgeTypeInv
<1>1. UNCHANGED <<progress, chunks, missed>>
  BY DEF Claim, Validate, Promote, Activate, MarkCompleted, FailOperation, corpusTables
<1>2. ASSUME NEW pc, GotoWorker(g, pc)
      PROVE  worker'[g].pc = pc /\ worker'[g].todo = worker[g].todo
  BY <1>2 DEF GotoWorker, WorkerInv, Worker
<1>3. ASSUME worker' = [worker EXCEPT ![g] = IdleWorker]
      PROVE  worker'[g].pc = "idle" /\ worker'[g].todo = {}
  BY <1>3 DEF WorkerInv, IdleWorker
<1>4. CASE Claim(g)
  <2>1. worker'[g].pc = "next"
        /\ worker'[g].todo = {s \in SourcesOf(g) : progress[g][s] # "completed"}
    BY <1>4 DEF Claim, WorkerInv, IdleWorker
  <2>2. QED
    BY <1>1, <2>1
<1>5. CASE Validate(g)
  BY <1>1, <1>2, <1>5 DEF Validate
<1>6. CASE Promote(g) \/ MarkCompleted(g) \/ FailOperation(g)
  BY <1>1, <1>2, <1>3, <1>6 DEF Promote, Activate, MarkCompleted, FailOperation
<1>7. QED
  BY <1>4, <1>5, <1>6

(* The sources are counted, but as there are never more than were listed,   *)
(* and chunks of no others, what is counted is also what is there.          *)
LEMMA CompleteIsWhole ==
  ASSUME KnowledgeTypeInv, StagingInv, NEW g \in Operations, Begun(g), IsComplete(g)
  PROVE  /\ Completed(g) = SourcesOf(g)
         /\ corpus < g => \A s \in SourcesOf(g) : chunks[g][s] # 0
<1>1. SourcesOf(g) \in SUBSET Sources /\ Completed(g) \in SUBSET SourcesOf(g)
  BY DEF SourcesOf, Completed
<1>2. /\ IsFiniteSet(SourcesOf(g)) /\ Cardinality(SourcesOf(g)) \in Nat
      /\ Cardinality(Completed(g)) \in Nat
  BY <1>1, NumberOfSources
<1>3. /\ Cardinality(Completed(g)) = operation[g].listed
      /\ Cardinality(SourcesOf(g)) <= operation[g].listed
  BY DEF IsComplete, StagingInv
<1>4. Cardinality(Completed(g)) <= Cardinality(SourcesOf(g))
  BY <1>1, <1>2, FS_Subset
<1>5. Cardinality(SourcesOf(g)) = Cardinality(Completed(g))
  BY <1>2, <1>3, <1>4
<1>6. Completed(g) = SourcesOf(g)
  BY <1>1, <1>2, <1>5, FS_Subset
<1>7. ASSUME corpus < g
      PROVE  \A s \in SourcesOf(g) : chunks[g][s] # 0
  <2> DEFINE filled == {s \in Sources : chunks[g][s] # 0}
  <2>1. filled \in SUBSET SourcesOf(g)
    BY <1>7 DEF StagingInv, SourcesOf
  <2>2. Cardinality(filled) = Cardinality(SourcesOf(g))
    BY <1>5 DEF IsComplete
  <2>3. filled = SourcesOf(g)
    <3> HIDE DEF filled
    <3>1. QED
      BY <1>2, <2>1, <2>2, FS_Subset
  <2>4. QED
    BY <2>3
<1>8. QED
  BY <1>6, <1>7

LEMMA PromotionIsOf ==
  ASSUME KnowledgeTypeInv, OrderInv, StagingInv, NEW g \in Operations, RunStep(g), corpus' # corpus
  PROVE  /\ corpus' = g /\ Promote(g) /\ IsComplete(g) /\ Begun(g) /\ corpus < g
         /\ worker'[g].todo = worker[g].todo /\ worker'[g].pc = "complete"
<1>1. Promote(g) /\ Activate(g) /\ IsComplete(g)
  BY DEF RunStep, Claim, LoadSource, FailSource, StageSource, Validate, Promote, MarkCompleted,
     FailOperation, corpusTables
<1>2. corpus' = g /\ Begun(g) /\ corpus < g
  BY <1>1, RunMoves DEF Activate
<1>3. worker'[g].todo = worker[g].todo /\ worker'[g].pc = "complete"
  BY <1>1 DEF Activate, GotoWorker, KnowledgeTypeInv, WorkerInv, Worker
<1>4. QED
  BY <1>1, <1>2, <1>3

(* A run adds no source to its operation and takes none away.               *)
LEMMA RunKeepsSources ==
  ASSUME KnowledgeTypeInv, NEW g \in Operations, RunStep(g)
  PROVE  \A s \in Sources : progress'[g][s] = "none" <=> progress[g][s] = "none"
BY LoadIsOf, FailIsOf, StageIsOf, OthersAreOf DEF RunStep

LEMMA RunStaging ==
  ASSUME KnowledgeTypeInv, OrderInv, StagingInv, NEW g \in Operations, RunStep(g)
  PROVE  StagingInv'
<1>1. /\ OperationsKept /\ Begun(g)
      /\ UNCHANGED corpus \/ (corpus' = g /\ corpus < g)
  BY RunMoves
<1>2. /\ \A f \in Operations : f # g => worker'[f] = worker[f] /\ progress'[f] = progress[f]
      /\ \A f \in Generations : f # g => chunks'[f] = chunks[f]
      /\ \A f \in Operations : operation'[f].listed = operation[f].listed
  BY RunIsLocal
<1>3. \A f \in Operations, s \in Sources : progress'[f][s] = "none" <=> progress[f][s] = "none"
  BY <1>2, RunKeepsSources
<1>4. \A f \in Operations : SourcesOf(f)' = SourcesOf(f)
  BY <1>3 DEF SourcesOf
<1>5. corpus \in Nat /\ corpus' \in Nat /\ corpus <= corpus' /\ Operations \subseteq Nat
  BY <1>1, OperationSets DEF KnowledgeTypeInv, TableInv
<1>6. \A s \in Sources : chunks'[g][s] # 0 => chunks[g][s] # 0 \/ progress[g][s] # "none"
  BY StageIsOf, OthersAreOf DEF RunStep, LoadSource, FailSource
<1>7. \A f \in Operations, s \in Sources :
        corpus' < f /\ chunks'[f][s] # 0 => progress'[f][s] # "none"
  BY <1>2, <1>3, <1>5, <1>6, OperationSets DEF StagingInv
<1>8. worker'[g].pc = "promote" => worker'[g].todo = {}
  BY LoadIsOf, FailIsOf, StageIsOf, OthersAreOf DEF RunStep, FailSource, Takes
<1>9. corpus' \in Operations =>
        /\ worker'[corpus'].todo = {} /\ worker'[corpus'].pc # "stage"
        /\ \A s \in Sources : progress'[corpus'][s] \in {"none", "completed"}
  <2>1. CASE corpus' # corpus
    <3>1. corpus' = g /\ Promote(g) /\ IsComplete(g) /\ worker'[g].todo = worker[g].todo
          /\ worker'[g].pc = "complete"
      BY <2>1, PromotionIsOf
    <3>2. worker[g].todo = {} /\ UNCHANGED progress
      BY <3>1, OthersAreOf DEF Promote, StagingInv
    <3>3. Completed(g) = SourcesOf(g)
      BY <1>1, <3>1, CompleteIsWhole
    <3>4. \A s \in Sources : progress[g][s] \in {"none", "completed"}
      BY <3>3 DEF Completed, SourcesOf
    <3>5. QED
      BY <3>1, <3>2, <3>4
  <2>2. CASE corpus' = corpus /\ corpus # g
    BY <1>2, <2>2 DEF StagingInv
  <2>3. CASE corpus' = corpus /\ corpus = g
    <3>1. worker[g].todo = {} /\ worker[g].pc # "stage"
          /\ \A s \in Sources : progress[g][s] \in {"none", "completed"}
      BY <2>3 DEF StagingInv
    <3>2. Claim(g) \/ Validate(g) \/ Promote(g) \/ MarkCompleted(g) \/ FailOperation(g)
      BY <3>1 DEF RunStep, LoadSource, FailSource, Takes, StageSource
    <3>3. /\ UNCHANGED progress /\ worker'[g].pc # "stage"
          /\ \/ worker'[g].todo \subseteq worker[g].todo
             \/ worker'[g].todo = {s \in SourcesOf(g) : progress[g][s] # "completed"}
      BY <3>2, OthersAreOf
    <3>4. worker'[g].todo = {}
      BY <3>1, <3>3 DEF SourcesOf
    <3>5. QED
      BY <2>3, <3>1, <3>3, <3>4
  <2>4. QED
    BY <2>1, <2>2, <2>3
<1>10. \A f \in Operations, s \in Sources :
         operation'[f].status = "none" => progress'[f][s] = "none"
  BY <1>1, <1>3 DEF StagingInv, OperationsKept, Begun
<1>11. \A f \in Operations :
         operation'[f].status # "none" => Cardinality(SourcesOf(f)') <= operation'[f].listed
  BY <1>1, <1>2, <1>4 DEF StagingInv, OperationsKept, Begun
<1>12. \A f \in Operations : worker'[f].pc = "promote" => worker'[f].todo = {}
  BY <1>2, <1>8 DEF StagingInv
<1>13. QED
  BY <1>7, <1>9, <1>10, <1>11, <1>12 DEF StagingInv, Begun

LEMMA CreateStaging ==
  ASSUME KnowledgeTypeInv, OrderInv, StagingInv, NEW g \in Operations, CreateOperation(g)
  PROVE  StagingInv'
<1> USE DEF KnowledgeTypeInv
<1> DEFINE present == {s \in Sources : Present(s)}
<1>1. ~Begun(g) /\ UNCHANGED <<corpus, chunks>>
  BY DEF CreateOperation, Begun
<1>2. corpus \in Generations /\ corpus # g
  BY <1>1 DEF OrderInv, TableInv
<1>3. \A f \in Operations : f # g =>
        operation'[f] = operation[f] /\ progress'[f] = progress[f] /\ worker'[f] = worker[f]
  BY DEF CreateOperation, GotoWorker, TableInv, WorkerInv
<1>4. /\ operation'[g].status = "pending" /\ operation'[g].listed = Cardinality(present)
      /\ \A s \in Sources : progress'[g][s] = IF Present(s) THEN "pending" ELSE "none"
      /\ worker'[g].pc = "claim"
  BY DEF CreateOperation, GotoWorker, TableInv, WorkerInv, Worker
<1>5. SourcesOf(g)' = present
  BY <1>4 DEF SourcesOf
<1>6. Cardinality(SourcesOf(g)') <= operation'[g].listed
  BY <1>4, <1>5, NumberOfSources
<1>7. \A f \in Operations : f # g => SourcesOf(f)' = SourcesOf(f)
  BY <1>3 DEF SourcesOf
<1>8. \A s \in Sources : corpus < g => chunks[g][s] = 0
  BY <1>1 DEF StagingInv
<1>9. \A f \in Operations, s \in Sources :
        operation'[f].status = "none" => progress'[f][s] = "none"
  BY <1>3, <1>4 DEF StagingInv, Begun
<1>10. \A f \in Operations :
        operation'[f].status # "none" => Cardinality(SourcesOf(f)') <= operation'[f].listed
  BY <1>3, <1>6, <1>7 DEF StagingInv, Begun
<1>11. \A f \in Operations, s \in Sources :
         corpus' < f /\ chunks'[f][s] # 0 => progress'[f][s] # "none"
  BY <1>1, <1>3, <1>8 DEF StagingInv
<1>12. \A f \in Operations : worker'[f].pc = "promote" => worker'[f].todo = {}
  BY <1>3, <1>4 DEF StagingInv
<1>13. corpus' \in Operations =>
        /\ worker'[corpus'].todo = {} /\ worker'[corpus'].pc # "stage"
        /\ \A s \in Sources : progress'[corpus'][s] \in {"none", "completed"}
  BY <1>1, <1>2, <1>3 DEF StagingInv
<1>14. QED
  BY <1>9, <1>10, <1>11, <1>12, <1>13 DEF StagingInv, Begun

LEMMA OperatorStaging ==
  ASSUME KnowledgeTypeInv, OrderInv, StagingInv, NEW g \in Operations, OperatorStep(g)
  PROVE  StagingInv' /\ UNCHANGED chunks
<1>1. CASE CreateOperation(g)
  BY <1>1, CreateStaging DEF CreateOperation
<1>2. CASE RunAgain(g)
  <2>1. UNCHANGED <<corpus, operation, progress, chunks>>
    BY <1>2 DEF RunAgain, corpusTables
  <2>2. \A f \in Operations : /\ worker'[f].todo = worker[f].todo
                              /\ worker'[f].pc \in {worker[f].pc, "claim"}
    BY <1>2 DEF RunAgain, GotoWorker, KnowledgeTypeInv, WorkerInv, Worker
  <2>3. QED
    BY <2>1, <2>2 DEF StagingInv, Begun, SourcesOf
<1>3. QED
  BY <1>1, <1>2 DEF OperatorStep

LEMMA EditStaging ==
  ASSUME KnowledgeTypeInv, StagingInv, EditStep
  PROVE  /\ StagingInv'
         /\ \A g \in Generations, s \in Sources : chunks'[g][s] \in {0, chunks[g][s]}
<1> USE DEF KnowledgeTypeInv
<1>1. PICK s \in Sources : CreateSource(s) \/ UpdateSource(s) \/ DeleteChunks(s) \/ DeleteSource(s)
  BY DEF EditStep
<1>2. UNCHANGED <<corpus, operation, worker>>
  BY DEF EditStep
<1>3. CASE UNCHANGED <<chunks, progress>>
  BY <1>2, <1>3 DEF StagingInv, Begun, SourcesOf
<1>4. ASSUME \A g \in Generations, t \in Sources :
               chunks'[g][t] = IF t = s THEN 0 ELSE chunks[g][t],
             \A g \in Operations, t \in Sources :
               progress'[g][t] \in IF t = s THEN {"none", progress[g][t]} ELSE {progress[g][t]}
      PROVE  StagingInv'
  <2>1. ASSUME NEW g \in Operations, Begun(g)
        PROVE  Cardinality(SourcesOf(g)') <= operation'[g].listed
    <3>1. SourcesOf(g) \in SUBSET Sources /\ SourcesOf(g)' \in SUBSET SourcesOf(g)
      BY <1>4 DEF SourcesOf
    <3>2. IsFiniteSet(SourcesOf(g)) /\ Cardinality(SourcesOf(g)) \in Nat
          /\ Cardinality(SourcesOf(g)') \in Nat
      BY <3>1, NumberOfSources
    <3>3. Cardinality(SourcesOf(g)') <= Cardinality(SourcesOf(g))
      BY <3>1, <3>2, FS_Subset
    <3>4. operation[g].listed \in Nat
      BY NumberOfSources DEF TableInv, OperationRow
    <3>5. QED
      BY <1>2, <2>1, <3>2, <3>3, <3>4 DEF StagingInv
  <2>2. \A g \in Operations, t \in Sources :
          corpus < g /\ chunks'[g][t] # 0 => progress'[g][t] # "none"
    <3>1. \A g \in Operations, t \in Sources :
            chunks'[g][t] # 0 => chunks'[g][t] = chunks[g][t] /\ progress'[g][t] = progress[g][t]
      BY <1>4, OperationSets
    <3>2. QED
      BY <1>2, <3>1 DEF StagingInv
  <2>3. \A g \in Operations, t \in Sources :
          /\ progress[g][t] = "none" => progress'[g][t] = "none"
          /\ progress[g][t] \in {"none", "completed"} => progress'[g][t] \in {"none", "completed"}
    BY <1>4
  <2>4. QED
    BY <1>2, <2>1, <2>2, <2>3 DEF StagingInv, Begun
<1>5. CASE DeleteChunks(s) \/ DeleteSource(s)
  <2>1. \A g \in Generations, t \in Sources : chunks'[g][t] = IF t = s THEN 0 ELSE chunks[g][t]
    BY <1>5 DEF DeleteChunks, DeleteSource, ChunkInv
  <2>2. \A g \in Operations, t \in Sources :
          progress'[g][t] \in IF t = s THEN {"none", progress[g][t]} ELSE {progress[g][t]}
    BY <1>5 DEF DeleteChunks, DeleteSource, TableInv, Progress
  <2>3. QED
    BY <1>4, <2>1, <2>2
<1>6. QED
  BY <1>1, <1>3, <1>5 DEF CreateSource, UpdateSource

LEMMA JobStaging ==
  ASSUME KnowledgeTypeInv, StagingInv, NEW j \in Jobs, JobStep(j)
  PROVE  /\ StagingInv'
         /\ \A s \in Sources : chunks'[corpus][s] # chunks[corpus][s] =>
              job[j].source = s /\ job'[j].pc = "complete"
<1> USE DEF KnowledgeTypeInv
<1>1. UNCHANGED <<corpus, operation, progress, worker>>
  BY DEF JobStep, corpusTables
<1>2. CASE UNCHANGED chunks
  BY <1>1, <1>2 DEF StagingInv, Begun, SourcesOf
<1>3. CASE WriteActive(j)
  <2>1. /\ \A g \in Generations : g # corpus => chunks'[g] = chunks[g]
        /\ \A s \in Sources : s # job[j].source => chunks'[corpus][s] = chunks[corpus][s]
        /\ job'[j].pc = "complete"
    BY <1>3 DEF WriteActive, Ingest, ChunkInv, TableInv, JobInv, Job
  <2>2. \A g \in Operations : corpus < g => g # corpus /\ g \in Generations
    BY OperationSets DEF TableInv
  <2>3. \A g \in Operations : corpus < g => chunks'[g] = chunks[g]
    BY <2>1, <2>2
  <2>4. QED
    BY <1>1, <2>1, <2>3 DEF StagingInv, Begun, SourcesOf
<1>4. QED
  BY <1>2, <1>3 DEF JobStep, StartJob, WriteFails, CompleteJob, FailJob, sourceTables

LEMMA BootStaging ==
  ASSUME KnowledgeTypeInv, StagingInv, Boot
  PROVE  StagingInv' /\ UNCHANGED chunks
<1>1. UNCHANGED <<corpus, chunks>>
  BY DEF Boot, sourceTables
<1>2. \A g \in Operations, s \in Sources :
        progress'[g][s] = progress[g][s] \/ (progress[g][s] = "running" /\ progress'[g][s] = "failed")
  BY DEF Boot, Recover
<1>3. \A g \in Operations : /\ operation'[g].status = "none" <=> operation[g].status = "none"
                            /\ operation'[g].listed = operation[g].listed
  BY DEF Boot, Recover, KnowledgeTypeInv, TableInv, OperationRow
<1>4. \A g \in Operations : worker'[g].todo = {} /\ worker'[g].pc \in {"idle", "claim"}
  BY DEF Boot, Recover, IdleWorker
<1>5. \A g \in Operations : SourcesOf(g)' = SourcesOf(g)
  BY <1>2 DEF SourcesOf
<1>6. QED
  BY <1>1, <1>2, <1>3, <1>4, <1>5 DEF StagingInv, Begun

LEMMA NextStaging ==
  ASSUME KnowledgeTypeInv, OrderInv, StagingInv, [KnowledgeNext]_knowledgeVars
  PROVE  StagingInv'
<1>1. CASE UNCHANGED <<corpus, operation, progress, chunks, worker>>
  BY <1>1 DEF StagingInv, Begun, SourcesOf
<1>2. ASSUME NEW g \in Operations, WorkerStep(g)
      PROVE  StagingInv'
  BY <1>2, RunStaging DEF WorkerStep
<1>3. QED
  BY <1>1, <1>2, EditStaging, OperatorStaging, JobStaging, BootStaging
     DEF KnowledgeNext, ReaderStep, KnowledgeQuiet, knowledgeVars, corpusTables, sourceTables

LEMMA StagingInvHolds == KnowledgeSpec => []StagingInv
<1>1. KnowledgeInit => StagingInv
  <2> SUFFICES ASSUME KnowledgeInit PROVE StagingInv
    OBVIOUS
  <2>1. \A g \in Operations : ~Begun(g) /\ g \in Generations /\ g # 0
    BY OperationSets DEF KnowledgeInit, Begun
  <2>2. \A g \in Operations, s \in Sources : progress[g][s] = "none" /\ chunks[g][s] = 0
    BY <2>1 DEF KnowledgeInit
  <2>3. \A g \in Operations : worker[g].pc = "idle"
    BY DEF KnowledgeInit, IdleWorker
  <2>4. corpus \notin Operations
    BY <2>1 DEF KnowledgeInit
  <2>5. QED
    BY <2>1, <2>2, <2>3, <2>4 DEF StagingInv
<1>2. KnowledgeTypeInv /\ OrderInv /\ StagingInv /\ [KnowledgeNext]_knowledgeVars => StagingInv'
  BY NextStaging
<1>3. QED
  BY <1>1, <1>2, KnowledgeTypeInvHolds, OrderInvHolds, PTL DEF KnowledgeSpec

LEMMA PromotionStep ==
  ASSUME KnowledgeTypeInv, OrderInv, StagingInv, [KnowledgeNext]_knowledgeVars, corpus' # corpus
  PROVE  \A s \in SourcesOf(corpus') : chunks[corpus'][s] # 0
<1>1. PICK g \in Operations : RunStep(g)
  BY DEF KnowledgeNext, EditStep, WorkerStep, OperatorStep, CreateOperation, RunAgain, JobStep,
     ReaderStep, Boot, KnowledgeQuiet, knowledgeVars, corpusTables
<1>2. QED
  BY <1>1, PromotionIsOf, CompleteIsWhole

(* A promoted generation has chunks of every source of its operation, for   *)
(* any number of sources, though the promotion counts them.                 *)
THEOREM PromotionsAreWhole == KnowledgeSpec => PromotionIsWhole
<1>1. KnowledgeTypeInv /\ OrderInv /\ StagingInv /\ [KnowledgeNext]_knowledgeVars =>
        [corpus' # corpus => \A s \in SourcesOf(corpus') : chunks[corpus'][s] # 0]_knowledgeVars
  BY PromotionStep
<1>2. QED
  BY <1>1, KnowledgeTypeInvHolds, OrderInvHolds, StagingInvHolds, PTL
     DEF KnowledgeSpec, PromotionIsWhole

LEMMA ActiveStep ==
  ASSUME KnowledgeTypeInv, OrderInv, StagingInv, [KnowledgeNext]_knowledgeVars
  PROVE  \A s \in Sources : chunks'[corpus][s] \notin {0, chunks[corpus][s]} =>
           \E j \in Jobs : job[j].source = s /\ job'[j].pc = "complete"
<1>1. CASE UNCHANGED chunks
  BY <1>1
<1>2. ASSUME NEW g \in Operations, WorkerStep(g)
      PROVE  chunks'[corpus] = chunks[corpus]
  <2>1. RunStep(g) /\ corpus \in Generations
    BY <1>2 DEF WorkerStep, KnowledgeTypeInv, TableInv
  <2>2. CASE corpus # g
    BY <2>1, <2>2, RunIsLocal
  <2>3. CASE corpus = g
    <3>1. ~StageSource(g)
      BY <2>3 DEF StagingInv, StageSource
    <3>2. QED
      BY <2>1, <3>1, OthersAreOf DEF RunStep, LoadSource, FailSource
  <2>4. QED
    BY <2>2, <2>3
<1>3. corpus \in Generations
  BY DEF KnowledgeTypeInv, TableInv
<1>4. QED
  BY <1>1, <1>2, <1>3, EditStaging, OperatorStaging, JobStaging, BootStaging
     DEF KnowledgeNext, ReaderStep, KnowledgeQuiet, knowledgeVars, sourceTables

(* No run of an operation, first, retried or recovered, writes into the     *)
(* active generation, for any number of operations.                         *)
THEOREM ActiveIsNotStaged == KnowledgeSpec => ActiveChangesByIngestion
<1>1. KnowledgeTypeInv /\ OrderInv /\ StagingInv /\ [KnowledgeNext]_knowledgeVars =>
        [\A s \in Sources :
           chunks'[corpus][s] \notin {0, chunks[corpus][s]} =>
             \E j \in Jobs : job[j].source = s /\ job'[j].pc = "complete"]_knowledgeVars
  BY ActiveStep
<1>2. QED
  BY <1>1, KnowledgeTypeInvHolds, OrderInvHolds, StagingInvHolds, PTL
     DEF KnowledgeSpec, ActiveChangesByIngestion

-----------------------------------------------------------------------------
(* What is served.  A generation that is promoted is current because each   *)
(* source was loaded after it was last ingested, or is counted as missed.   *)

Ready(s) == source[s].status = "ready"
Served(s) == Present(s) /\ 0 < ingested[s] /\ s \notin unserved

VersionInv ==
  /\ \A s \in Sources : source[s].status = "absent" => ingested[s] = 0 /\ source[s].version = 0
  /\ \A s \in Sources : Present(s) => 0 < source[s].version
  /\ \A s \in Sources : ingested[s] <= source[s].version
  /\ \A s \in Sources : Ready(s) => 0 < ingested[s]
  /\ \A j \in Jobs : job[j].pc = "write" =>
       0 < job[j].version /\ job[j].version <= source[job[j].source].version
  /\ \A j \in Jobs : job[j].pc = "complete" => 0 < ingested[job[j].source]

ListInv ==
  /\ \A g \in Operations, s \in Sources :
       progress[g][s] # "none" => source[s].status # "absent"
  /\ \A g \in Operations : \A s \in worker[g].todo :
       source[s].status # "absent" /\ (Present(s) => progress[g][s] # "none")

CurrentInv ==
  /\ \A s \in Sources : Served(s) => ingested[s] <= chunks[corpus][s]
  /\ \A g \in Operations, s \in Sources :
       Served(s) /\ s \notin missed[g] /\ progress[g][s] = "completed" =>
         ingested[s] <= chunks[g][s]
  /\ \A g \in Operations, s \in Sources :
       worker[g].pc = "stage" /\ worker[g].at = s /\ s \notin missed[g] =>
         ingested[s] <= worker[g].version
  /\ \A g \in Operations, s \in Sources :
       Begun(g) /\ Present(s) /\ 0 < ingested[s] /\ progress[g][s] = "none" => s \in missed[g]

ServedInv == VersionInv /\ ListInv /\ CurrentInv

LEMMA IngestedTypes ==
  ASSUME KnowledgeTypeInv
  PROVE  /\ \A s \in Sources : ingested[s] \in Nat /\ source[s].version \in Nat
         /\ \A g \in Generations, s \in Sources : chunks[g][s] \in Nat
BY Naturals DEF KnowledgeTypeInv, IngestInv, SourceInv, SourceRow, ChunkInv, Versions

LEMMA EditServed ==
  ASSUME KnowledgeTypeInv, ServedInv, EditStep
  PROVE  ServedInv'
<1> USE DEF KnowledgeTypeInv, ServedInv
<1>1. PICK s \in Sources : CreateSource(s) \/ UpdateSource(s) \/ DeleteChunks(s) \/ DeleteSource(s)
  BY DEF EditStep
<1>2. UNCHANGED <<corpus, operation, worker, job, ingested, missed>>
  BY DEF EditStep
<1>3. \A t \in Sources : t # s => source'[t] = source[t]
  BY <1>1 DEF CreateSource, UpdateSource, DeleteChunks, DeleteSource, SourceInv
<1>4. /\ \A g \in Operations, t \in Sources :
           progress'[g][t] = progress[g][t] \/ (t = s /\ progress'[g][t] = "none")
      /\ \A g \in Generations, t \in Sources :
           chunks'[g][t] = chunks[g][t] \/ (t = s /\ chunks'[g][t] = 0)
  BY <1>1 DEF CreateSource, UpdateSource, DeleteChunks, DeleteSource, TableInv, Progress, ChunkInv
<1>5. unserved \subseteq unserved' /\ \A t \in unserved' : t # s => t \in unserved
  BY <1>1 DEF CreateSource, UpdateSource, DeleteChunks, DeleteSource
<1>6. corpus \in Generations /\ Operations \subseteq Generations
      /\ (\A j \in Jobs : job[j].pc \in {"write", "complete", "fail"} => job[j].source \in Sources)
      /\ (\A g \in Operations : worker[g].todo \subseteq Sources)
  BY OperationSets DEF TableInv, JobInv, WorkerInv, Worker
<1>7. CASE CreateSource(s)
  <2>1. /\ source[s].status = "absent" /\ source'[s].status = "pending" /\ source'[s].version = 1
        /\ UNCHANGED <<chunks, progress, unserved>>
    BY <1>7 DEF CreateSource, SourceInv
  <2>2. ingested[s] = 0 /\ source[s].version = 0
        /\ (\A g \in Operations : progress[g][s] = "none" /\ s \notin worker[g].todo)
    BY <2>1 DEF VersionInv, ListInv
  <2>3. VersionInv'
    <3>1. \A j \in Jobs : job[j].pc = "write" => job[j].version \in Nat
      BY Naturals DEF JobInv, Job, Versions
    <3>2. QED
      BY <1>2, <1>3, <1>6, <2>1, <2>2, <3>1 DEF VersionInv, Present, Ready
  <2>4. ListInv'
    BY <1>2, <1>3, <1>6, <2>1, <2>2 DEF ListInv, Present
  <2>5. CurrentInv'
    BY <1>2, <1>3, <1>6, <2>1, <2>2 DEF CurrentInv, Served, Present, Begun
  <2>6. QED
    BY <2>3, <2>4, <2>5
<1>8. CASE UpdateSource(s)
  <2>1. /\ Present(s) /\ source'[s].status = "pending"
        /\ source'[s].version = source[s].version + 1
        /\ UNCHANGED <<chunks, progress, unserved>>
    BY <1>8 DEF UpdateSource, SourceInv
  <2>2. source[s].version \in Nat /\ ingested[s] \in Nat
        /\ \A j \in Jobs : job[j].pc = "write" => job[j].version \in Nat
    BY Naturals, IngestedTypes DEF JobInv, Job, Versions
  <2>3. VersionInv'
    BY <1>2, <1>3, <1>6, <2>1, <2>2 DEF VersionInv, Present, Ready
  <2>4. ListInv'
    BY <1>2, <1>3, <1>6, <2>1 DEF ListInv, Present
  <2>5. CurrentInv'
    BY <1>2, <1>3, <1>6, <2>1 DEF CurrentInv, Served, Present, Begun
  <2>6. QED
    BY <2>3, <2>4, <2>5
<1>9. CASE DeleteChunks(s) \/ DeleteSource(s)
  <2>1. /\ source'[s].version = source[s].version
        /\ source'[s].status \in {source[s].status, "deleted"}
        /\ s \in unserved' /\ Present(s)
    BY <1>9 DEF DeleteChunks, DeleteSource, SourceInv, SourceRow
  <2>2. \A t \in Sources : Present(t)' => Present(t)
    BY <1>3, <2>1 DEF Present
  <2>3. \A g \in Operations : progress'[g][s] = "none" => progress[g][s] = "none" \/ ~Present(s)'
    BY <1>9 DEF DeleteChunks, DeleteSource, Present, SourceInv, SourceRow
  <2>4. VersionInv'
    BY <1>2, <1>3, <1>6, <2>1, <2>2 DEF VersionInv, Ready, Present
  <2>5. ListInv'
    BY <1>2, <1>3, <1>4, <1>6, <2>1, <2>2, <2>3 DEF ListInv, Present
  <2>6. CurrentInv'
    <3>1. \A t \in Sources : Served(t)' => Served(t) /\ t # s
      BY <1>2, <1>5, <2>1, <2>2 DEF Served
    <3>2. QED
      BY <1>2, <1>4, <1>6, <2>2, <2>3, <3>1 DEF CurrentInv, Begun
  <2>7. QED
    BY <2>4, <2>5, <2>6
<1>10. QED
  BY <1>1, <1>7, <1>8, <1>9

LEMMA RunServed ==
  ASSUME KnowledgeTypeInv, OrderInv, StagingInv, ServedInv, NEW g \in Operations, RunStep(g),
         UNCHANGED <<source, job, ingested>>
  PROVE  ServedInv'
<1> USE DEF KnowledgeTypeInv, ServedInv
<1>1. VersionInv' /\ \A s \in Sources : Present(s)' = Present(s)
  BY DEF VersionInv, Ready, Present
<1>2. /\ OperationsKept /\ Begun(g)
      /\ UNCHANGED corpus \/ (corpus' = g /\ corpus < g)
  BY RunMoves
<1>3. /\ \A f \in Operations : f # g =>
           worker'[f] = worker[f] /\ progress'[f] = progress[f] /\ missed'[f] = missed[f]
      /\ \A f \in Generations : f # g => chunks'[f] = chunks[f]
  BY RunIsLocal
<1>4. corpus \in Generations /\ Operations \subseteq Generations /\ worker[g].todo \subseteq Sources
  BY OperationSets DEF TableInv, WorkerInv, Worker
<1>5. \A f \in Operations, s \in Sources : progress'[f][s] = "none" <=> progress[f][s] = "none"
  BY <1>3, RunKeepsSources
<1>6. \/ worker'[g].todo \subseteq worker[g].todo
      \/ worker'[g].todo = {s \in SourcesOf(g) : progress[g][s] # "completed"}
  BY LoadIsOf, FailIsOf, StageIsOf, OthersAreOf DEF RunStep
<1>7. ListInv'
  <2>1. \A s \in worker'[g].todo : s \in Sources /\ source[s].status # "absent"
                                   /\ (Present(s) => progress[g][s] # "none")
    BY <1>4, <1>6 DEF ListInv, SourcesOf
  <2>2. \A f \in Operations : worker[f].todo \subseteq Sources
    BY DEF WorkerInv, Worker
  <2>3. \A f \in Operations : \A s \in worker'[f].todo :
          source[s].status # "absent" /\ (Present(s) => progress'[f][s] # "none")
    BY <1>3, <1>5, <2>1, <2>2 DEF ListInv
  <2>4. QED
    BY <1>1, <1>4, <1>5, <1>6, <2>1, <2>3 DEF ListInv, Present
<1>8. CurrentInv'
  <2>1. CASE corpus' # corpus
    <3>1. /\ corpus' = g /\ Promote(g) /\ Activate(g) /\ IsComplete(g)
          /\ worker'[g].pc = "complete"
      BY <2>1, PromotionIsOf DEF Promote, corpusTables
    <3>2. unserved' = unserved \cup missed[g] /\ UNCHANGED <<progress, chunks, missed>>
      BY <3>1 DEF Activate
    <3>3. Completed(g) = SourcesOf(g)
      BY <1>2, <3>1, CompleteIsWhole
    <3>4. \A s \in Sources : Served(s)' => Served(s) /\ s \notin missed[g]
      BY <1>1, <3>2 DEF Served
    <3>5. \A s \in Sources : Served(s)' => progress[g][s] = "completed"
      BY <1>2, <3>3, <3>4 DEF CurrentInv, Served, Completed, SourcesOf
    <3>6. \A s \in Sources : Served(s)' => ingested[s] <= chunks[g][s]
      BY <3>4, <3>5 DEF CurrentInv
    <3>7. \A f \in Operations : worker'[f].pc = "stage" => worker'[f] = worker[f]
      BY <1>3, <3>1
    <3>8. QED
      BY <1>1, <1>2, <3>1, <3>2, <3>4, <3>6, <3>7 DEF CurrentInv, OperationsKept, Begun
  <2>2. CASE UNCHANGED corpus
    <3>1. UNCHANGED unserved
      <4>1. ASSUME Activate(g), corpus = operation[g].expected
            PROVE  FALSE
        <5>1. corpus = g /\ g \in Nat
          BY <2>2, <4>1, OperationSets DEF Activate
        <5>2. corpus < g
          BY <1>2, <4>1 DEF OrderInv
        <5>3. QED
          BY <5>1, <5>2
      <4>2. Promote(g) => UNCHANGED unserved
        BY <4>1 DEF Promote
      <4>3. QED
        BY <4>2 DEF RunStep, Claim, LoadSource, FailSource, StageSource, Validate, MarkCompleted,
           FailOperation
    <3>2. \A s \in Sources : Served(s)' = Served(s)
      BY <1>1, <3>1 DEF Served
    <3>3. ASSUME chunks'[corpus] = chunks[corpus],
                 \A s \in Sources :
                   Served(s) /\ s \notin missed'[g] /\ progress'[g][s] = "completed" =>
                     ingested[s] <= chunks'[g][s],
                 \A s \in Sources :
                   worker'[g].pc = "stage" /\ worker'[g].at = s /\ s \notin missed'[g] =>
                     ingested[s] <= worker'[g].version,
                 \A s \in Sources :
                   Present(s) /\ 0 < ingested[s] /\ progress[g][s] = "none" => s \in missed'[g]
          PROVE  CurrentInv'
      <4>1. \A s \in Sources : Served(s)' => ingested'[s] <= chunks'[corpus'][s]
        BY <2>2, <3>2, <3>3 DEF CurrentInv
      <4>2. \A f \in Operations, s \in Sources :
              Served(s)' /\ s \notin missed'[f] /\ progress'[f][s] = "completed" =>
                ingested'[s] <= chunks'[f][s]
        BY <1>3, <1>4, <3>2, <3>3 DEF CurrentInv
      <4>3. \A f \in Operations, s \in Sources :
              worker'[f].pc = "stage" /\ worker'[f].at = s /\ s \notin missed'[f] =>
                ingested'[s] <= worker'[f].version
        BY <1>3, <3>3 DEF CurrentInv
      <4>4. \A f \in Operations, s \in Sources :
              Begun(f) /\ Present(s) /\ 0 < ingested[s] /\ progress'[f][s] = "none" =>
                s \in missed'[f]
        BY <1>2, <1>3, <1>5, <3>3 DEF CurrentInv
      <4>5. QED
        BY <1>1, <1>2, <4>1, <4>2, <4>3, <4>4 DEF CurrentInv, OperationsKept, Begun
    <3>4. ASSUME NEW s \in Sources, LoadSource(g, s)
          PROVE  CurrentInv'
      <4>1. /\ worker'[g].at = s /\ worker'[g].version = source[s].version
            /\ progress'[g][s] # "completed" /\ missed'[g] = missed[g] \ {s}
            /\ \A t \in Sources : t # s => progress'[g][t] = progress[g][t]
        <5>1. progress'[g][s] = IF progress[g][s] = "none" THEN "none" ELSE "running"
          BY <3>4, LoadIsOf
        <5>2. progress'[g][s] # "completed"
          BY <5>1
        <5>3. QED
          BY <3>4, <5>2, LoadIsOf
      <4>2. s \in worker[g].todo /\ Present(s) /\ UNCHANGED chunks
        BY <3>4 DEF LoadSource, Takes
      <4>3. progress[g][s] # "none" /\ ingested[s] <= source[s].version
        BY <4>2 DEF ListInv, VersionInv
      <4>4. \A t \in Sources :
              Served(t) /\ t \notin missed'[g] /\ progress'[g][t] = "completed" =>
                ingested[t] <= chunks'[g][t]
        BY <4>1, <4>2 DEF CurrentInv
      <4>5. \A t \in Sources :
              Present(t) /\ 0 < ingested[t] /\ progress[g][t] = "none" => t \in missed'[g]
        BY <1>2, <4>1, <4>3 DEF CurrentInv
      <4>6. QED
        BY <3>3, <4>1, <4>2, <4>3, <4>4, <4>5
    <3>5. ASSUME NEW s \in Sources, FailSource(g, s)
          PROVE  CurrentInv'
      <4>1. /\ worker'[g].pc = "next" /\ UNCHANGED <<chunks, missed>>
            /\ \A t \in Sources : progress'[g][t] = "completed" => progress[g][t] = "completed"
        BY <3>5, FailIsOf DEF FailSource, Takes
      <4>2. \A t \in Sources :
              Present(t) /\ 0 < ingested[t] /\ progress[g][t] = "none" => t \in missed'[g]
        BY <1>2, <4>1 DEF CurrentInv
      <4>3. QED
        BY <3>3, <4>1, <4>2 DEF CurrentInv
    <3>6. CASE StageSource(g)
      <4>1. /\ worker'[g].pc = "next" /\ UNCHANGED missed
            /\ \A s \in Sources :
                 /\ progress'[g][s] = IF s = worker[g].at /\ progress[g][s] # "none"
                                      THEN "completed" ELSE progress[g][s]
                 /\ chunks'[g][s] = IF s = worker[g].at /\ progress[g][s] # "none"
                                    THEN worker[g].version ELSE chunks[g][s]
            /\ worker[g].pc = "stage"
        BY <3>6, StageIsOf DEF StageSource
      <4>2. chunks'[corpus] = chunks[corpus]
        BY <1>3, <1>4, <4>1 DEF StagingInv
      <4>3. \A s \in Sources :
              Served(s) /\ s \notin missed'[g] /\ progress'[g][s] = "completed" =>
                ingested[s] <= chunks'[g][s]
        BY <4>1 DEF CurrentInv
      <4>4. \A s \in Sources :
              Present(s) /\ 0 < ingested[s] /\ progress[g][s] = "none" => s \in missed'[g]
        BY <1>2, <4>1 DEF CurrentInv
      <4>5. QED
        BY <3>3, <4>1, <4>2, <4>3, <4>4
    <3>7. CASE Claim(g) \/ Validate(g) \/ Promote(g) \/ MarkCompleted(g) \/ FailOperation(g)
      <4>1. UNCHANGED <<progress, chunks, missed>> /\ worker'[g].pc # "stage"
        BY <3>7, OthersAreOf
      <4>2. QED
        BY <1>2, <3>3, <4>1 DEF CurrentInv
    <3>8. QED
      BY <3>4, <3>5, <3>6, <3>7 DEF RunStep
  <2>3. QED
    BY <2>1, <2>2
<1>9. QED
  BY <1>1, <1>7, <1>8

LEMMA OperatorServed ==
  ASSUME KnowledgeTypeInv, OrderInv, ServedInv, NEW g \in Operations, OperatorStep(g)
  PROVE  ServedInv'
<1> USE DEF KnowledgeTypeInv, ServedInv
<1>1. UNCHANGED <<source, job, ingested, corpus, chunks, missed, unserved>>
  BY DEF OperatorStep, CreateOperation, RunAgain, corpusTables
<1>2. VersionInv' /\ (\A s \in Sources : Present(s)' = Present(s) /\ Served(s)' = Served(s))
  BY <1>1 DEF VersionInv, Ready, Present, Served
<1>3. \A f \in Operations :
        /\ worker'[f].pc = "stage" => worker'[f] = worker[f]
        /\ worker'[f].todo = worker[f].todo
        /\ worker[f].todo \subseteq Sources
  BY DEF OperatorStep, CreateOperation, RunAgain, GotoWorker, WorkerInv, Worker
<1>4. CASE CreateOperation(g)
  <2>1. \A f \in Operations : f # g => progress'[f] = progress[f] /\ operation'[f] = operation[f]
    BY <1>4 DEF CreateOperation, TableInv
  <2>2. \A s \in Sources : progress'[g][s] = IF Present(s) THEN "pending" ELSE "none"
    BY <1>4 DEF CreateOperation, TableInv
  <2>3. ListInv'
    <3>1. \A s \in Sources : Present(s) => source[s].status # "absent"
      BY DEF Present
    <3>2. QED
      BY <1>1, <1>2, <1>3, <2>1, <2>2, <3>1 DEF ListInv
  <2>4. CurrentInv'
    <3>1. \A f \in Operations, s \in Sources :
            progress'[f][s] = "completed" => progress[f][s] = "completed"
      BY <2>1, <2>2
    <3>2. \A f \in Operations, s \in Sources :
            operation'[f].status # "none" /\ Present(s) /\ 0 < ingested[s]
            /\ progress'[f][s] = "none" => s \in missed[f]
      BY <2>1, <2>2 DEF CurrentInv, Begun
    <3>3. QED
      BY <1>1, <1>2, <1>3, <3>1, <3>2 DEF CurrentInv, Begun
  <2>5. QED
    BY <1>2, <2>3, <2>4
<1>5. CASE RunAgain(g)
  <2>1. UNCHANGED <<operation, progress>>
    BY <1>5 DEF RunAgain, corpusTables
  <2>2. QED
    BY <1>1, <1>2, <1>3, <2>1 DEF ListInv, CurrentInv, Begun
<1>6. QED
  BY <1>4, <1>5 DEF OperatorStep

LEMMA JobServed ==
  ASSUME KnowledgeTypeInv, ServedInv, NEW j \in Jobs, JobStep(j)
  PROVE  ServedInv'
<1> USE DEF KnowledgeTypeInv, ServedInv
<1>1. UNCHANGED <<corpus, operation, progress, worker>>
  BY DEF JobStep, corpusTables
<1>2. /\ \A i \in Jobs : i # j => job'[i] = job[i]
      /\ \A i \in Jobs : job[i].pc \in {"write", "complete", "fail"} => job[i].source \in Sources
      /\ \A i \in Jobs : job[i].version \in Nat
      /\ \A g \in Operations : worker[g].todo \subseteq Sources
  BY Naturals DEF JobStep, StartJob, WriteActive, Ingest, WriteFails, CompleteJob, FailJob, JobInv,
     Job, Versions, WorkerInv, Worker
<1>3. ASSUME NEW s \in Sources, StartJob(j, s)
      PROVE  ServedInv'
  <2>1. /\ job'[j].pc = "write" /\ job'[j].source = s /\ job'[j].version = source[s].version
        /\ Present(s) /\ UNCHANGED <<source, chunks, ingested, missed, unserved>>
    BY <1>3 DEF StartJob, sourceTables, ingestVars, JobInv
  <2>2. VersionInv'
    BY <1>2, <2>1, IngestedTypes DEF VersionInv, Ready, Present
  <2>3. QED
    BY <1>1, <2>1, <2>2 DEF ListInv, CurrentInv, Served, Present, Begun
<1>4. CASE WriteActive(j)
  <2> DEFINE s == job[j].source
  <2>1. /\ s \in Sources /\ job[j].version \in Nat /\ job[j].pc = "write"
        /\ corpus = job[j].into /\ Present(s)
    BY <1>2, <1>4 DEF WriteActive
  <2>2. /\ source'[s].status = "ready" /\ source'[s].version = source[s].version
        /\ \A t \in Sources : t # s => source'[t] = source[t]
    BY <1>4, <2>1 DEF WriteActive, Ingest, SourceInv, SourceRow
  <2>3. /\ ingested'[s] = job[j].version
        /\ \A t \in Sources : t # s => ingested'[t] = ingested[t]
        /\ \A g \in Operations : missed'[g] = missed[g] \cup {s}
        /\ unserved' = unserved \ {s}
    BY <1>4, <2>1 DEF WriteActive, Ingest, IngestInv
  <2>4. /\ chunks'[corpus][s] = job[j].version
        /\ \A g \in Generations, t \in Sources : t # s => chunks'[g][t] = chunks[g][t]
    BY <1>4, <2>1 DEF WriteActive, Ingest, ChunkInv, TableInv
  <2>5. job'[j].pc = "complete" /\ job'[j].source = s
    BY <1>4 DEF WriteActive, Ingest, JobInv, Job
  <2>6. 0 < job[j].version /\ job[j].version <= source[s].version
    BY <2>1 DEF VersionInv
  <2>7. corpus \in Generations /\ Operations \subseteq Generations
    BY OperationSets DEF TableInv
  <2>8. \A t \in Sources : t # s =>
          Present(t)' = Present(t) /\ Served(t)' = Served(t)
    BY <2>2, <2>3 DEF Present, Served
  <2> HIDE DEF s
  <2>9. VersionInv'
    <3>1. \A t \in Sources : /\ source'[t].status = "absent" =>
                                  ingested'[t] = 0 /\ source'[t].version = 0
                             /\ Present(t)' => 0 < source'[t].version
                             /\ ingested'[t] <= source'[t].version
                             /\ Ready(t)' => 0 < ingested'[t]
      BY <2>1, <2>2, <2>3, <2>6, <2>8 DEF VersionInv, Ready
    <3>2. \A i \in Jobs : /\ job'[i].pc = "write" => 0 < job'[i].version
                               /\ job'[i].version <= source'[job'[i].source].version
                          /\ job'[i].pc = "complete" => 0 < ingested'[job'[i].source]
      BY <1>2, <2>2, <2>3, <2>5, <2>6 DEF VersionInv
    <3>3. QED
      BY <3>1, <3>2 DEF VersionInv
  <2>10. ListInv'
    BY <1>1, <1>2, <2>1, <2>2, <2>8 DEF ListInv
  <2>11. CurrentInv'
    <3>1. \A t \in Sources : Served(t)' => ingested'[t] <= chunks'[corpus][t]
      BY <2>1, <2>3, <2>4, <2>7, <2>8 DEF CurrentInv
    <3>2. \A g \in Operations, t \in Sources : t \notin missed'[g] => t # s /\ t \notin missed[g]
      BY <2>3
    <3>3. \A g \in Operations, t \in Sources :
            Served(t)' /\ t \notin missed'[g] /\ progress[g][t] = "completed" =>
              ingested'[t] <= chunks'[g][t]
      BY <2>3, <2>4, <2>7, <2>8, <3>2 DEF CurrentInv
    <3>4. \A g \in Operations, t \in Sources :
            worker[g].pc = "stage" /\ worker[g].at = t /\ t \notin missed'[g] =>
              ingested'[t] <= worker[g].version
      BY <2>3, <3>2 DEF CurrentInv
    <3>5. \A g \in Operations, t \in Sources :
            Begun(g) /\ Present(t)' /\ 0 < ingested'[t] /\ progress[g][t] = "none" =>
              t \in missed'[g]
      BY <2>3, <2>8 DEF CurrentInv
    <3>6. QED
      BY <1>1, <3>1, <3>3, <3>4, <3>5 DEF CurrentInv, Begun
  <2>12. QED
    BY <2>9, <2>10, <2>11
<1>5. CASE WriteFails(j) \/ CompleteJob(j) \/ FailJob(j)
  <2>1. UNCHANGED <<chunks, ingested, missed, unserved>> /\ job'[j].pc \notin {"write", "complete"}
    BY <1>5 DEF WriteFails, CompleteJob, FailJob, sourceTables, ingestVars, JobInv, Job, NoJob
  <2>2. \A t \in Sources : /\ source'[t].version = source[t].version
                           /\ Present(t)' = Present(t)
                           /\ source'[t].status = "absent" <=> source[t].status = "absent"
    BY <1>5 DEF WriteFails, CompleteJob, FailJob, SetStatus, sourceTables, SourceInv, SourceRow,
       Present
  <2>3. \A t \in Sources : Ready(t)' => Ready(t) \/ (job[j].pc = "complete" /\ job[j].source = t)
    BY <1>5 DEF WriteFails, CompleteJob, FailJob, SetStatus, sourceTables, SourceInv, SourceRow,
       Ready
  <2>4. VersionInv'
    BY <1>2, <2>1, <2>2, <2>3 DEF VersionInv
  <2>5. QED
    BY <1>1, <1>2, <2>1, <2>2, <2>4 DEF ListInv, CurrentInv, Served, Begun
<1>6. QED
  BY <1>3, <1>4, <1>5 DEF JobStep

LEMMA BootServed ==
  ASSUME KnowledgeTypeInv, ServedInv, Boot
  PROVE  ServedInv'
<1> USE DEF KnowledgeTypeInv, ServedInv
<1>1. UNCHANGED <<corpus, source, chunks, ingested, missed, unserved>>
  BY DEF Boot, sourceTables, ingestVars
<1>2. \A g \in Operations, s \in Sources :
        /\ progress'[g][s] = "none" <=> progress[g][s] = "none"
        /\ progress'[g][s] = "completed" => progress[g][s] = "completed"
  BY DEF Boot, Recover
<1>3. \A g \in Operations : /\ operation'[g].status = "none" <=> operation[g].status = "none"
                            /\ worker'[g].todo = {} /\ worker'[g].pc # "stage"
  BY DEF Boot, Recover, TableInv, OperationRow, IdleWorker
<1>4. \A j \in Jobs : job'[j].pc \in {"idle", "done"}
  BY DEF Boot, NoJob
<1>5. QED
  BY <1>1, <1>2, <1>3, <1>4 DEF VersionInv, ListInv, CurrentInv, Served, Ready, Present, Begun

LEMMA ServedInvHolds == KnowledgeSpec => []ServedInv
<1>1. KnowledgeInit => ServedInv
  <2> SUFFICES ASSUME KnowledgeInit PROVE ServedInv
    OBVIOUS
  <2>1. /\ corpus = 0 /\ 0 \in Generations
        /\ \A s \in Sources : ingested[s] = chunks[0][s]
        /\ \A g \in Operations : ~Begun(g) /\ worker[g].pc = "idle" /\ worker[g].todo = {}
        /\ \A g \in Operations, s \in Sources : progress[g][s] = "none"
        /\ \A j \in Jobs : job[j].pc = "idle"
    BY OperationSets DEF KnowledgeInit, Begun, IdleWorker, NoJob
  <2>2. \A s \in Sources : ingested[s] \in {0, 1} /\ ingested[s] = source[s].version
                           /\ (source[s].status = "absent" <=> ingested[s] = 0)
    BY DEF KnowledgeInit
  <2>3. VersionInv
    BY <2>1, <2>2 DEF VersionInv, Present, Ready
  <2>4. QED
    BY <2>1, <2>2, <2>3 DEF ServedInv, ListInv, CurrentInv
<1>2. ASSUME KnowledgeTypeInv, OrderInv, StagingInv, ServedInv, [KnowledgeNext]_knowledgeVars
      PROVE  ServedInv'
  <2>1. CASE UNCHANGED <<corpus, source, operation, progress, chunks, worker, job, ingested, missed,
                         unserved>>
    BY <1>2, <2>1 DEF ServedInv, VersionInv, ListInv, CurrentInv, Served, Ready, Present, Begun
  <2>2. ASSUME NEW g \in Operations, WorkerStep(g)
        PROVE  ServedInv'
    BY <1>2, <2>2, RunServed DEF WorkerStep
  <2>3. QED
    BY <1>2, <2>1, <2>2, EditServed, OperatorServed, JobServed, BootServed
       DEF KnowledgeNext, ReaderStep, KnowledgeQuiet, knowledgeVars, corpusTables, sourceTables,
           ingestVars
<1>3. QED
  BY <1>1, <1>2, KnowledgeTypeInvHolds, OrderInvHolds, StagingInvHolds, PTL DEF KnowledgeSpec

(* A ready source is served from what was last ingested of it or later      *)
(* content, unless it was missed by the promoted operation or its chunks    *)
(* were deleted, whatever operations and jobs run at the same time.         *)
THEOREM ReadySourcesAreServed == KnowledgeSpec => []ReadyIsServed
<1>1. ServedInv => ReadyIsServed
  BY DEF ServedInv, VersionInv, CurrentInv, Served, Ready, Present, ReadyIsServed
<1>2. QED
  BY <1>1, ServedInvHolds, PTL

-----------------------------------------------------------------------------
(* The corpus that is served, as an implementation of ServedCorpus.         *)
(* Nothing of a deleted source is left in any generation, nor in an         *)
(* operation's list; and what a worker is about to stage is content that    *)
(* its source has had.                                                      *)

Deleted(s) == source[s].status = "deleted"

GoneInv ==
  \A s \in Sources : Deleted(s) =>
    /\ \A g \in Generations : chunks[g][s] = 0
    /\ \A g \in Operations : progress[g][s] = "none"

ToStageInv ==
  \A g \in Operations : worker[g].pc = "stage" =>
    /\ worker[g].at \in Sources
    /\ worker[g].version \in 1..source[worker[g].at].version

ContentInv == GoneInv /\ ToStageInv

(* No source gets other content, is deleted or comes back.                  *)
SourcesKept ==
  \A s \in Sources : source'[s].version = source[s].version /\ (Deleted(s)' <=> Deleted(s))

(* No operation gets or loses a source.                                     *)
ListsKept ==
  \A g \in Operations, s \in Sources : progress'[g][s] = "none" <=> progress[g][s] = "none"

LEMMA CorpusOfSources == SourcesKept => UNCHANGED <<Latest, Gone>>
BY DEF SourcesKept, Latest, Gone, Deleted

LEMMA CorpusOfOperations ==
  /\ OperationsKept => UNCHANGED <<Created, Basis>>
  /\ ListsKept => UNCHANGED Listed
<1>1. OperationsKept => UNCHANGED <<Created, Basis>>
  BY DEF OperationsKept, Created, Basis
<1>2. ASSUME ListsKept PROVE UNCHANGED Listed
  <2>1. \A g \in Operations : SourcesOf(g)' = SourcesOf(g)
    BY <1>2 DEF ListsKept, SourcesOf
  <2>2. QED
    BY <2>1 DEF Listed
<1>3. QED
  BY <1>1, <1>2

LEMMA UnchangedIsKept ==
  /\ UNCHANGED source => SourcesKept
  /\ UNCHANGED operation => OperationsKept
  /\ UNCHANGED progress => ListsKept
BY DEF SourcesKept, Deleted, OperationsKept, ListsKept

LEMMA CorpusStutters ==
  ASSUME UNCHANGED <<corpus, chunks>>, SourcesKept, OperationsKept, ListsKept
  PROVE  UNCHANGED Corpus!servedVars
BY CorpusOfSources, CorpusOfOperations DEF Corpus!servedVars

LEMMA GenerationsAgree == Corpus!Generations = Generations
BY OperationSets DEF Corpus!Generations

(* There is a source exactly when the code finds one present.               *)
LEMMA ThereIsPresent ==
  ASSUME KnowledgeTypeInv, VersionInv, NEW s \in Sources
  PROVE  /\ Corpus!There(s) <=> Present(s)
         /\ Latest[s] = source[s].version /\ Latest[s] \in Nat
         /\ s \in Gone <=> Deleted(s)
<1>1. source[s].status \in {"absent", "pending", "ready", "error", "deleted"}
      /\ source[s].version \in Nat
  BY Naturals DEF KnowledgeTypeInv, SourceInv, SourceRow, Versions
<1>2. /\ Latest[s] = source[s].version
      /\ s \in Gone <=> Deleted(s)
  BY DEF Latest, Gone, Deleted
<1>3. /\ Deleted(s) => ~Present(s)
      /\ Present(s) => source[s].version # 0
      /\ ~Present(s) => Deleted(s) \/ source[s].version = 0
  BY <1>1 DEF VersionInv, Present, Deleted
<1>4. QED
  BY <1>1, <1>2, <1>3 DEF Corpus!There

-----------------------------------------------------------------------------
(* An operator's edit. *)

CorpusStep == [Corpus!ServedNext]_(Corpus!servedVars)

LEMMA CorpusByEdit ==
  ASSUME KnowledgeTypeInv, VersionInv, ContentInv, EditStep
  PROVE  ContentInv' /\ CorpusStep
<1> USE DEF KnowledgeTypeInv
<1>1. PICK s \in Sources : CreateSource(s) \/ UpdateSource(s) \/ DeleteChunks(s) \/ DeleteSource(s)
  BY DEF EditStep
<1>2. UNCHANGED <<corpus, operation, worker>> /\ OperationsKept
  BY UnchangedIsKept DEF EditStep
<1>3. source[s].version \in Nat /\ source \in [Sources -> SourceRow]
  BY Naturals DEF SourceInv, SourceRow, Versions
<1>4. UNCHANGED <<Created, Basis>>
  BY <1>2, CorpusOfOperations
<1>5. CASE CreateSource(s) \/ UpdateSource(s)
  <2>1. /\ source'[s].version = source[s].version + 1
        /\ ~Deleted(s) /\ ~Deleted(s)'
        /\ \A t \in Sources : t # s => source'[t] = source[t]
        /\ UNCHANGED <<chunks, progress>>
    <3>1. source[s].version = 0 \/ UpdateSource(s)
      BY <1>5 DEF CreateSource, VersionInv
    <3>2. PICK n \in Nat : n = source[s].version + 1 /\ source' = [source EXCEPT ![s] =
            [status |-> "pending", version |-> n]]
      BY <1>3, <1>5, <3>1 DEF CreateSource, UpdateSource
    <3>3. source'[s].version = n /\ source'[s].status = "pending"
      BY <1>3, <3>2
    <3>4. ~Deleted(s)
      BY <1>5 DEF CreateSource, UpdateSource, Present, Deleted
    <3>5. QED
      BY <1>3, <1>5, <3>2, <3>3, <3>4 DEF CreateSource, UpdateSource, Deleted
  <2>2. Latest' = [Latest EXCEPT ![s] = Latest[s] + 1]
    BY <2>1 DEF Latest
  <2>3. UNCHANGED Gone /\ s \notin Gone
    BY <2>1 DEF Gone, Deleted
  <2>4. UNCHANGED Listed
    BY <2>1, UnchangedIsKept, CorpusOfOperations
  <2>5. Corpus!Edit(s)
    BY <1>2, <1>4, <2>1, <2>2, <2>3, <2>4 DEF Corpus!Edit
  <2>6. GoneInv'
    BY <2>1 DEF ContentInv, GoneInv, Deleted
  <2>7. ToStageInv'
    <3>1. ASSUME NEW t \in Sources, NEW v \in 1..source[t].version PROVE v \in 1..source'[t].version
      BY <1>3, <2>1
    <3>2. QED
      BY <1>2, <3>1 DEF ContentInv, ToStageInv
  <2>8. QED
    BY <2>5, <2>6, <2>7 DEF ContentInv, CorpusStep, Corpus!ServedNext
<1>6. CASE DeleteChunks(s)
  <2>1. UNCHANGED <<source, progress>>
    BY <1>6 DEF DeleteChunks
  <2>2. UNCHANGED <<Latest, Gone, Listed>>
    BY <2>1, UnchangedIsKept, CorpusOfSources, CorpusOfOperations
  <2>3. Corpus!Withdraw(s)
    BY <1>2, <1>4, <1>6, <2>2, GenerationsAgree DEF DeleteChunks, Corpus!Withdraw
  <2>4. \A g \in Generations, t \in Sources : chunks'[g][t] \in {0, chunks[g][t]}
    BY <1>6 DEF DeleteChunks, ChunkInv
  <2>5. ContentInv'
    BY <1>2, <2>1, <2>4 DEF ContentInv, GoneInv, ToStageInv, Deleted
  <2>6. QED
    BY <2>2, <2>3, <2>5 DEF CorpusStep, Corpus!ServedNext
<1>7. CASE DeleteSource(s)
  <2>1. /\ source'[s].version = source[s].version
        /\ Deleted(s)'
        /\ \A t \in Sources : t # s => source'[t] = source[t]
    BY <1>3, <1>7 DEF DeleteSource, Deleted, SourceRow
  <2>2. /\ \A g \in Generations, t \in Sources : chunks'[g][t] = IF t = s THEN 0 ELSE chunks[g][t]
        /\ \A g \in Operations, t \in Sources :
             progress'[g][t] = IF t = s THEN "none" ELSE progress[g][t]
    BY <1>7 DEF DeleteSource, ChunkInv, TableInv, Progress
  <2>3. UNCHANGED Latest
    BY <2>1 DEF Latest
  <2>4. Gone' = Gone \cup {s}
    BY <2>1 DEF Gone, Deleted
  <2>5. Listed' = [g \in Operations |-> Listed[g] \ {s}]
    <3>1. \A g \in Operations : SourcesOf(g)' = SourcesOf(g) \ {s}
      BY <2>2 DEF SourcesOf
    <3>2. QED
      BY <3>1 DEF Listed
  <2>6. Corpus!Delete(s)
    BY <1>2, <1>4, <1>7, <2>3, <2>4, <2>5, GenerationsAgree
       DEF DeleteSource, Corpus!Delete, Corpus!Withdraw
  <2>7. ContentInv'
    BY <1>2, <2>1, <2>2 DEF ContentInv, GoneInv, ToStageInv, Deleted
  <2>8. QED
    BY <2>6, <2>7 DEF CorpusStep, Corpus!ServedNext
<1>8. QED
  BY <1>1, <1>5, <1>6, <1>7

-----------------------------------------------------------------------------
(* A run of an operation: it stages aside, and takes over at once.          *)

LEMMA RunContent ==
  ASSUME KnowledgeTypeInv, VersionInv, ContentInv, NEW g \in Operations, RunStep(g), UNCHANGED source
  PROVE  ContentInv' /\ ListsKept
<1>1. /\ \A f \in Operations : f # g => worker'[f] = worker[f] /\ progress'[f] = progress[f]
      /\ \A f \in Generations : f # g => chunks'[f] = chunks[f]
  BY RunIsLocal
<1>2. ListsKept
  BY <1>1, RunKeepsSources DEF ListsKept
<1>3. \A s \in Sources : chunks'[g][s] # 0 => chunks[g][s] # 0 \/ progress[g][s] # "none"
  BY StageIsOf, OthersAreOf DEF RunStep, LoadSource, FailSource
<1>4. GoneInv'
  <2>1. ASSUME NEW s \in Sources, Deleted(s), NEW f \in Generations PROVE chunks'[f][s] = 0
    <3>1. chunks[f][s] = 0
      BY <2>1 DEF ContentInv, GoneInv
    <3>2. progress[g][s] = "none"
      BY <2>1 DEF ContentInv, GoneInv
    <3>3. QED
      BY <1>1, <1>3, <3>1, <3>2
  <2>2. QED
    BY <1>2, <2>1 DEF ContentInv, GoneInv, ListsKept, Deleted
<1>5. worker'[g].pc = "stage" =>
        worker'[g].at \in Sources /\ worker'[g].version \in 1..source[worker'[g].at].version
  <2>1. ASSUME NEW s \in Sources, LoadSource(g, s)
        PROVE  worker'[g].at = s /\ worker'[g].version \in 1..source[s].version
    <3>1. worker'[g].at = s /\ worker'[g].version = source[s].version
      BY <2>1, LoadIsOf
    <3>2. source[s].version \in Nat /\ 0 < source[s].version
      BY <2>1, Naturals DEF LoadSource, VersionInv, KnowledgeTypeInv, SourceInv, SourceRow, Versions
    <3>3. QED
      BY <3>1, <3>2
  <2>2. ASSUME NEW s \in Sources, FailSource(g, s) PROVE worker'[g].pc # "stage"
    BY <2>2, FailIsOf DEF FailSource, Takes
  <2>3. StageSource(g) => worker'[g].pc # "stage"
    BY StageIsOf
  <2>4. QED
    BY <2>1, <2>2, <2>3, OthersAreOf DEF RunStep
<1>6. ToStageInv'
  BY <1>1, <1>5 DEF ContentInv, ToStageInv
<1>7. QED
  BY <1>2, <1>4, <1>6 DEF ContentInv

LEMMA StagingStages ==
  ASSUME KnowledgeTypeInv, VersionInv, StagingInv, OrderInv, ContentInv,
         NEW g \in Operations, StageSource(g), UNCHANGED source, OperationsKept, ListsKept
  PROVE  CorpusStep
<1>1. PICK s \in Sources : s = worker[g].at
  BY DEF StageSource, ContentInv, ToStageInv
<1>2. PICK v \in 1..Latest[s] : v = worker[g].version
  BY <1>1, ThereIsPresent DEF StageSource, ContentInv, ToStageInv
<1>3. UNCHANGED corpus /\ SourcesKept /\ Begun(g) /\ corpus # g
  BY UnchangedIsKept DEF StageSource, StagingInv, OrderInv
<1>4. CASE progress[g][s] = "none"
  <2>1. chunks' = chunks
    <3>1. chunks' = [chunks EXCEPT ![g] = [chunks[g] EXCEPT ![s] = chunks[g][s]]]
      BY <1>1, <1>4 DEF StageSource
    <3>2. QED
      BY <3>1, OperationSets DEF KnowledgeTypeInv, ChunkInv
  <2>2. QED
    BY <1>3, <2>1, CorpusStutters DEF CorpusStep
<1>5. CASE progress[g][s] # "none"
  <2>1. Corpus!Holds(g, s, v)
    BY <1>1, <1>2, <1>5 DEF StageSource, Corpus!Holds
  <2>2. s \in Listed[g] /\ g \in Created
    BY <1>3, <1>5 DEF Listed, SourcesOf, Created, Begun
  <2>3. Corpus!Stage(g, s, v)
    BY <1>3, <2>1, <2>2, CorpusOfSources, CorpusOfOperations DEF Corpus!Stage
  <2>4. QED
    BY <2>3 DEF CorpusStep, Corpus!ServedNext
<1>6. QED
  BY <1>4, <1>5

LEMMA PromotionSwitches ==
  ASSUME KnowledgeTypeInv, OrderInv, StagingInv, NEW g \in Operations, RunStep(g), corpus' # corpus,
         UNCHANGED source, OperationsKept, ListsKept
  PROVE  CorpusStep
<1>1. /\ corpus' = g /\ Promote(g) /\ IsComplete(g) /\ Begun(g) /\ corpus < g
  BY PromotionIsOf
<1>2. UNCHANGED chunks
  BY <1>1, OthersAreOf
<1>3. corpus = operation[g].expected
  BY <1>1 DEF Promote, corpusTables
<1>4. \A s \in Sources : chunks[g][s] # 0 <=> s \in SourcesOf(g)
  BY <1>1, CompleteIsWhole DEF StagingInv, SourcesOf
<1>5. g \in Created /\ Basis[g] = corpus /\ Listed[g] = SourcesOf(g)
  BY <1>1, <1>3 DEF Created, Begun, Basis, Listed
<1>6. Corpus!Promote(g)
  BY <1>1, <1>2, <1>4, <1>5, UnchangedIsKept, CorpusOfSources, CorpusOfOperations
     DEF Corpus!Promote
<1>7. QED
  BY <1>6 DEF CorpusStep, Corpus!ServedNext

LEMMA CorpusByRun ==
  ASSUME KnowledgeTypeInv, VersionInv, StagingInv, OrderInv, ContentInv,
         NEW g \in Operations, WorkerStep(g)
  PROVE  ContentInv' /\ CorpusStep
<1>1. RunStep(g) /\ UNCHANGED source
  BY DEF WorkerStep
<1>2. ContentInv' /\ ListsKept /\ OperationsKept /\ SourcesKept
  BY <1>1, RunContent, RunMoves, UnchangedIsKept
<1>3. CASE StageSource(g)
  BY <1>1, <1>2, <1>3, StagingStages
<1>4. CASE corpus' # corpus
  BY <1>1, <1>2, <1>4, PromotionSwitches
<1>5. CASE corpus' = corpus /\ ~StageSource(g)
  <2>1. UNCHANGED chunks
    BY <1>1, <1>5, OthersAreOf DEF RunStep, LoadSource, FailSource
  <2>2. QED
    BY <1>2, <1>5, <2>1, CorpusStutters DEF CorpusStep
<1>6. QED
  BY <1>2, <1>3, <1>4, <1>5

-----------------------------------------------------------------------------
(* The operator, ingestion, and the rest.                                   *)

LEMMA CorpusByOperator ==
  ASSUME KnowledgeTypeInv, VersionInv, OrderInv, StagingInv, ContentInv,
         NEW g \in Operations, OperatorStep(g)
  PROVE  ContentInv' /\ CorpusStep
<1> USE DEF KnowledgeTypeInv
<1>1. UNCHANGED <<source, chunks, corpus>> /\ SourcesKept
  BY OperatorStaging, OperatorStepOrder, UnchangedIsKept DEF OperatorStep
<1>2. \A f \in Operations : worker'[f].pc = "stage" => worker'[f] = worker[f]
  BY DEF OperatorStep, CreateOperation, RunAgain, GotoWorker, WorkerInv, Worker
<1>3. ToStageInv'
  BY <1>1, <1>2 DEF ContentInv, ToStageInv
<1>4. CASE CreateOperation(g)
  <2>1. \A f \in Operations, s \in Sources :
          progress'[f][s] = IF f = g THEN IF Present(s) THEN "pending" ELSE "none"
                            ELSE progress[f][s]
    BY <1>4 DEF CreateOperation, TableInv
  <2>2. GoneInv'
    BY <1>1, <2>1 DEF ContentInv, GoneInv, Present, Deleted
  <2>3. ~Begun(g) /\ \A f \in Created : f < g
    <3>1. ~Begun(g) /\ \A f \in Operations : f < g => Begun(f)
      BY <1>4 DEF CreateOperation, Begun
    <3>2. ASSUME NEW f \in Created PROVE f < g
      <4>1. f \in Operations /\ Begun(f) /\ f # g
        BY <3>1, <3>2 DEF Created, Begun
      <4>2. f \in Nat /\ g \in Nat
        BY <4>1, OperationSets
      <4>3. ~(g < f)
        BY <3>1, <4>1 DEF OrderInv
      <4>4. QED
        BY <4>1, <4>2, <4>3
    <3>3. QED
      BY <3>1, <3>2
  <2>4. /\ \A f \in Operations : f # g => operation'[f] = operation[f]
        /\ operation'[g].status = "pending" /\ operation'[g].expected = corpus
    BY <1>4 DEF CreateOperation, TableInv
  <2>5. Created' = Created \cup {g}
    BY <2>4 DEF Created
  <2>6. Basis' = [Basis EXCEPT ![g] = corpus]
    BY <2>4 DEF Basis
  <2>7. Listed' = [Listed EXCEPT ![g] = {s \in Sources : Corpus!There(s)}]
    <3>1. {s \in Sources : Corpus!There(s)} = {s \in Sources : Present(s)}
      BY ThereIsPresent
    <3>2. SourcesOf(g)' = {s \in Sources : Present(s)}
      BY <2>1 DEF SourcesOf
    <3>3. \A f \in Operations : f # g => SourcesOf(f)' = SourcesOf(f)
      BY <2>1 DEF SourcesOf
    <3>4. QED
      BY <3>1, <3>2, <3>3 DEF Listed
  <2>8. Corpus!Begin(g)
    BY <1>1, <2>3, <2>5, <2>6, <2>7, CorpusOfSources DEF Corpus!Begin
  <2>9. QED
    BY <1>3, <2>2, <2>8 DEF ContentInv, CorpusStep, Corpus!ServedNext
<1>5. CASE RunAgain(g)
  <2>1. UNCHANGED <<operation, progress>>
    BY <1>5 DEF RunAgain, corpusTables
  <2>2. GoneInv'
    BY <1>1, <2>1 DEF ContentInv, GoneInv, Deleted
  <2>3. CorpusStep
    BY <1>1, <2>1, UnchangedIsKept, CorpusStutters DEF CorpusStep
  <2>4. QED
    BY <1>3, <2>2, <2>3 DEF ContentInv
<1>6. QED
  BY <1>4, <1>5 DEF OperatorStep

LEMMA CorpusByJob ==
  ASSUME KnowledgeTypeInv, VersionInv, ContentInv, NEW j \in Jobs, JobStep(j)
  PROVE  ContentInv' /\ CorpusStep
<1> USE DEF KnowledgeTypeInv
<1>1. UNCHANGED <<corpus, operation, progress, worker>> /\ OperationsKept /\ ListsKept
  BY UnchangedIsKept DEF JobStep, corpusTables
<1>2. SourcesKept
  <2>1. ASSUME NEW s \in Sources, NEW status \in {"pending", "ready", "error"}, SetStatus(s, status)
        PROVE  SourcesKept
    BY <2>1 DEF SetStatus, SourceInv, SourceRow, SourcesKept, Deleted, Present
  <2>2. job[j].pc \in {"write", "complete", "fail"} => job[j].source \in Sources
    BY DEF JobInv
  <2>3. CASE WriteActive(j)
    BY <2>2, <2>3 DEF WriteActive, Ingest, SourceInv, SourceRow, SourcesKept, Deleted, Present
  <2>4. CASE UNCHANGED source
    BY <2>4, UnchangedIsKept
  <2>5. QED
    BY <2>1, <2>2, <2>3, <2>4
       DEF JobStep, StartJob, WriteFails, CompleteJob, FailJob, sourceTables
<1>3. ToStageInv'
  BY <1>1, <1>2 DEF ContentInv, ToStageInv, SourcesKept
<1>4. CASE UNCHANGED chunks
  <2>1. GoneInv'
    BY <1>1, <1>2, <1>4 DEF ContentInv, GoneInv, SourcesKept
  <2>2. QED
    BY <1>1, <1>2, <1>3, <1>4, <2>1, CorpusStutters DEF ContentInv, CorpusStep
<1>5. CASE WriteActive(j)
  <2>1. PICK s \in Sources : s = job[j].source /\ Present(s)
    BY <1>5 DEF WriteActive, JobInv
  <2>2. PICK v \in 1..Latest[s] : v = job[j].version
    <3>1. job[j].version \in Nat
      BY Naturals DEF JobInv, Job, Versions
    <3>2. 0 < job[j].version /\ job[j].version <= Latest[s] /\ Latest[s] \in Nat
      BY <1>5, <2>1, ThereIsPresent DEF WriteActive, VersionInv
    <3>3. QED
      BY <3>1, <3>2
  <2>3. chunks' = [chunks EXCEPT ![corpus] = [chunks[corpus] EXCEPT ![s] = v]]
    BY <1>5, <2>1, <2>2 DEF WriteActive, Ingest
  <2>4. Corpus!Ingest(s, v)
    BY <1>1, <1>2, <2>1, <2>3, ThereIsPresent, CorpusOfSources, CorpusOfOperations
       DEF Corpus!Ingest, Corpus!Holds
  <2>5. ASSUME NEW g \in Generations, NEW t \in Sources, Deleted(t) PROVE chunks'[g][t] = chunks[g][t]
    <3>1. t # s
      BY <2>1, <2>5 DEF Present, Deleted
    <3>2. QED
      BY <2>3, <3>1 DEF ChunkInv, TableInv
  <2>6. GoneInv'
    BY <1>1, <1>2, <2>5 DEF ContentInv, GoneInv, SourcesKept
  <2>7. QED
    BY <1>3, <2>4, <2>6 DEF ContentInv, CorpusStep, Corpus!ServedNext
<1>6. QED
  BY <1>4, <1>5 DEF JobStep, StartJob, WriteFails, CompleteJob, FailJob, sourceTables

LEMMA CorpusByBoot ==
  ASSUME KnowledgeTypeInv, ContentInv, Boot
  PROVE  ContentInv' /\ CorpusStep
<1>1. UNCHANGED <<corpus, source, chunks>> /\ SourcesKept
  BY UnchangedIsKept DEF Boot, sourceTables
<1>2. OperationsKept
  BY DEF Boot, Recover, KnowledgeTypeInv, TableInv, OperationRow, OperationsKept
<1>3. ListsKept
  BY DEF Boot, Recover, ListsKept
<1>4. \A g \in Operations : worker'[g].pc # "stage"
  BY DEF Boot, Recover, IdleWorker
<1>5. ContentInv'
  BY <1>1, <1>3, <1>4 DEF ContentInv, GoneInv, ToStageInv, ListsKept, Deleted
<1>6. QED
  BY <1>1, <1>2, <1>3, <1>5, CorpusStutters DEF CorpusStep

LEMMA NextServes ==
  ASSUME KnowledgeTypeInv, OrderInv, StagingInv, ServedInv, ContentInv,
         [KnowledgeNext]_knowledgeVars
  PROVE  ContentInv' /\ CorpusStep
<1>1. VersionInv
  BY DEF ServedInv
<1>2. CASE UNCHANGED <<source, chunks, corpus, operation, progress, worker>>
  <2>1. ContentInv'
    BY <1>2 DEF ContentInv, GoneInv, ToStageInv, Deleted
  <2>2. QED
    BY <1>2, <2>1, UnchangedIsKept, CorpusStutters DEF CorpusStep
<1>3. QED
  BY <1>1, <1>2, CorpusByEdit, CorpusByRun, CorpusByOperator, CorpusByJob, CorpusByBoot
     DEF KnowledgeNext, ReaderStep, KnowledgeQuiet, knowledgeVars, corpusTables, sourceTables

(* For any number of sources, operations, jobs, edits and restarts: the     *)
(* corpus is switched whole, from the generation an operation was created   *)
(* against to its own, which until then nothing but its run stages into,    *)
(* and which lacks no listed source and holds nothing of a deleted one.     *)
THEOREM KnowledgeImplementsCorpus == KnowledgeSpec => ImplementsCorpus
<1>1. KnowledgeInit => Corpus!ServedInit /\ ContentInv
  <2> SUFFICES ASSUME KnowledgeInit PROVE Corpus!ServedInit /\ ContentInv
    OBVIOUS
  <2>1. /\ \A s \in Sources : /\ source[s].status \in {"ready", "absent"}
                              /\ source[s].version = IF s \in Loaded THEN 1 ELSE 0
        /\ \A g \in Operations : /\ operation[g].status = "none" /\ operation[g].expected = 0
                                 /\ worker[g].pc = "idle"
                                 /\ \A s \in Sources : progress[g][s] = "none"
    BY DEF KnowledgeInit, IdleWorker
  <2>2. Latest = [s \in Sources |-> IF s \in Loaded THEN 1 ELSE 0] /\ Latest \in [Sources -> Nat]
    BY <2>1 DEF Latest
  <2>3. Gone = {} /\ Created = {} /\ Basis = [g \in Operations |-> 0]
        /\ Listed = [g \in Operations |-> {}]
    BY <2>1 DEF Gone, Created, Basis, Listed, SourcesOf
  <2>4. chunks = [g \in Generations |-> IF g = 0 THEN Latest ELSE [s \in Sources |-> 0]]
    <3>1. \A g \in Generations : [s \in Sources |-> IF g = 0 /\ s \in Loaded THEN 1 ELSE 0]
                                   = IF g = 0 THEN Latest ELSE [s \in Sources |-> 0]
      BY <2>2
    <3>2. QED
      BY <3>1 DEF KnowledgeInit
  <2>5. Corpus!ServedInit
    BY <2>2, <2>3, <2>4, GenerationsAgree DEF Corpus!ServedInit, KnowledgeInit
  <2>6. QED
    BY <2>1, <2>5 DEF ContentInv, GoneInv, ToStageInv, Deleted
<1>2. KnowledgeTypeInv /\ OrderInv /\ StagingInv /\ ServedInv /\ ContentInv
        /\ [KnowledgeNext]_knowledgeVars =>
          ContentInv' /\ [Corpus!ServedNext]_(Corpus!servedVars)
  BY NextServes DEF CorpusStep
<1>3. QED
  BY <1>1, <1>2, KnowledgeTypeInvHolds, OrderInvHolds, StagingInvHolds, ServedInvHolds, PTL
     DEF KnowledgeSpec, ImplementsCorpus, Corpus!ServedSpec

=============================================================================
