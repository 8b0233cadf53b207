--------------------------- MODULE KnowledgeCorpus ---------------------------
(***************************************************************************)
(* The knowledge sources, the generations of the corpus of embedded chunks  *)
(* made of them, and what works on both: the operator's edits, ingestion    *)
(* jobs that write a source into the active generation, reindex operations  *)
(* that stage a generation in the background and promote it, and            *)
(* retrievals.                                                              *)
(*                                                                          *)
(* The content of a source is its version; the chunks that a generation     *)
(* has of a source are the version they were made from, 0 if there are      *)
(* none.  An operation and the generation it stages have one number;        *)
(* generation 0 is established at the first boot.                           *)
(***************************************************************************)
EXTENDS Naturals, FiniteSets

CONSTANTS
  Sources,         \* numbers, in the order of the operations' progress lists
  Loaded,          \* those ingested in the beginning
  Profiles,        \* embedding profiles
  First,           \* that of the first boot
  MaxOperations,   \* bound: reindex operations
  Jobs,            \* ingestion jobs, numbered as they start
  Readers,         \* retrievals
  MaxEvents,       \* bound: edits, operations, jobs, retrievals and restarts
  FaultySources,   \* bound: sources whose loading or embedding may fail
  FaultyStore      \* bound: whether the last update of an operation may fail

ASSUME KnowledgeAssumption ==
  /\ IsFiniteSet(Sources)
  /\ Sources \subseteq Nat \ {0} /\ Loaded \subseteq Sources /\ FaultySources \subseteq Sources
  /\ Jobs \subseteq Nat /\ First \in Profiles
  /\ {MaxOperations, MaxEvents} \subseteq Nat
  /\ FaultyStore \in BOOLEAN

VARIABLES
  source,      \* knowledge_sources
  corpus,      \* knowledge_corpus_state: the active generation
  generation,  \* corpus_generations: their status and profile
  chunks,      \* knowledge_chunks: of each generation, of each source
  operation,   \* reindex_operations
  progress,    \* reindex_operation_sources
  worker,      \* the run of each operation
  job,
  reader,
  events,      \* how many there were
  configured,  \* the embedding adapter's profile
  ingested,    \* history: the version of each source last ingested
  missed,      \* history: sources ingested since an operation loaded them
  unserved     \* history: sources whose ingested chunks are not served

corpusTables == <<corpus, generation, operation, progress>>
sourceTables == <<source, chunks>>
ingestVars == <<ingested, missed, unserved>>
knowledgeVars == <<corpusTables, sourceTables, worker, job, reader, events, configured,
                   ingestVars>>

Generations == 0..MaxOperations
Operations == 1..MaxOperations
Versions == 0..(MaxEvents + 1)

SourceRow == [status : {"absent", "pending", "ready", "error", "deleted"}, version : Versions]
GenerationRow == [status : {"none", "staging", "validated", "active", "superseded"},
                  profile : Profiles]
(* expected: the generation it may replace; listed: how many sources it has *)
OperationRow == [status : {"none", "pending", "running", "completed", "failed"},
                 expected : Generations, listed : 0..Cardinality(Sources)]
Worker == [pc : {"idle", "claim", "next", "stage", "promote", "complete", "fail"},
           todo : SUBSET Sources, at : Sources \cup {0}, version : Versions]
IdleWorker == [pc |-> "idle", todo |-> {}, at |-> 0, version |-> 0]
Job == [pc : {"idle", "write", "complete", "fail", "done"}, source : Sources \cup {0},
        version : Versions, into : Generations, had : BOOLEAN]
NoJob == [pc |-> "idle", source |-> 0, version |-> 0, into |-> 0, had |-> FALSE]
Reader == [pc : {"idle", "check", "query", "done"}, of : Generations, left : 0..2,
           found : SUBSET Generations]
GoneReader == [pc |-> "done", of |-> 0, left |-> 0, found |-> {}]
NoReader == [pc |-> "idle", of |-> 0, left |-> 0, found |-> {}]

Event == events < MaxEvents /\ events' = events + 1

Present(s) == source[s].status \in {"pending", "ready", "error"}

(* After the first boot, and the ingestion of some of the sources.          *)
KnowledgeInit ==
  /\ configured = First
  /\ source = [s \in Sources |-> IF s \in Loaded THEN [status |-> "ready", version |-> 1]
                                              ELSE [status |-> "absent", version |-> 0]]
  /\ corpus = 0
  /\ generation = [g \in Generations |->
       [status |-> IF g = 0 THEN "active" ELSE "none", profile |-> configured]]
  /\ chunks = [g \in Generations |->
       [s \in Sources |-> IF g = 0 /\ s \in Loaded THEN 1 ELSE 0]]
  /\ operation = [g \in Operations |-> [status |-> "none", expected |-> 0, listed |-> 0]]
  /\ progress = [g \in Operations |-> [s \in Sources |-> "none"]]
  /\ worker = [g \in Operations |-> IdleWorker]
  /\ job = [j \in Jobs |-> NoJob]
  /\ reader = [r \in Readers |-> NoReader]
  /\ events = 0
  /\ ingested = [s \in Sources |-> IF s \in Loaded THEN 1 ELSE 0]
  /\ missed = [g \in Operations |-> {}]
  /\ unserved = {}

-----------------------------------------------------------------------------
(* The operator's edits *)

CreateSource(s) ==
  /\ source[s].status = "absent"
  /\ source' = [source EXCEPT ![s] = [status |-> "pending", version |-> 1]]
  /\ UNCHANGED <<chunks, progress, unserved>>

(* Of what ingestion reads: its location or metadata.                       *)
UpdateSource(s) ==
  /\ Present(s)
  /\ source' = [source EXCEPT ![s] = [status |-> "pending", version |-> source[s].version + 1]]
  /\ UNCHANGED <<chunks, progress, unserved>>

(* The chunks of every generation go first, the row and what refers to it   *)
(* in a later statement.                                                    *)
DeleteChunks(s) ==
  /\ Present(s)
  /\ chunks' = [g \in Generations |-> [chunks[g] EXCEPT ![s] = 0]]
  /\ unserved' = unserved \cup {s}
  /\ UNCHANGED <<source, progress>>

DeleteSource(s) ==
  /\ Present(s)
  /\ s \in unserved
  /\ source' = [source EXCEPT ![s] = [@ EXCEPT !.status = "deleted"]]
  /\ chunks' = [g \in Generations |-> [chunks[g] EXCEPT ![s] = 0]]
  /\ progress' = [g \in Operations |-> [progress[g] EXCEPT ![s] = "none"]]
  /\ UNCHANGED unserved

EditStep ==
  /\ Event
  /\ \E s \in Sources :
       CreateSource(s) \/ UpdateSource(s) \/ DeleteChunks(s) \/ DeleteSource(s)
  /\ UNCHANGED <<corpus, generation, operation, worker, job, reader, configured, ingested, missed>>

-----------------------------------------------------------------------------
(* A run of a reindex operation *)

GotoWorker(g, pc) == worker' = [worker EXCEPT ![g] = [@ EXCEPT !.pc = pc]]
SetProgress(g, s, status) ==
  progress' = [progress EXCEPT ![g] =
    [@ EXCEPT ![s] = IF progress[g][s] = "none" THEN "none" ELSE status]]
SetOperation(g, status) ==
  operation' = [operation EXCEPT ![g] = [@ EXCEPT !.status = status]]

SourcesOf(g) == {s \in Sources : progress[g][s] # "none"}

(* An operation for the same profile and sources against the same active    *)
(* generation, not completed.                                               *)
SameWork(g) ==
  /\ operation[g].status \in {"pending", "running", "failed"}
  /\ operation[g].expected = corpus
  /\ generation[g].profile = configured
  /\ SourcesOf(g) = {s \in Sources : Present(s)}

CreateOperation(g) ==
  /\ ~\E f \in Operations : SameWork(f)
  /\ operation[g].status = "none"
  /\ \A f \in Operations : f < g => operation[f].status # "none"
  /\ operation' = [operation EXCEPT ![g] =
       [status |-> "pending", expected |-> corpus,
        listed |-> Cardinality({s \in Sources : Present(s)})]]
  /\ progress' = [progress EXCEPT ![g] =
       [s \in Sources |-> IF Present(s) THEN "pending" ELSE "none"]]
  /\ generation' = [generation EXCEPT ![g] = [status |-> "staging", profile |-> configured]]
  /\ GotoWorker(g, "claim")
  /\ UNCHANGED <<corpus, chunks, missed, unserved>>

(* Started again, a pending operation is run; a failed one only on a retry. *)
RunAgain(g) ==
  /\ worker[g].pc = "idle"
  /\ \/ operation[g].status = "pending" /\ SameWork(g)
     \/ operation[g].status = "failed"
  /\ GotoWorker(g, "claim")
  /\ UNCHANGED <<corpusTables, chunks, missed, unserved>>

(* Mutant of Claim: a retry starts afresh.                                  *)
ClaimAfresh(g) ==
  /\ worker[g].pc = "claim"
  /\ operation[g].status \in {"pending", "failed"}
  /\ SetOperation(g, "running")
  /\ worker' = [worker EXCEPT ![g] = [IdleWorker EXCEPT !.pc = "next", !.todo = SourcesOf(g)]]
  /\ UNCHANGED <<corpus, generation, progress, chunks, missed, unserved>>

(* What an earlier run staged is kept.                                      *)
Claim(g) ==
  /\ worker[g].pc = "claim"
  /\ operation[g].status \in {"pending", "failed"}
  /\ SetOperation(g, "running")
  /\ worker' = [worker EXCEPT ![g] = [IdleWorker EXCEPT !.pc = "next",
       !.todo = {s \in SourcesOf(g) : progress[g][s] # "completed"}]]
  /\ UNCHANGED <<corpus, generation, progress, chunks, missed, unserved>>

(* The chunks of the active generation are taken over if nothing changed.   *)
Reusable(g, s) ==
  /\ corpus = operation[g].expected
  /\ generation[corpus].profile = generation[g].profile
  /\ chunks[corpus][s] = source[s].version

(* The next source of the list.                                             *)
Takes(g, s) ==
  /\ worker[g].pc = "next"
  /\ s \in worker[g].todo
  /\ \A t \in worker[g].todo : s <= t

LoadSource(g, s) ==
  /\ Takes(g, s)
  /\ Present(s)
  /\ configured = generation[g].profile \/ Reusable(g, s)
  /\ SetProgress(g, s, "running")
  /\ worker' = [worker EXCEPT ![g] = [@ EXCEPT !.pc = "stage",
       !.todo = worker[g].todo \ {s}, !.at = s, !.version = source[s].version]]
  /\ missed' = [missed EXCEPT ![g] = @ \ {s}]
  /\ UNCHANGED <<corpus, generation, operation, chunks, unserved>>

(* An error, as of a source deleted meanwhile, has no row to be noted in.   *)
StageSource(g) ==
  LET s == worker[g].at IN
  /\ worker[g].pc = "stage"
  /\ chunks' = [chunks EXCEPT ![g] =
       [@ EXCEPT ![s] = IF progress[g][s] = "none" THEN chunks[g][s] ELSE worker[g].version]]
  /\ SetProgress(g, s, "completed")
  /\ worker' = [worker EXCEPT ![g] =
       [@ EXCEPT !.pc = "next", !.at = 0, !.version = 0]]
  /\ UNCHANGED <<corpus, generation, operation, missed, unserved>>

(* The source is gone, cannot be read, or cannot be embedded by the adapter *)
(* there is now.                                                            *)
FailSource(g, s) ==
  /\ Takes(g, s)
  /\ \/ ~Present(s) \/ s \in FaultySources
     \/ configured # generation[g].profile /\ ~Reusable(g, s)
  /\ SetProgress(g, s, "failed")
  /\ worker' = [worker EXCEPT ![g] = [@ EXCEPT !.todo = worker[g].todo \ {s}]]
  /\ UNCHANGED <<corpus, generation, operation, chunks, missed, unserved>>

Completed(g) == {s \in Sources : progress[g][s] = "completed"}

(* Mutant of IsComplete: the chunks are not counted.                          *)
SourcesComplete(g) == Cardinality(Completed(g)) = operation[g].listed

(* Sources and chunks are counted, not compared.                            *)
IsComplete(g) ==
  /\ Cardinality(Completed(g)) = operation[g].listed
  /\ Cardinality({s \in Sources : chunks[g][s] # 0}) = Cardinality(Completed(g))

Validate(g) ==
  /\ worker[g].pc = "next"
  /\ worker[g].todo = {}
  /\ IF IsComplete(g) /\ \A s \in Sources : progress[g][s] # "failed"
     THEN /\ generation' = [generation EXCEPT ![g] = [@ EXCEPT !.status = "validated"]]
          /\ GotoWorker(g, "promote")
     ELSE GotoWorker(g, "fail") /\ UNCHANGED generation
  /\ UNCHANGED <<corpus, operation, progress, chunks, missed, unserved>>

Activate(g) ==
  /\ corpus' = g
  /\ generation' = [f \in Generations |->
       IF f = g THEN [generation[f] EXCEPT !.status = "active"]
       ELSE IF generation[f].status = "active"
            THEN [generation[f] EXCEPT !.status = "superseded"] ELSE generation[f]]
  /\ SetOperation(g, "completed")
  /\ unserved' = unserved \cup missed[g]
  /\ GotoWorker(g, "complete")
  /\ UNCHANGED <<progress, chunks, missed>>

(* Mutant of Promote: the active generation is not compared.                *)
PromoteAnyway(g) ==
  /\ worker[g].pc = "promote"
  /\ IF IsComplete(g)
     THEN Activate(g)
     ELSE /\ GotoWorker(g, "fail")
          /\ UNCHANGED <<corpusTables, chunks, missed, unserved>>

(* One transaction, with both rows locked.                                  *)
Promote(g) ==
  /\ worker[g].pc = "promote"
  /\ IF corpus = operation[g].expected /\ IsComplete(g)
     THEN Activate(g)
     ELSE /\ GotoWorker(g, "fail")
          /\ UNCHANGED <<corpusTables, chunks, missed, unserved>>

(* The status that the promotion has written is written again; an error     *)
(* fails the operation, though its generation is active.                    *)
MarkCompleted(g) ==
  /\ worker[g].pc = "complete"
  /\ \/ SetOperation(g, "completed") /\ worker' = [worker EXCEPT ![g] = IdleWorker]
     \/ FaultyStore /\ GotoWorker(g, "fail") /\ UNCHANGED operation
  /\ UNCHANGED <<corpus, generation, progress, chunks, missed, unserved>>

FailOperation(g) ==
  /\ worker[g].pc = "fail"
  /\ SetOperation(g, "failed")
  /\ worker' = [worker EXCEPT ![g] = IdleWorker]
  /\ UNCHANGED <<corpus, generation, progress, chunks, missed, unserved>>

RunStep(g) ==
  \/ Claim(g)
  \/ \E s \in Sources : LoadSource(g, s) \/ FailSource(g, s)
  \/ StageSource(g)
  \/ Validate(g)
  \/ Promote(g)
  \/ MarkCompleted(g)
  \/ FailOperation(g)

WorkerStep(g) ==
  /\ RunStep(g)
  /\ UNCHANGED <<source, job, reader, events, configured, ingested>>

OperatorStep(g) ==
  /\ \/ Event /\ CreateOperation(g)
     \/ RunAgain(g) /\ UNCHANGED events
  /\ UNCHANGED <<source, job, reader, configured, ingested>>

-----------------------------------------------------------------------------
(* Ingestion jobs *)

(* The source, the active generation and its chunks are read; the content   *)
(* is loaded from where the source was.                                     *)
StartJob(j, s) ==
  /\ job[j].pc = "idle"
  /\ \A i \in Jobs : i < j => job[i].pc # "idle"
  /\ Present(s)
  /\ job' = [job EXCEPT ![j] =
       [pc |-> "write", source |-> s, version |-> source[s].version, into |-> corpus,
        had |-> source[s].status = "ready" /\ chunks[corpus][s] # 0]]
  /\ UNCHANGED <<sourceTables, ingestVars>>

Ingest(j) ==
  LET s == job[j].source IN
  /\ chunks' = [chunks EXCEPT ![job[j].into] = [@ EXCEPT ![s] = job[j].version]]
  /\ source' = [source EXCEPT ![s] = [@ EXCEPT !.status = "ready"]]
  /\ ingested' = [ingested EXCEPT ![s] = job[j].version]
  /\ missed' = [g \in Operations |-> missed[g] \cup {s}]
  /\ unserved' = unserved \ {s}
  /\ job' = [job EXCEPT ![j] = [@ EXCEPT !.pc = "complete"]]

(* Mutant of WriteActive: the active generation is not compared.            *)
WriteAnyway(j) ==
  LET s == job[j].source IN
  /\ job[j].pc = "write"
  /\ configured = generation[job[j].into].profile
  /\ Present(s)
  /\ Ingest(j)

(* One transaction, with the state's row locked.                            *)
WriteActive(j) ==
  LET s == job[j].source IN
  /\ job[j].pc = "write"
  /\ configured = generation[job[j].into].profile
  /\ corpus = job[j].into
  /\ Present(s)
  /\ Ingest(j)

WriteFails(j) ==
  LET s == job[j].source IN
  /\ job[j].pc = "write"
  /\ \/ s \in FaultySources
     \/ configured # generation[job[j].into].profile
     \/ corpus # job[j].into
     \/ ~Present(s)
  /\ job' = [job EXCEPT ![j] = [@ EXCEPT !.pc = "fail"]]
  /\ UNCHANGED <<sourceTables, ingestVars>>

SetStatus(s, status) ==
  source' = [source EXCEPT ![s] = IF Present(s) THEN [@ EXCEPT !.status = status] ELSE @]

CompleteJob(j) ==
  /\ job[j].pc = "complete"
  /\ SetStatus(job[j].source, "ready")
  /\ job' = [job EXCEPT ![j] = [NoJob EXCEPT !.pc = "done"]]
  /\ UNCHANGED <<chunks, ingestVars>>

(* Mutant of FailJob: the source gets the job's status.                     *)
FailSourceToo(j) ==
  /\ job[j].pc = "fail"
  /\ IF job[j].had THEN UNCHANGED source ELSE SetStatus(job[j].source, "failed")
  /\ job' = [job EXCEPT ![j] = [NoJob EXCEPT !.pc = "done"]]
  /\ UNCHANGED <<chunks, ingestVars>>

(* By what was read when the job started.                                   *)
FailJob(j) ==
  /\ job[j].pc = "fail"
  /\ IF job[j].had THEN UNCHANGED source ELSE SetStatus(job[j].source, "error")
  /\ job' = [job EXCEPT ![j] = [NoJob EXCEPT !.pc = "done"]]
  /\ UNCHANGED <<chunks, ingestVars>>

JobStep(j) ==
  /\ \/ Event /\ \E s \in Sources : StartJob(j, s)
     \/ /\ WriteActive(j) \/ WriteFails(j) \/ CompleteJob(j) \/ FailJob(j)
        /\ UNCHANGED events
  /\ UNCHANGED <<corpusTables, worker, reader, configured>>

-----------------------------------------------------------------------------
(* Retrievals *)

(* The query is embedded for the active generation; there are two searches, *)
(* by vector and by text.                                                   *)
StartRetrieval(r) ==
  /\ reader[r].pc = "idle"
  /\ configured = generation[corpus].profile
  /\ reader' = [reader EXCEPT ![r] = [NoReader EXCEPT !.pc = "check", !.of = corpus, !.left = 2]]

CheckCorpus(r) ==
  /\ reader[r].pc = "check"
  /\ reader' = [reader EXCEPT ![r] =
       IF corpus = @.of THEN [@ EXCEPT !.pc = "query"] ELSE GoneReader]

(* The generations of the items found. *)
Matches ==
  IF \E s \in Sources : source[s].status = "ready" /\ chunks[corpus][s] # 0
  THEN {corpus} ELSE {}

(* Mutant of Search: the query does not name the generation.                *)
SearchActive(r) == Matches

(* The corpus may have changed since it was checked.                        *)
Search(r) == IF corpus = reader[r].of THEN Matches ELSE {}

QueryChunks(r) ==
  /\ reader[r].pc = "query"
  /\ reader' = [reader EXCEPT ![r] =
       [@ EXCEPT !.pc = IF reader[r].left = 1 THEN "done" ELSE "check",
                 !.left = reader[r].left - 1,
                 !.found = reader[r].found \cup Search(r)]]

ReaderStep(r) ==
  /\ \/ Event /\ StartRetrieval(r)
     \/ (CheckCorpus(r) \/ QueryChunks(r)) /\ UNCHANGED events
  /\ UNCHANGED <<corpusTables, sourceTables, worker, job, configured, ingestVars>>

-----------------------------------------------------------------------------
(* The server restarts, perhaps with another embedding profile.             *)

(* Mutant of Recover: what was running stays so.                            *)
RecoverNone ==
  /\ worker' = [g \in Operations |-> IdleWorker]
  /\ UNCHANGED <<operation, progress>>

(* What was running has failed, and is run again.                           *)
Recover ==
  LET interrupted == {g \in Operations : operation[g].status = "running"} IN
  /\ operation' = [g \in Operations |->
       IF g \in interrupted THEN [operation[g] EXCEPT !.status = "failed"] ELSE operation[g]]
  /\ progress' = [g \in Operations |-> [s \in Sources |->
       IF g \in interrupted /\ progress[g][s] = "running" THEN "failed" ELSE progress[g][s]]]
  /\ worker' = [g \in Operations |->
       IF g \in interrupted THEN [IdleWorker EXCEPT !.pc = "claim"] ELSE IdleWorker]

Boot ==
  /\ Event
  /\ configured' \in Profiles
  /\ Recover
  /\ job' = [j \in Jobs |-> IF job[j].pc = "idle" THEN NoJob ELSE [NoJob EXCEPT !.pc = "done"]]
  /\ reader' = [r \in Readers |-> IF reader[r].pc = "idle" THEN NoReader ELSE GoneReader]
  /\ UNCHANGED <<corpus, generation, sourceTables, ingestVars>>

(* All the events are over, and what they began.                            *)
KnowledgeQuiet ==
  /\ events = MaxEvents
  /\ \A g \in Operations : worker[g].pc = "idle"
  /\ \A j \in Jobs : job[j].pc \in {"idle", "done"}
  /\ \A r \in Readers : reader[r].pc \in {"idle", "done"}
  /\ UNCHANGED knowledgeVars

KnowledgeNext ==
  \/ EditStep
  \/ \E g \in Operations : WorkerStep(g) \/ OperatorStep(g)
  \/ \E j \in Jobs : JobStep(j)
  \/ \E r \in Readers : ReaderStep(r)
  \/ Boot
  \/ KnowledgeQuiet

KnowledgeSpec == KnowledgeInit /\ [][KnowledgeNext]_knowledgeVars

-----------------------------------------------------------------------------
(* Every table and process holds data of the kind the schema's checks and   *)
(* the declarations say.                                                    *)
KnowledgeTypeOK ==
  /\ source \in [Sources -> SourceRow]
  /\ corpus \in Generations
  /\ generation \in [Generations -> GenerationRow]
  /\ chunks \in [Generations -> [Sources -> Versions]]
  /\ operation \in [Operations -> OperationRow]
  /\ progress \in [Operations -> [Sources ->
       {"none", "pending", "running", "completed", "failed"}]]
  /\ worker \in [Operations -> Worker]
  /\ job \in [Jobs -> Job]
  /\ reader \in [Readers -> Reader]
  /\ configured \in Profiles
  /\ events \in 0..MaxEvents
  /\ ingested \in [Sources -> Versions]
  /\ missed \in [Operations -> SUBSET Sources]
  /\ unserved \in SUBSET Sources

(* A source that is ready is served from what was last ingested of it or    *)
(* from later content, whatever operations were promoted meanwhile.  Not so *)
(* only if it was ingested after the promoted operation had loaded it or    *)
(* listed its sources, and if its chunks were deleted.                      *)
ReadyIsServed ==
  \A s \in Sources :
    source[s].status = "ready" /\ s \notin unserved =>
      0 < ingested[s] /\ ingested[s] <= chunks[corpus][s]

(* A generation is promoted only with chunks of every source of its         *)
(* operation, though they are only counted, and a deletion of a source is   *)
(* two statements.                                                          *)
PromotionIsWhole ==
  [][corpus' # corpus => \A s \in SourcesOf(corpus') : chunks[corpus'][s] # 0]_knowledgeVars

(* The active generation is only ever replaced by one that was begun later, *)
(* though an operation may be failed after its promotion and retried.       *)
PointerNeverReturns == [][corpus <= corpus']_knowledgeVars

(* The corpus as whoever searches it has it. *)
Latest == [s \in Sources |-> source[s].version]
Gone == {s \in Sources : source[s].status = "deleted"}
Created == {g \in Operations : operation[g].status # "none"}
Basis == [g \in Operations |-> operation[g].expected]
Listed == [g \in Operations |-> SourcesOf(g)]

Corpus ==
  INSTANCE ServedCorpus WITH
    active <- corpus, content <- chunks, latest <- Latest, gone <- Gone,
    begun <- Created, basis <- Basis, list <- Listed

(* Edits, ingestions, retried and recovered operations and restarts amount  *)
(* to a corpus that is switched whole: a generation, made aside from the    *)
(* sources listed when its operation was created, replaces the active one   *)
(* only if that is the one it was created against, and no generation holds  *)
(* anything of a source once that has been deleted.                         *)
ImplementsCorpus == Corpus!ServedSpec

(* The chunks of the active generation change by ingestion and deletion     *)
(* only: no run of an operation, first or retried, stages into what is      *)
(* active.                                                                  *)
ActiveChangesByIngestion ==
  [][\A s \in Sources :
       chunks'[corpus][s] \notin {0, chunks[corpus][s]} =>
         \E j \in Jobs : job[j].source = s /\ job'[j].pc = "complete"]_knowledgeVars

(* What one retrieval finds, in two searches while generations change, is   *)
(* of the generation whose profile its query was embedded with.             *)
RetrievalIsOfOneCorpus ==
  \A r \in Readers : reader[r].found \subseteq {reader[r].of}

(* An operation that is running ends, or fails and is run again, though the *)
(* server restarts meanwhile.                                               *)
ReindexEnds ==
  \A g \in Operations : operation[g].status = "running" ~> operation[g].status # "running"

=============================================================================
