------------------------------- MODULE Vector -------------------------------
(***************************************************************************)
(* The vector channel of retrieval: the embedding service and its store    *)
(* (embedding/service.go, embedding/canonical.go,                          *)
(* embedding/http_provider.go), the provisioning of an index generation    *)
(* and the search in it (store/surreal/vector.go), for one tenant and one  *)
(* manifest.  An embedding's identifier is a hash of its input and its     *)
(* vector, so an embedding is that pair.  The database is read and written *)
(* a statement at a time; PutVectorDocument and ProvisionVectorGeneration  *)
(* are called by an operator's tooling, and documents are published by the *)
(* projection.                                                             *)
(***************************************************************************)
EXTENDS Integers, Sequences, FiniteSets, FiniteSetsExt, Functions, TLC

CONSTANTS
  Processes,      \* searches and indexing jobs
  Provisioners,
  SearchTexts,    \* what searches ask: [task, harness, tools]
  DocumentTexts,  \* what documents of a version say: [version, text]
  Answers,        \* what the provider may answer: vectors, or no vector
  QuantizationScale, Distance, PoolSize, HitLimit,
  MaxEpoch,       \* bound on publications
  MaxVectorFaults \* bound on failed statements and lost answers

VARIABLES
  values,     \* embedding_value: the vector stored for an input
  documents,  \* retrieval_document: [version, epoch, text]
  index,      \* rows of the generation's table: [version, epoch, vector, text]
  generation, \* what is defined and recorded of the generation
  tasks, provisioning, vectorFaults

vvars == <<values, documents, index, generation, tasks, provisioning, vectorFaults>>

NoVector == <<>>
Statements == <<"table", "index", "snapshot">>
NoJob == [pc |-> "idle", kind |-> "none", text |-> <<>>, version |-> 0, epoch |-> 0, input |-> <<>>,
          vector |-> NoVector, rows |-> {}, hits |-> <<>>]

HeadEpoch == IF documents = {} THEN 0 ELSE Max({d.epoch : d \in documents})

VectorIdle ==
  /\ values = <<>> /\ documents = {} /\ index = {} /\ generation = {}
  /\ tasks = [p \in Processes |-> NoJob]
  /\ provisioning = [p \in Provisioners |-> "idle"]
  /\ vectorFaults = 0

Faulty == vectorFaults < MaxVectorFaults /\ vectorFaults' = vectorFaults + 1
Sound == vectorFaults' = vectorFaults
Job(p, j) == tasks' = [tasks EXCEPT ![p] = j]
MovesTo(p, outcome) == tasks' = [tasks EXCEPT ![p].pc = outcome]
StoreUnchanged == UNCHANGED <<values, documents, index, generation, provisioning>>

-----------------------------------------------------------------------------
(* buildInput: what a query and a document have in common, its tools in    *)
(* one order; <<>> for ErrInvalidInput.  Resources are sorted likewise.    *)
buildInput(text) ==
  IF text.task = "" \/ text.harness = "" \/ text.tools = <<>> \/ 0 \in Range(text.tools) THEN <<>>
  ELSE <<text.task, text.harness, SortSeq(text.tools, LAMBDA a, b : a < b)>>

Squared(source) == SumFunction([i \in DOMAIN source |-> source[i] * source[i]])

(* math.Round(value / norm * scale) without the square root.               *)
Quantized(value, squared) ==
  LET size == IF value < 0 THEN -value ELSE value
      k == Max({n \in 0 .. QuantizationScale :
                  n = 0 \/ (2 * n - 1) * (2 * n - 1) * squared <= 4 * QuantizationScale * QuantizationScale * size * size})
  IN  IF value < 0 THEN -k ELSE k

(* A provider's answer that has no direction, or is not a vector, is       *)
(* refused: so are a failed call, another model's answer and a wrong count. *)
NormalizeAndQuantize(source) ==
  IF source = NoVector \/ Squared(source) = 0 THEN NoVector
  ELSE [i \in DOMAIN source |-> Quantized(source[i], Squared(source))]

ExactScore(query, candidate) ==
  SumFunction([i \in DOMAIN query |->
    IF Distance = "euclidean" THEN -((query[i] - candidate[i]) * (query[i] - candidate[i]))
    ELSE query[i] * candidate[i]])

(* The vectors that are stored.  Scores are integers, versions too.        *)
Quantizations == {NormalizeAndQuantize(source) : source \in Answers} \ {NoVector}

ASSUME VectorAssumption ==
  /\ HitLimit \in Nat
  /\ \A d \in DocumentTexts : d.version \in Nat
  /\ \A query, candidate \in Quantizations : ExactScore(query, candidate) \in Int

-----------------------------------------------------------------------------
(* A search pins the epoch of its request; its input is built first.       *)
SearchStart(p) ==
  /\ tasks[p].pc = "idle" /\ HeadEpoch > 0
  /\ \E text \in SearchTexts :
       Job(p, [NoJob EXCEPT !.pc = IF buildInput(text) = <<>> THEN "failed" ELSE "get", !.kind = "search",
                            !.text = text, !.epoch = HeadEpoch, !.input = buildInput(text)])
  /\ Sound /\ StoreUnchanged

(* A job that indexes a published document (external). *)
IndexStart(p) ==
  /\ tasks[p].pc = "idle"
  /\ \E d \in documents :
       Job(p, [NoJob EXCEPT !.pc = "get", !.kind = "index", !.text = d.text, !.version = d.version,
                            !.epoch = d.epoch, !.input = buildInput(d.text)])
  /\ Sound /\ StoreUnchanged

Embedded(p, vector) ==
  Job(p, [tasks[p] EXCEPT !.vector = vector, !.pc = IF tasks[p].kind = "search" THEN "query" ELSE "index"])

(* Generate: the store first. *)
Get(p) ==
  /\ tasks[p].pc = "get"
  /\ IF tasks[p].input \in DOMAIN values THEN Embedded(p, values[tasks[p].input])
     ELSE MovesTo(p, "embed")
  /\ Sound /\ StoreUnchanged

(* The provider, whose answers for one input need not agree.               *)
Embed(p) ==
  /\ tasks[p].pc = "embed"
  /\ \E source \in Answers :
       IF NormalizeAndQuantize(source) = NoVector THEN MovesTo(p, "failed")
       ELSE Job(p, [tasks[p] EXCEPT !.pc = "put", !.vector = NormalizeAndQuantize(source)])
  /\ Sound /\ StoreUnchanged

Stored(p) ==
  values' = [i \in DOMAIN values \union {tasks[p].input} |-> IF i = tasks[p].input THEN tasks[p].vector ELSE values[i]]

(* Put: the row is created, unless the input has one.                      *)
Put(p) ==
  /\ tasks[p].pc = "put" /\ tasks[p].input \notin DOMAIN values
  /\ Stored(p) /\ Embedded(p, tasks[p].vector)
  /\ Sound /\ UNCHANGED <<documents, index, generation, provisioning>>

PutCollides(p) ==
  /\ tasks[p].pc = "put" /\ tasks[p].input \in DOMAIN values
  /\ MovesTo(p, "lookup") /\ Sound /\ StoreUnchanged

(* The create fails, or is done and its answer lost.                       *)
CreateFails(p) ==
  /\ tasks[p].pc = "put" /\ Faulty /\ MovesTo(p, "lookup")
  /\ \/ UNCHANGED values
     \/ tasks[p].input \notin DOMAIN values /\ Stored(p)
  /\ UNCHANGED <<documents, index, generation, provisioning>>

(* After a failed create only the same embedding is accepted: no row, and  *)
(* a row with another vector, are ErrStoreConflict.                        *)
PutLookup(p) ==
  /\ tasks[p].pc = "lookup"
  /\ IF tasks[p].input \in DOMAIN values /\ values[tasks[p].input] = tasks[p].vector
     THEN Embedded(p, tasks[p].vector) ELSE MovesTo(p, "failed")
  /\ Sound /\ StoreUnchanged

(* PutVectorDocument: one row for a version and an epoch; a second create  *)
(* is an error.                                                            *)
PutVectorDocument(p) ==
  LET j == tasks[p]
      row == [version |-> j.version, epoch |-> j.epoch, vector |-> j.vector, text |-> j.text]
  IN  /\ j.pc = "index" /\ "generation" \in generation
      /\ IF \E r \in index : r.version = j.version /\ r.epoch = j.epoch
         THEN MovesTo(p, "failed") /\ UNCHANGED index
         ELSE MovesTo(p, "done") /\ index' = index \union {row}
      /\ Sound /\ UNCHANGED <<values, documents, generation, provisioning>>

(* vectorCandidateStatement: the nearest rows the approximate index finds  *)
(* among those at or before the epoch that share a harness or a tool.      *)
Candidates(p) ==
  {r \in index : /\ r.epoch <= tasks[p].epoch
                 /\ r.text.harness = tasks[p].text.harness \/ Range(r.text.tools) \intersect Range(tasks[p].text.tools) # {}}

Query(p) ==
  /\ tasks[p].pc = "query"
  /\ \E rows \in SUBSET Candidates(p) :
       /\ Cardinality(rows) <= PoolSize
       /\ Job(p, [tasks[p] EXCEPT !.pc = "validate", !.rows = rows])
  /\ Sound /\ StoreUnchanged

(* currentDocumentEpochs, 0 for a version without a document.              *)
currentDocumentEpoch(version, epoch) ==
  LET at == {d.epoch : d \in {e \in documents : e.version = version /\ e.epoch <= epoch}}
  IN  IF at = {} THEN 0 ELSE Max(at)

(* Mutant: any row at or before the epoch is taken for the current one.    *)
AnyEpoch(p) == tasks[p].rows

(* The rows of the documents that are current at the request's epoch.      *)
CurrentRows(p) == {r \in tasks[p].rows : currentDocumentEpoch(r.version, tasks[p].epoch) = r.epoch}

HitBefore(a, b) == a.score > b.score \/ (a.score = b.score /\ a.version < b.version)

(* The best hit of each version; in order, of which there is one since     *)
(* versions break ties; and no more than were asked for.                   *)
BestHits(scored) == {h \in scored : \A g \in scored : g.version = h.version => g.score <= h.score}
HitLists(best) ==
  {hits \in [1 .. Cardinality(best) -> best] : \A i, j \in DOMAIN hits : i < j => HitBefore(hits[i], hits[j])}
Limited(hits) == IF Len(hits) > HitLimit THEN SubSeq(hits, 1, HitLimit) ELSE hits

(* The end of Search: exact scores, the best for a version, the best first. *)
RankHits(p) ==
  LET scored == {[version |-> r.version, score |-> ExactScore(tasks[p].vector, r.vector)] : r \in CurrentRows(p)}
  IN  /\ tasks[p].pc = "validate"
      /\ \E hits \in HitLists(BestHits(scored)) : Job(p, [tasks[p] EXCEPT !.pc = "done", !.hits = Limited(hits)])
      /\ Sound /\ StoreUnchanged

(* A statement fails, and the job with it. *)
StatementFails(p) ==
  /\ tasks[p].pc \in {"get", "lookup", "index", "query", "validate"} /\ Faulty
  /\ MovesTo(p, "failed") /\ StoreUnchanged

(* The result is taken and the process serves another request.             *)
Finish(p) == tasks[p].pc \in {"done", "failed"} /\ Job(p, NoJob) /\ Sound /\ StoreUnchanged

(* The projection publishes documents at a new epoch (external). *)
Publish ==
  /\ HeadEpoch < MaxEpoch
  /\ \E d \in DocumentTexts :
       documents' = documents \union {[version |-> d.version, epoch |-> HeadEpoch + 1, text |-> d.text]}
  /\ Sound /\ UNCHANGED <<values, index, generation, tasks, provisioning>>

-----------------------------------------------------------------------------
Turn(p, from, to) == provisioning[p] = from /\ provisioning' = [provisioning EXCEPT ![p] = to]
VectorsUnchanged == UNCHANGED <<values, documents, index, tasks>>

(* ProvisionVectorGeneration: a generation that is recorded is returned.   *)
FindGeneration(p) ==
  /\ Turn(p, "idle", IF "generation" \in generation THEN "done" ELSE "define")
  /\ Sound /\ UNCHANGED generation /\ VectorsUnchanged

(* DEFINE ... IF NOT EXISTS, a statement after the other.                  *)
DefineTable(p) ==
  /\ Turn(p, "define", "manifest")
  /\ generation' = generation \union Range(Statements)
  /\ Sound /\ VectorsUnchanged

DefineTableFails(p) ==
  /\ Turn(p, "define", "failed") /\ Faulty
  /\ \E n \in 0 .. Len(Statements) : generation' = generation \union Range(SubSeq(Statements, 1, n))
  /\ VectorsUnchanged

(* createOrVerifyRecord: what is there already has the same content.       *)
RecordStep(p, row, from, to) ==
  /\ Turn(p, from, to)
  /\ generation' = generation \union {row}
  /\ Sound /\ VectorsUnchanged

RecordManifest(p) == RecordStep(p, "manifest", "manifest", "generation")
RecordGeneration(p) == RecordStep(p, "generation", "generation", "done")

(* Neither the create nor the lookup gives an answer, whatever was done;   *)
(* or the process dies between two statements.                             *)
ProvisionFails(p) ==
  /\ provisioning[p] \in {"idle", "manifest", "generation"} /\ Faulty
  /\ provisioning' = [provisioning EXCEPT ![p] = "failed"]
  /\ \/ UNCHANGED generation
     \/ provisioning[p] # "idle" /\ generation' = generation \union {provisioning[p]}
  /\ VectorsUnchanged

ProvisionAgain(p) ==
  /\ provisioning[p] \in {"done", "failed"}
  /\ provisioning' = [provisioning EXCEPT ![p] = "idle"]
  /\ Sound /\ UNCHANGED generation /\ VectorsUnchanged

SearchNext ==
  \/ Publish
  \/ \E p \in Processes :
       \/ SearchStart(p) \/ IndexStart(p) \/ Get(p) \/ Embed(p) \/ Put(p) \/ PutCollides(p) \/ CreateFails(p)
       \/ PutLookup(p) \/ PutVectorDocument(p) \/ Query(p) \/ RankHits(p) \/ StatementFails(p) \/ Finish(p)

ProvisionNext ==
  \E p \in Provisioners :
    \/ FindGeneration(p) \/ DefineTable(p) \/ DefineTableFails(p) \/ RecordManifest(p) \/ RecordGeneration(p)
    \/ ProvisionFails(p) \/ ProvisionAgain(p)

VectorSpec == VectorIdle /\ [][SearchNext \/ ProvisionNext]_vvars

-----------------------------------------------------------------------------
(* An input has one vector for good (service.go:116-160, vector.go:233-254): *)
(* whoever goes on with an embedding, to search or to index, has the one   *)
(* that is stored, although the provider answers differently each time and *)
(* several ask at once.                                                    *)
EmbeddingsAgree ==
  \A p \in Processes : tasks[p].pc \in {"query", "validate", "index"} =>
    /\ tasks[p].input \in DOMAIN values
    /\ values[tasks[p].input] = tasks[p].vector

DocumentAt(version, epoch) ==
  CHOOSE d \in documents : d.version = version /\ d.epoch = currentDocumentEpoch(version, epoch)

(* A search sees the snapshot it was asked about (vector.go:329-399): each *)
(* version once, scored by the stored vector of the document that is       *)
(* current at the request's epoch, whatever was published or indexed while *)
(* it ran.                                                                 *)
HitsAreOfTheSnapshot ==
  \A p \in Processes : tasks[p].pc = "done" /\ tasks[p].kind = "search" =>
    LET hits == tasks[p].hits
    IN  /\ \A i \in DOMAIN hits :
             LET text == DocumentAt(hits[i].version, tasks[p].epoch).text
             IN  /\ currentDocumentEpoch(hits[i].version, tasks[p].epoch) > 0
                 /\ buildInput(text) \in DOMAIN values
                 /\ hits[i].score = ExactScore(tasks[p].vector, values[buildInput(text)])
        /\ \A i, j \in DOMAIN hits : i < j => hits[i].version # hits[j].version /\ hits[i].score >= hits[j].score

(* A generation that is recorded, which is what makes later provisioning   *)
(* return at once, has its table, its indexes and its manifest             *)
(* (vector.go:48-114), wherever a provisioner failed or how many ran.      *)
RecordedGenerationsAreComplete ==
  "generation" \in generation => Range(Statements) \union {"manifest"} \subseteq generation

(* What the vector channel promises, with workers and searches racing: one *)
(* vector for one input, hits of the pinned snapshot, and no recorded      *)
(* generation without its index (service.go:116-160, vector.go:48-399).    *)
VectorChannelIsSound == EmbeddingsAgree /\ HitsAreOfTheSnapshot /\ RecordedGenerationsAreComplete
=============================================================================
