------------------------------ MODULE Pipeline ------------------------------
(***************************************************************************)
(* One synthesis workflow: the Temporal workflow that runs five stages,    *)
(* the activity attempts that carry them out, and the stage artifacts that *)
(* make a repeated attempt harmless.                                       *)
(*   workflow/synthesis.go       SynthesisWorkflow, activityOptions        *)
(*   workflow/activities.go      execute                                   *)
(*   workflow/processor.go       runStage, validatePrior, the five stages  *)
(*   store/surreal/workflow.go   PutStageArtifact, GetStageArtifact, Load  *)
(*                                                                         *)
(* An attempt that timed out keeps running while the next one starts.  A   *)
(* content hash is the sequence of the payloads it covers, so two hashes   *)
(* are equal exactly when the artifacts and all their inputs are.          *)
(***************************************************************************)
EXTENDS Integers, Sequences, FiniteSets

CONSTANTS Workers,          \* attempts that can run at the same time
          MaximumAttempts,  \* of the activity retry policy
          Registries,       \* snapshots of the tenant's tool contracts
          MaxFaults         \* bound: crashes, overrun attempts, failed calls, expiries

ASSUME PipelineAssumption ==
  /\ MaximumAttempts \in Nat \ {0}
  /\ Registries # {}
  /\ MaxFaults \in Nat

VARIABLES source,     \* what the archive and the ledger hold for this workflow
          stage,      \* the workflow: the stage it waits for,
          attempt,    \*   the attempt of it,
          picked,     \*   whether a worker has taken that attempt,
          prior,      \*   the hash of the stage before,
          status,     \*   its own state
          code,       \*   and the code of the failure that closed it
          run,        \* run[w]: an activity attempt in progress
          artifact,   \* pipeline_stage_artifact by stage
          registry,   \* the current tool-contract snapshot
          audited,    \* a pipeline_quarantine audit event exists
          published,  \* the manifests the projection repository has accepted
          faults

workflow == <<stage, attempt, picked, prior, status, code>>
store == <<artifact, audited, published>>
vars == <<source, workflow, run, store, registry, faults>>

Load == 1
Evaluate == 2
BuildGraph == 3
Synthesize == 4
Publish == 5
Stages == Load..Publish

(* The stages whose payloads the build function of a stage reads.          *)
Reads(s) ==
  CASE s = Load -> {}
    [] s = Evaluate -> {Load}
    [] s = BuildGraph -> {Load, Evaluate}
    [] s = Synthesize -> {Evaluate, BuildGraph}
    [] s = Publish -> {Load, BuildGraph, Synthesize}

NoArtifact == [input |-> <<>>, hash |-> <<>>, status |-> "none"]
NoRun == [phase |-> "none", stage |-> 0, attempt |-> 0, prior |-> <<>>, graph |-> <<>>,
          payload |-> "none", hash |-> <<>>, status |-> "none", retryable |-> FALSE, code |-> "none"]

Stored(s) == artifact[s] # NoArtifact
Fault == faults < MaxFaults /\ faults' = faults + 1

Init ==
  /\ source \in [outcome : BOOLEAN, corrupt : BOOLEAN]
  /\ stage = Load /\ attempt = 1 /\ picked = FALSE /\ prior = <<>>
  /\ status = "running" /\ code = "none"
  /\ run = [w \in Workers |-> NoRun]
  /\ artifact = [s \in Stages |-> NoArtifact]
  /\ registry \in Registries
  /\ audited = FALSE
  /\ published = {}
  /\ faults = 0

-----------------------------------------------------------------------------
(* Temporal hands the current attempt to a worker.                         *)
StartAttempt(w) ==
  /\ status = "running" /\ ~picked
  /\ run[w].phase = "none"
  /\ picked' = TRUE
  /\ run' = [run EXCEPT ![w] = [NoRun EXCEPT !.phase = "check", !.stage = stage,
                                             !.attempt = attempt, !.prior = prior]]
  /\ UNCHANGED <<source, stage, attempt, prior, status, code, store, registry, faults>>

Returns(w, a) ==
  run' = [run EXCEPT ![w] = [@ EXCEPT !.phase = "result", !.hash = a.hash, !.status = a.status]]
Fails(w, retryable, reason) ==
  run' = [run EXCEPT ![w] = [@ EXCEPT !.phase = "error", !.retryable = retryable, !.code = reason]]

(* runStage first looks for its own artifact.                              *)
Check(w) ==
  /\ run[w].phase = "check"
  /\ LET a == artifact[run[w].stage] IN
       IF a = NoArtifact THEN run' = [run EXCEPT ![w].phase = "build"]
       ELSE IF a.input = run[w].prior THEN Returns(w, a)
       ELSE Fails(w, TRUE, "conflict")
  /\ UNCHANGED <<source, workflow, store, registry, faults>>

(* validatePrior; readPayload, once for each input of the stage.           *)
PriorMissing(w) == run[w].stage # Load /\ ~Stored(run[w].stage - 1)
PriorMatches(w) == run[w].stage # Load => artifact[run[w].stage - 1].hash = run[w].prior
InputMissing(w) == \E s \in Reads(run[w].stage) : ~Stored(s)

Payload(s) ==
  CASE s = Load -> "source"
    [] s = Evaluate -> IF source.outcome THEN "evaluated" ELSE "awaiting_outcome"
    [] s = BuildGraph -> registry
    [] s = Synthesize -> "synthesized"

(* The stage has read its inputs: a publication is next, or an artifact.   *)
Built(w) ==
  run' = [run EXCEPT ![w] =
    IF run[w].stage = Publish THEN [@ EXCEPT !.phase = "publish", !.graph = artifact[BuildGraph].hash]
    ELSE [@ EXCEPT !.phase = "put", !.payload = Payload(run[w].stage)]]

Corrupt(w) == run[w].stage = Load /\ source.corrupt

Build(w) ==
  /\ run[w].phase = "build"
  /\ IF PriorMissing(w) THEN Fails(w, TRUE, "not_found")
     ELSE IF ~PriorMatches(w) THEN Fails(w, FALSE, "invalid_input")
     ELSE IF InputMissing(w) THEN Fails(w, TRUE, "not_found")
     ELSE IF Corrupt(w) THEN Fails(w, FALSE, "archive_corrupt")
     ELSE Built(w)
  /\ audited' = (audited \/ Corrupt(w))    \* recordPipelineQuarantine
  /\ UNCHANGED <<source, workflow, artifact, published, registry, faults>>

(* Mutant: the identity also covers the attempt's own clock.               *)
ManifestTimed(w) ==
  [graph |-> run[w].graph, synthesis |-> run[w].prior, at |-> run[w].attempt]

(* The manifest's identity covers what the graph and the synthesis         *)
(* artifacts say, and not the time it was built.                           *)
Manifest(w) == [graph |-> run[w].graph, synthesis |-> run[w].prior]

(* projection.Repository.Publish: a manifest already there is a duplicate. *)
PublishProjection(w) ==
  /\ run[w].phase = "publish"
  /\ run' = [run EXCEPT ![w] = [@ EXCEPT !.phase = "put",
               !.payload = IF Manifest(w) \in published THEN "duplicate" ELSE "published"]]
  /\ published' = published \cup {Manifest(w)}
  /\ UNCHANGED <<source, workflow, artifact, audited, registry, faults>>

NewArtifact(w) ==
  [input |-> run[w].prior, hash |-> Append(run[w].prior, run[w].payload),
   status |-> IF run[w].payload = "awaiting_outcome" THEN "terminal" ELSE "ready"]

(* Mutant: UPSERT instead of CREATE.                                       *)
PutStageArtifactOverwrites(w) ==
  /\ run[w].phase = "put"
  /\ Returns(w, NewArtifact(w))
  /\ artifact' = [artifact EXCEPT ![run[w].stage] = NewArtifact(w)]
  /\ UNCHANGED <<source, workflow, audited, published, registry, faults>>

(* CREATE with a record ID made of the stage: the first attempt wins.      *)
PutStageArtifact(w) ==
  /\ run[w].phase = "put"
  /\ LET new == NewArtifact(w)
         old == artifact[run[w].stage]
     IN  IF old = NoArtifact THEN Returns(w, new) /\ artifact' = [artifact EXCEPT ![run[w].stage] = new]
         ELSE /\ IF old = new THEN Returns(w, old) ELSE Fails(w, TRUE, "conflict")
              /\ UNCHANGED artifact
  /\ UNCHANGED <<source, workflow, audited, published, registry, faults>>

(* A call to the database or the archive fails; the effect it was to have  *)
(* may have happened all the same.                                         *)
CallFails(w) ==
  /\ run[w].phase \in {"check", "build", "publish", "put"}
  /\ Fails(w, TRUE, "unavailable")
  /\ artifact' \in {artifact} \cup
       IF run[w].phase = "put" /\ ~Stored(run[w].stage)
       THEN {[artifact EXCEPT ![run[w].stage] = NewArtifact(w)]} ELSE {}
  /\ published' \in {published} \cup
       IF run[w].phase = "publish" THEN {published \cup {Manifest(w)}} ELSE {}
  /\ audited' \in {audited, audited \/ (run[w].phase = "build" /\ Corrupt(w))}
  /\ Fault
  /\ UNCHANGED <<source, workflow, registry>>

(* A stage may also reject its input for good: invalid evidence, a graph   *)
(* or a synthesis that cannot be built.                                    *)
Rejects(w) ==
  /\ run[w].phase = "build" /\ ~PriorMissing(w) /\ PriorMatches(w) /\ ~InputMissing(w)
  /\ Fails(w, FALSE, "rejected")
  /\ Fault
  /\ UNCHANGED <<source, workflow, store, registry>>

-----------------------------------------------------------------------------
Current(w) ==
  status = "running" /\ picked /\ run[w].stage = stage /\ run[w].attempt = attempt

(* Mutant: an attempt is never given up.                                   *)
NextAttemptNever == UNCHANGED <<attempt, picked, status, code>>

NextAttempt ==
  IF attempt < MaximumAttempts
  THEN attempt' = attempt + 1 /\ picked' = FALSE /\ UNCHANGED <<status, code>>
  ELSE status' = "failed" /\ code' = "attempts_exhausted" /\ UNCHANGED <<attempt, picked>>

(* A stage result moves the workflow on, or closes it.                     *)
Advance(r) ==
  /\ prior' = r.hash
  /\ UNCHANGED code
  /\ IF r.status = "terminal" THEN status' = "terminal" /\ UNCHANGED <<stage, attempt, picked>>
     ELSE IF stage = Publish THEN status' = "complete" /\ UNCHANGED <<stage, attempt, picked>>
     ELSE stage' = stage + 1 /\ attempt' = 1 /\ picked' = FALSE /\ UNCHANGED status

(* The attempt ends.  Temporal ignores one it no longer waits for.         *)
Completes(w) ==
  /\ run[w].phase = "result"
  /\ IF Current(w) THEN Advance(run[w]) ELSE UNCHANGED workflow
  /\ run' = [run EXCEPT ![w] = NoRun]
  /\ UNCHANGED <<source, store, registry, faults>>

Errs(w) ==
  /\ run[w].phase = "error"
  /\ IF ~Current(w) THEN UNCHANGED workflow
     ELSE /\ UNCHANGED <<stage, prior>>
          /\ IF run[w].retryable THEN NextAttempt
             ELSE status' = "failed" /\ code' = run[w].code /\ UNCHANGED <<attempt, picked>>
  /\ run' = [run EXCEPT ![w] = NoRun]
  /\ UNCHANGED <<source, store, registry, faults>>

Crash(w) ==
  /\ run[w].phase # "none"
  /\ run' = [run EXCEPT ![w] = NoRun]
  /\ Fault
  /\ UNCHANGED <<source, workflow, store, registry>>

(* Heartbeat or start-to-close timeout: the attempt is lost, or is taking  *)
(* too long and goes on unobserved.                                        *)
Lost == ~\E w \in Workers : Current(w)
Timeout ==
  /\ status = "running" /\ picked
  /\ IF Lost THEN UNCHANGED faults ELSE Fault
  /\ NextAttempt
  /\ UNCHANGED <<source, stage, prior, run, store, registry>>

(* Maintenance deletes an artifact past its retention (at least an hour).  *)
(* An attempt lives two minutes at most, so none of this stage that began  *)
(* before the artifact was written is still running.                       *)
ExpireTransient(s) ==
  /\ Stored(s)
  /\ \A w \in Workers : run[w].stage # s
  /\ artifact' = [artifact EXCEPT ![s] = NoArtifact]
  /\ Fault
  /\ UNCHANGED <<source, workflow, run, audited, published, registry>>

RegistryChanges(r) ==
  /\ registry # r /\ registry' = r
  /\ UNCHANGED <<source, workflow, run, store, faults>>

WorkflowTimesOut ==
  /\ status = "running" /\ Fault
  /\ status' = "failed" /\ code' = "timeout"
  /\ UNCHANGED <<source, stage, attempt, picked, prior, run, store, registry>>

Works(w) ==
  \/ Check(w) \/ Build(w) \/ PublishProjection(w) \/ PutStageArtifact(w)
  \/ CallFails(w) \/ Rejects(w) \/ Completes(w) \/ Errs(w)

Next ==
  \/ \E w \in Workers : StartAttempt(w) \/ Works(w) \/ Crash(w)
  \/ \E s \in Stages : ExpireTransient(s)
  \/ \E r \in Registries : RegistryChanges(r)
  \/ Timeout \/ WorkflowTimesOut

Spec == Init /\ [][Next]_vars

(* Workers poll and finish what they take (every call has a deadline), and *)
(* Temporal notices an attempt that stopped.                               *)
Fairness ==
  /\ WF_vars(\E w \in Workers : StartAttempt(w))
  /\ \A w \in Workers : WF_vars(Works(w))
  /\ WF_vars(Lost /\ Timeout)

FairSpec == Spec /\ Fairness

-----------------------------------------------------------------------------
Payloads == {"source", "evaluated", "awaiting_outcome", "synthesized", "published", "duplicate"} \cup Registries

Phases == {"none", "check", "build", "publish", "put", "result", "error"}
Outcomes == {"none", "ready", "terminal"}
Codes == {"none", "conflict", "not_found", "invalid_input", "archive_corrupt", "unavailable", "rejected"}

RunRecord ==
  [phase : Phases, stage : 0..5, attempt : 0..MaximumAttempts, prior : Seq(Payloads),
   graph : Seq(Payloads), payload : Payloads \cup {"none"}, hash : Seq(Payloads),
   status : Outcomes, retryable : BOOLEAN, code : Codes]

ArtifactRecord == [input : Seq(Payloads), hash : Seq(Payloads), status : Outcomes]

(* What a workflow, an attempt and an artifact can hold (synthesis.go,     *)
(* processor.go, store/surreal/workflow.go).                               *)
TypeOK ==
  /\ stage \in 1..5 /\ attempt \in 1..MaximumAttempts /\ picked \in BOOLEAN
  /\ prior \in Seq(Payloads)
  /\ status \in {"running", "complete", "terminal", "failed"}
  /\ run \in [Workers -> RunRecord]
  /\ artifact \in [1..5 -> ArtifactRecord]
  /\ registry \in Registries
  /\ audited \in BOOLEAN
  /\ faults \in 0..MaxFaults

(* The stored artifacts form one chain, the one the workflow is following: *)
(* no attempt that overlaps another, restarts after a crash or sees a      *)
(* newer registry snapshot forks it (processor.go:364-419,                 *)
(* workflow.go:33-75).                                                     *)
OneChain ==
  /\ \A s \in Stages \ {Load} :
       Stored(s) /\ Stored(s - 1) => artifact[s].input = artifact[s - 1].hash
  /\ status = "running" /\ stage # Load /\ Stored(stage - 1) => artifact[stage - 1].hash = prior

(* However many attempts publish, at once or one after another, a workflow *)
(* leads to one manifest, so its evidence is counted once                  *)
(* (processor.go:238-285, projection.go:78-86).  It reports success only   *)
(* if the projection it names was published, from exactly the artifacts it *)
(* followed; a trace without an outcome never publishes anything           *)
(* (synthesis.go:64-80, processor.go:161-163).                             *)
ResultPublished ==
  /\ \A m, n \in published : m = n
  /\ status = "complete" =>
       published = {[graph |-> SubSeq(prior, 1, BuildGraph), synthesis |-> SubSeq(prior, 1, Synthesize)]}
  /\ ~source.outcome => published = {}

(* evidence-pipeline.md: the affected workflow fails non-retryably and an  *)
(* audit event is written; the event is there before the failure can be    *)
(* seen (workflow.go:156-170).                                             *)
QuarantineAudited == code = "archive_corrupt" => audited

(* Every workflow closes: no lost attempt, conflict or expired artifact    *)
(* leaves it waiting for ever (synthesis.go:83-100).                       *)
Closes == <>(status # "running")
=============================================================================
