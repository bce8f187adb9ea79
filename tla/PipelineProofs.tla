--------------------------- MODULE PipelineProofs ---------------------------
(***************************************************************************)
(* One chain of artifacts and one publication per workflow, for any number *)
(* of workers, attempts, registry snapshots and faults.                    *)
(***************************************************************************)
EXTENDS Pipeline, SequenceTheorems, TLAPS

(* The hash of stage n in the chain that the workflow has followed.  Every *)
(* hash covers the ones before it, so this is a prefix of the latest.      *)
Up(n) == SubSeq(prior, 1, n)

(* The only content that the workflow can publish.                         *)
Content == [graph |-> Up(BuildGraph), synthesis |-> Up(Synthesize)]

EvaluatePayload == IF source.outcome THEN "evaluated" ELSE "awaiting_outcome"

(* An attempt, current or overtaken, works on the chain of the workflow;   *)
(* the artifact of a stage that the workflow has passed is there for as    *)
(* long as an attempt of that stage runs.                                  *)
RunOK(w) ==
  run[w].phase # "none" =>
    /\ run[w].stage \in 1..stage
    /\ run[w].prior = Up(run[w].stage - 1)
    /\ run[w].stage <= Len(prior) => Stored(run[w].stage)
    /\ run[w].phase = "publish" => run[w].stage = Publish /\ run[w].graph = Up(BuildGraph)
    /\ run[w].phase = "put" =>
         /\ run[w].payload \in Payloads
         /\ run[w].stage = Publish => published # {}
         /\ run[w].stage = Evaluate => run[w].payload = EvaluatePayload
    /\ run[w].phase = "result" =>
         /\ Stored(run[w].stage)
         /\ run[w].hash = artifact[run[w].stage].hash
         /\ run[w].status = artifact[run[w].stage].status
    /\ run[w].phase = "error" /\ run[w].code = "archive_corrupt" => audited

(* A stored artifact extends the chain of the workflow, and is on it once  *)
(* the workflow has passed its stage.                                      *)
ArtifactOK(s) ==
  Stored(s) =>
    /\ s <= stage
    /\ artifact[s].input = Up(s - 1)
    /\ \E p \in Payloads : artifact[s].hash = Append(artifact[s].input, p)
    /\ s <= Len(prior) => artifact[s].hash = Up(s)
    /\ s = Publish => published # {}
    /\ s = Evaluate /\ ~source.outcome => artifact[s].status = "terminal"

(* A workflow that ended with a result has passed its last stage too.      *)
WorkflowOK ==
  /\ Len(prior) = IF status \in {"complete", "terminal"} THEN stage ELSE stage - 1
  /\ status = "complete" => stage = Publish /\ published # {}
  /\ published \subseteq {Content}
  /\ published # {} => stage = Publish
  /\ ~source.outcome => stage <= Evaluate
  /\ QuarantineAudited

PInv ==
  /\ TypeOK
  /\ WorkflowOK
  /\ \A s \in 1..5 : ArtifactOK(s)
  /\ \A w \in Workers : RunOK(w)

(* The stages are numbered.                                                *)
LEMMA StageNumbers ==
  Load = 1 /\ Evaluate = 2 /\ BuildGraph = 3 /\ Synthesize = 4 /\ Publish = 5 /\ Stages = 1..5
  BY Zenon DEF Load, Evaluate, BuildGraph, Synthesize, Publish, Stages

(* The latest hash is its own last prefix.                                 *)
LEMMA UpToEnd == ASSUME TypeOK PROVE Up(Len(prior)) = prior /\ Len(prior) \in Nat
<1>1. prior \in Seq(Payloads)
  BY Zenon DEF TypeOK
<1> QED
  BY <1>1, SubSeqFull DEF Up

(* Covering one more payload changes no earlier hash.                      *)
LEMMA UpKeeps ==
  ASSUME TypeOK, NEW p \in Payloads, prior' = Append(prior, p)
  PROVE  /\ Len(prior') = Len(prior) + 1 /\ prior' \in Seq(Payloads)
         /\ SubSeq(prior', 1, Len(prior) + 1) = prior'
         /\ \A n \in 0..Len(prior) : Up(n)' = Up(n)
<1>1. prior \in Seq(Payloads) /\ Len(prior) \in Nat
  BY DEF TypeOK
<1>2. /\ prior' \in Seq(Payloads) /\ Len(prior') = Len(prior) + 1
      /\ \A i \in 1..Len(prior) : prior'[i] = prior[i]
  BY <1>1, AppendProperties
<1>3. SubSeq(prior', 1, Len(prior')) = prior'
  BY Zenon, <1>2, SubSeqFull
<1>4. ASSUME NEW n \in 0..Len(prior) PROVE SubSeq(prior', 1, n) = SubSeq(prior, 1, n)
  <2>1. \A i \in 1..n : prior[i] \in Payloads /\ prior'[i] = prior[i]
    BY <1>1, <1>2, ElementOfSeq
  <2>2. \A i \in 1..n : prior'[i] \in Payloads
    BY Zenon, <2>1
  <2>3. n \in Int /\ 1 \in Int
    BY <1>1
  <2>4. /\ SubSeq(prior, 1, n) \in Seq(Payloads) /\ SubSeq(prior', 1, n) \in Seq(Payloads)
        /\ Len(SubSeq(prior, 1, n)) = Len(SubSeq(prior', 1, n))
        /\ Len(SubSeq(prior, 1, n)) = n
        /\ \A i \in 1..n : SubSeq(prior, 1, n)[i] = prior[i] /\ SubSeq(prior', 1, n)[i] = prior'[i]
    <3>1. /\ SubSeq(prior, 1, n) \in Seq(Payloads)
          /\ Len(SubSeq(prior, 1, n)) = IF 1 <= n THEN n - 1 + 1 ELSE 0
          /\ \A i \in 1..(n - 1 + 1) : SubSeq(prior, 1, n)[i] = prior[1 + i - 1]
      BY <2>1, <2>3, SubSeqProperties
    <3>2. /\ SubSeq(prior', 1, n) \in Seq(Payloads)
          /\ Len(SubSeq(prior', 1, n)) = IF 1 <= n THEN n - 1 + 1 ELSE 0
          /\ \A i \in 1..(n - 1 + 1) : SubSeq(prior', 1, n)[i] = prior'[1 + i - 1]
      BY <2>2, <2>3, SubSeqProperties
    <3> QED
      BY <1>1, <3>1, <3>2
  <2> QED
    BY Zenon, <2>1, <2>4, SeqEqual
<1> QED
  BY Zenon, <1>1, <1>2, <1>3, <1>4 DEF Up

(* The empty chain.                                                        *)
LEMMA PipelineStarts == Init => PInv
<1> SUFFICES ASSUME Init PROVE PInv
  BY Zenon
<1>1. <<>> \in Seq(Payloads) /\ Len(<<>>) = 0
  BY Zenon, EmptySeq
<1>2. NoRun \in RunRecord /\ NoArtifact \in ArtifactRecord
  BY <1>1, PipelineAssumption DEF NoRun, NoArtifact, RunRecord, ArtifactRecord, Phases, Outcomes, Codes
<1>3. TypeOK
  <2>1. run \in [Workers -> RunRecord] /\ artifact \in [1..5 -> ArtifactRecord]
    BY Zenon, <1>2, StageNumbers DEF Init
  <2>2. stage \in 1..5 /\ attempt \in 1..MaximumAttempts /\ faults \in 0..MaxFaults
    BY PipelineAssumption, StageNumbers DEF Init
  <2>3. /\ prior \in Seq(Payloads) /\ status \in {"running", "complete", "terminal", "failed"}
        /\ registry \in Registries /\ picked \in BOOLEAN /\ audited \in BOOLEAN
    BY Zenon, <1>1 DEF Init
  <2> QED
    BY Zenon, <2>1, <2>2, <2>3 DEF TypeOK
<1>4. WorkflowOK
  BY <1>1, StageNumbers DEF Init, WorkflowOK, QuarantineAudited
<1>5. \A s \in 1..5 : ArtifactOK(s)
  BY Zenon, StageNumbers DEF Init, ArtifactOK, Stored
<1>6. \A w \in Workers : RunOK(w)
  BY Zenon DEF Init, RunOK, NoRun
<1> QED
  BY Zenon, <1>3, <1>4, <1>5, <1>6 DEF PInv

(* What the invariant says of an attempt that runs: it works on a stage    *)
(* that the workflow has reached, on the chain up to there.                *)
LEMMA AttemptStage ==
  ASSUME TypeOK, NEW w \in Workers, RunOK(w), run[w].phase # "none"
  PROVE  /\ run[w].stage \in 1..5 /\ run[w].stage <= stage
         /\ run[w].prior = Up(run[w].stage - 1)
         /\ run[w].stage <= Len(prior) => Stored(run[w].stage)
<1>1. /\ stage \in 1..5 /\ run[w].stage \in 1..stage
      /\ run[w].prior = Up(run[w].stage - 1)
      /\ run[w].stage <= Len(prior) => Stored(run[w].stage)
  BY Zenon DEF RunOK, TypeOK
<1> QED
  BY <1>1

(* Steps that leave the workflow where it is, write an artifact only where *)
(* there is none, and keep everything else they touch in order.            *)
Orderly ==
  /\ source' = source /\ stage' = stage /\ prior' = prior
  /\ status' = status \/ (status = "running" /\ status' = "failed")
  /\ QuarantineAudited'
  /\ audited => audited'
  /\ \A s \in 1..5 : artifact'[s] = artifact[s] \/ (~Stored(s) /\ ArtifactOK(s)')
  /\ published \subseteq published' /\ published' \subseteq {Content}
  /\ published' # {} => stage = Publish
  /\ \A w \in Workers : run'[w] = run[w] \/ RunOK(w)'

(* An orderly step keeps the invariant.                                    *)
LEMMA OrderlyStep == PInv /\ TypeOK' /\ Orderly => PInv'
<1> SUFFICES ASSUME PInv, TypeOK', Orderly PROVE PInv'
  BY Zenon
<1>0. /\ TypeOK /\ WorkflowOK
      /\ \A s \in 1..5 : ArtifactOK(s)
      /\ \A w \in Workers : RunOK(w)
  BY Zenon DEF PInv
<1>1. WorkflowOK'
  BY Zenon, <1>0 DEF Orderly, WorkflowOK, Content, Up
<1>2. ASSUME NEW s \in 1..5 PROVE ArtifactOK(s)'
  <2>1. CASE artifact'[s] = artifact[s]
    BY Zenon, <1>0, <2>1 DEF Orderly, ArtifactOK, Stored, Up
  <2> QED
    BY Zenon, <2>1 DEF Orderly
<1>3. ASSUME NEW s \in 1..5, Stored(s) PROVE artifact'[s] = artifact[s]
  BY Zenon, <1>3 DEF Orderly
<1>4. ASSUME NEW w \in Workers PROVE RunOK(w)'
  <2>1. CASE run'[w] = run[w]
    <3>1. CASE run[w].phase = "none"
      BY Zenon, <2>1, <3>1 DEF RunOK
    <3>2. CASE run[w].phase # "none"
      <4>1. run[w].stage \in 1..5
        BY Zenon, <1>0, <3>2, AttemptStage
      <4>2. Stored(run[w].stage) => artifact'[run[w].stage] = artifact[run[w].stage]
        BY Zenon, <1>3, <4>1
      <4> QED
        BY <1>0, <2>1, <3>2, <4>2 DEF Orderly, RunOK, Stored, Up, EvaluatePayload
    <3> QED
      BY Zenon, <3>1, <3>2
  <2> QED
    BY Zenon, <2>1 DEF Orderly
<1> QED
  BY Zenon, <1>1, <1>2, <1>4 DEF PInv

(* The run of one worker is replaced.                                      *)
LEMMA RunUpdate ==
  ASSUME TypeOK, NEW w \in Workers, NEW r \in RunRecord, run' = [run EXCEPT ![w] = r]
  PROVE  /\ run' \in [Workers -> RunRecord] /\ run'[w] = r
         /\ \A v \in Workers : v # w => run'[v] = run[v]
  BY Zenon DEF TypeOK

(* An attempt ends with a result.                                          *)
LEMMA ReturnsRun ==
  ASSUME TypeOK, NEW w \in Workers, NEW a \in ArtifactRecord, Returns(w, a)
  PROVE  /\ run' \in [Workers -> RunRecord]
         /\ \A v \in Workers : v # w => run'[v] = run[v]
         /\ run'[w].phase = "result" /\ run'[w].stage = run[w].stage /\ run'[w].prior = run[w].prior
         /\ run'[w].hash = a.hash /\ run'[w].status = a.status
<1> DEFINE r == [run[w] EXCEPT !.phase = "result", !.hash = a.hash, !.status = a.status]
<1>1. run[w] \in RunRecord
  BY Zenon DEF TypeOK
<1>2. /\ r \in RunRecord /\ r.phase = "result" /\ r.stage = run[w].stage /\ r.prior = run[w].prior
      /\ r.hash = a.hash /\ r.status = a.status
  BY Zenon, <1>1 DEF RunRecord, ArtifactRecord, Phases
<1>3. run' = [run EXCEPT ![w] = r]
  BY Zenon DEF Returns
<1> HIDE DEF r
<1> QED
  BY Zenon, <1>2, <1>3, RunUpdate

(* An attempt ends with an error.                                          *)
LEMMA FailsRun ==
  ASSUME TypeOK, NEW w \in Workers, NEW retryable \in BOOLEAN, NEW reason \in Codes,
         Fails(w, retryable, reason)
  PROVE  /\ run' \in [Workers -> RunRecord]
         /\ \A v \in Workers : v # w => run'[v] = run[v]
         /\ run'[w].phase = "error" /\ run'[w].stage = run[w].stage /\ run'[w].prior = run[w].prior
         /\ run'[w].code = reason
<1> DEFINE r == [run[w] EXCEPT !.phase = "error", !.retryable = retryable, !.code = reason]
<1>1. run[w] \in RunRecord
  BY Zenon DEF TypeOK
<1>2. /\ r \in RunRecord /\ r.phase = "error" /\ r.stage = run[w].stage /\ r.prior = run[w].prior
      /\ r.code = reason
  BY Zenon, <1>1 DEF RunRecord, Phases
<1>3. run' = [run EXCEPT ![w] = r]
  BY Zenon DEF Fails
<1> HIDE DEF r
<1> QED
  BY Zenon, <1>2, <1>3, RunUpdate

(* What an attempt is about to store is an artifact of its stage: it       *)
(* extends the hash the attempt was given.                                 *)
LEMMA NewArtifactType ==
  ASSUME TypeOK, NEW w \in Workers, RunOK(w), run[w].phase = "put"
  PROVE  /\ NewArtifact(w) \in ArtifactRecord /\ NewArtifact(w) # NoArtifact
         /\ run[w].stage \in 1..5
<1>1. run[w].prior \in Seq(Payloads) /\ run[w].payload \in Payloads /\ run[w].stage \in 1..5
  BY DEF TypeOK, RunRecord, RunOK
<1>2. Append(run[w].prior, run[w].payload) \in Seq(Payloads)
  BY Zenon, <1>1, AppendProperties
<1>3. /\ NewArtifact(w).status \in {"ready", "terminal"}
      /\ NewArtifact(w) \in ArtifactRecord
  BY Zenon, <1>1, <1>2 DEF NewArtifact, ArtifactRecord, Outcomes
<1>4. NoArtifact.status = "none"
  BY Zenon DEF NoArtifact
<1> QED
  BY Zenon, <1>1, <1>3, <1>4

(* Every action keeps the variables in their types.                        *)
LEMMA PipelineTypes == PInv /\ [Next]_vars => TypeOK'
<1> SUFFICES ASSUME PInv, [Next]_vars PROVE TypeOK'
  BY Zenon
<1>0. /\ TypeOK /\ \A w \in Workers : RunOK(w)
  BY Zenon DEF PInv
<1>a. \A w \in Workers : run[w] \in RunRecord
  BY Zenon, <1>0 DEF TypeOK
<1>b. NoRun \in RunRecord /\ NoArtifact \in ArtifactRecord
  BY EmptySeq, PipelineAssumption
     DEF NoRun, NoArtifact, RunRecord, ArtifactRecord, Phases, Outcomes, Codes
<1>c. ASSUME Fault PROVE faults' \in 0..MaxFaults
  BY <1>0, <1>c, PipelineAssumption DEF TypeOK, Fault
<1>1. ASSUME NEW w \in Workers, StartAttempt(w) PROVE TypeOK'
  <2> DEFINE r == [NoRun EXCEPT !.phase = "check", !.stage = stage, !.attempt = attempt, !.prior = prior]
  <2>1. r \in RunRecord
    <3>1. stage \in 0..5 /\ attempt \in 0..MaximumAttempts /\ prior \in Seq(Payloads)
      BY <1>0, PipelineAssumption DEF TypeOK
    <3> QED
      BY Zenon, <1>b, <3>1 DEF RunRecord, Phases
  <2>2. run' = [run EXCEPT ![w] = r]
    BY Zenon, <1>1 DEF StartAttempt
  <2> HIDE DEF r
  <2> QED
    BY Zenon, <1>0, <1>1, <2>1, <2>2, RunUpdate DEF StartAttempt, TypeOK, store
<1>2. ASSUME NEW w \in Workers, Check(w) PROVE TypeOK'
  <2>1. run' \in [Workers -> RunRecord]
    <3>1. CASE artifact[run[w].stage] = NoArtifact
      <4>1. run' = [run EXCEPT ![w] = [run[w] EXCEPT !.phase = "build"]]
        BY Zenon, <1>2, <3>1 DEF Check
      <4>2. [run[w] EXCEPT !.phase = "build"] \in RunRecord
        BY Zenon, <1>a DEF RunRecord, Phases
      <4> QED
        BY Zenon, <1>0, <4>1, <4>2, RunUpdate
    <3>2. CASE artifact[run[w].stage] # NoArtifact
      <4>1. run[w].stage \in 1..5
        BY Zenon, <1>0, <1>2, AttemptStage DEF Check
      <4>2. artifact[run[w].stage] \in ArtifactRecord
        BY Zenon, <1>0, <4>1 DEF TypeOK
      <4>3. Returns(w, artifact[run[w].stage]) \/ Fails(w, TRUE, "conflict")
        BY Zenon, <1>2, <3>2 DEF Check
      <4> QED
        BY Zenon, <1>0, <4>2, <4>3, ReturnsRun, FailsRun DEF Codes
    <3> QED
      BY Zenon, <3>1, <3>2
  <2> QED
    BY Zenon, <1>0, <1>2, <2>1 DEF Check, TypeOK, workflow, store
<1>3. ASSUME NEW w \in Workers, Build(w) PROVE TypeOK'
  <2>1. \/ \E retryable \in BOOLEAN, reason \in Codes : Fails(w, retryable, reason)
        \/ Built(w)
    BY Zenon, <1>3 DEF Build, Codes
  <2>2. ASSUME Built(w) PROVE run' \in [Workers -> RunRecord]
    <3>1. CASE run[w].stage = Publish
      <4>1. artifact[BuildGraph].hash \in Seq(Payloads)
        BY <1>0, StageNumbers DEF TypeOK, ArtifactRecord
      <4> QED
        <5>1. run' = [run EXCEPT ![w] = [run[w] EXCEPT !.phase = "publish", !.graph = artifact[BuildGraph].hash]]
          BY Zenon, <2>2, <3>1 DEF Built
        <5>2. [run[w] EXCEPT !.phase = "publish", !.graph = artifact[BuildGraph].hash] \in RunRecord
          BY Zenon, <1>a, <4>1 DEF RunRecord, Phases
        <5> QED
          BY Zenon, <1>0, <5>1, <5>2, RunUpdate
    <3>2. CASE run[w].stage # Publish
      <4>1. Payload(run[w].stage) \in Payloads
        BY <1>0, <1>3, <3>2, StageNumbers DEF Build, RunOK, TypeOK, Payload, Payloads
      <4>2. run' = [run EXCEPT ![w] = [run[w] EXCEPT !.phase = "put", !.payload = Payload(run[w].stage)]]
        BY Zenon, <2>2, <3>2 DEF Built
      <4>3. [run[w] EXCEPT !.phase = "put", !.payload = Payload(run[w].stage)] \in RunRecord
        BY Zenon, <1>a, <4>1 DEF RunRecord, Phases
      <4> QED
        BY Zenon, <1>0, <4>2, <4>3, RunUpdate
    <3> QED
      BY Zenon, <3>1, <3>2
  <2>3. run' \in [Workers -> RunRecord]
    BY Zenon, <1>0, <2>1, <2>2, FailsRun
  <2>4. audited' \in BOOLEAN
    BY Zenon, <1>3 DEF Build
  <2> QED
    BY Zenon, <1>0, <1>3, <2>3, <2>4 DEF Build, TypeOK, workflow
<1>4. ASSUME NEW w \in Workers, PublishProjection(w) PROVE TypeOK'
  <2>1. run' \in [Workers -> RunRecord]
    <3> DEFINE p == IF Manifest(w) \in published THEN "duplicate" ELSE "published"
    <3>1. run' = [run EXCEPT ![w] = [run[w] EXCEPT !.phase = "put", !.payload = p]]
      BY Zenon, <1>4 DEF PublishProjection
    <3>2. p \in Payloads
      BY Zenon DEF Payloads
    <3> HIDE DEF p
    <3>3. [run[w] EXCEPT !.phase = "put", !.payload = p] \in RunRecord
      BY Zenon, <1>a, <3>2 DEF RunRecord, Phases
    <3> QED
      BY Zenon, <1>0, <3>1, <3>3, RunUpdate
  <2> QED
    BY Zenon, <1>0, <1>4, <2>1 DEF PublishProjection, TypeOK, workflow
<1>5. ASSUME NEW w \in Workers, run[w].phase = "put"
      PROVE  /\ NewArtifact(w) \in ArtifactRecord /\ NewArtifact(w) # NoArtifact
             /\ run[w].stage \in 1..5
  BY Zenon, <1>a, <1>0, <1>5, NewArtifactType
<1>6. ASSUME NEW w \in Workers, PutStageArtifact(w) PROVE TypeOK'
  <2>1. /\ NewArtifact(w) \in ArtifactRecord
        /\ run[w].stage \in 1..5
    BY Zenon, <1>5, <1>6 DEF PutStageArtifact
  <2>2. \/ Returns(w, NewArtifact(w)) /\ artifact' = [artifact EXCEPT ![run[w].stage] = NewArtifact(w)]
        \/ Returns(w, NewArtifact(w)) /\ artifact' = artifact
        \/ Fails(w, TRUE, "conflict") /\ artifact' = artifact
    BY Zenon, <1>6 DEF PutStageArtifact
  <2>3. run' \in [Workers -> RunRecord]
    BY Zenon, <1>0, <2>1, <2>2, ReturnsRun, FailsRun DEF Codes
  <2>4. artifact' \in [1..5 -> ArtifactRecord]
    BY Zenon, <1>0, <2>1, <2>2 DEF TypeOK
  <2> QED
    BY Zenon, <1>0, <1>6, <2>3, <2>4 DEF PutStageArtifact, TypeOK, workflow
<1>7. ASSUME NEW w \in Workers, CallFails(w) PROVE TypeOK'
  <2>1. run' \in [Workers -> RunRecord]
    BY Zenon, <1>0, <1>7, FailsRun DEF CallFails, Codes
  <2>2. artifact' \in [1..5 -> ArtifactRecord]
    <3>1. artifact' = artifact \/ (run[w].phase = "put" /\ artifact' = [artifact EXCEPT ![run[w].stage] = NewArtifact(w)])
      BY Zenon, <1>7 DEF CallFails
    <3> QED
      BY Zenon, <1>0, <1>5, <3>1 DEF TypeOK
  <2>3. audited' \in BOOLEAN
    BY Zenon, <1>0, <1>7 DEF CallFails, TypeOK
  <2> QED
    BY Zenon, <1>0, <1>7, <1>c, <2>1, <2>2, <2>3 DEF CallFails, TypeOK, workflow
<1>8. ASSUME NEW w \in Workers, Rejects(w) PROVE TypeOK'
  BY Zenon, <1>0, <1>8, <1>c, FailsRun DEF Rejects, TypeOK, workflow, store, Codes
<1>9. ASSUME NEW w \in Workers, Completes(w) PROVE TypeOK'
  <2>1. run' \in [Workers -> RunRecord]
    BY Zenon, <1>0, <1>9, <1>b, RunUpdate DEF Completes
  <2>2. /\ stage' \in 1..5 /\ attempt' \in 1..MaximumAttempts /\ picked' \in BOOLEAN
        /\ prior' \in Seq(Payloads) /\ status' \in {"running", "complete", "terminal", "failed"}
    <3>1. CASE Current(w)
      <4>1. Advance(run[w])
        BY Zenon, <1>9, <3>1 DEF Completes
      <4> QED
        <5>1. prior' \in Seq(Payloads)
          BY Zenon, <1>a, <4>1 DEF Advance, RunRecord
        <5>2. stage' \in 1..5 /\ attempt' \in 1..MaximumAttempts
          BY <1>0, <4>1, StageNumbers, PipelineAssumption DEF Advance, TypeOK
        <5>3. picked' \in BOOLEAN
          BY Zenon, <1>0, <4>1 DEF Advance, TypeOK
        <5>4. status' \in {"running", "complete", "terminal", "failed"}
          BY Zenon, <1>0, <4>1 DEF Advance, TypeOK
        <5> QED
          BY Zenon, <5>1, <5>2, <5>3, <5>4
    <3>2. CASE ~Current(w)
      BY Zenon, <1>0, <1>9, <3>2 DEF Completes, TypeOK, workflow
    <3> QED
      BY Zenon, <3>1, <3>2
  <2> QED
    BY Zenon, <1>0, <1>9, <2>1, <2>2 DEF Completes, TypeOK, store
<1>10. ASSUME NextAttempt
       PROVE  /\ attempt' \in 1..MaximumAttempts /\ picked' \in BOOLEAN
              /\ status' \in {"running", "complete", "terminal", "failed"}
  <2>1. attempt' \in 1..MaximumAttempts
    BY <1>0, <1>10, PipelineAssumption DEF NextAttempt, TypeOK
  <2>2. picked' \in BOOLEAN
    BY Zenon, <1>0, <1>10 DEF NextAttempt, TypeOK
  <2>3. status' \in {"running", "complete", "terminal", "failed"}
    BY Zenon, <1>0, <1>10 DEF NextAttempt, TypeOK
  <2> QED
    BY Zenon, <2>1, <2>2, <2>3
<1>11. ASSUME NEW w \in Workers, Errs(w) PROVE TypeOK'
  <2>1. run' \in [Workers -> RunRecord]
    BY Zenon, <1>0, <1>11, <1>b, RunUpdate DEF Errs
  <2>2. /\ stage' = stage /\ prior' = prior
        /\ attempt' \in 1..MaximumAttempts /\ picked' \in BOOLEAN
        /\ status' \in {"running", "complete", "terminal", "failed"}
    BY Zenon, <1>0, <1>11, <1>10 DEF Errs, TypeOK, workflow
  <2> QED
    BY Zenon, <1>0, <1>11, <2>1, <2>2 DEF Errs, TypeOK, store
<1>12. ASSUME NEW w \in Workers, Crash(w) PROVE TypeOK'
  BY Zenon, <1>0, <1>12, <1>b, <1>c, RunUpdate DEF Crash, TypeOK, workflow, store
<1>13. CASE Timeout
  <2>1. faults' \in 0..MaxFaults
    BY Zenon, <1>0, <1>13, <1>c DEF Timeout, TypeOK
  <2> QED
    BY Zenon, <1>0, <1>13, <1>10, <2>1 DEF Timeout, TypeOK, store
<1>14. CASE WorkflowTimesOut
  BY Zenon, <1>0, <1>14, <1>c DEF WorkflowTimesOut, TypeOK, store
<1>15. ASSUME NEW s \in Stages, ExpireTransient(s) PROVE TypeOK'
  BY Zenon, <1>0, <1>15, <1>b, <1>c, StageNumbers DEF ExpireTransient, TypeOK, workflow
<1>16. ASSUME NEW r \in Registries, RegistryChanges(r) PROVE TypeOK'
  BY Zenon, <1>0, <1>16 DEF RegistryChanges, TypeOK, workflow, store
<1>17. CASE UNCHANGED vars
  BY Zenon, <1>0, <1>17 DEF vars, TypeOK, workflow, store
<1> QED
  BY Zenon, <1>1, <1>2, <1>3, <1>4, <1>6, <1>7, <1>8, <1>9, <1>11, <1>12, <1>13, <1>14, <1>15, <1>16, <1>17
     DEF Next, Works

(* What attempts may write.  An attempt that finds no artifact of its      *)
(* stage is one the workflow still waits for, so what it stores extends    *)
(* the chain.                                                              *)
LEMMA StoreExtends ==
  ASSUME PInv, NEW w \in Workers, run[w].phase = "put", ~Stored(run[w].stage),
         artifact' = [artifact EXCEPT ![run[w].stage] = NewArtifact(w)],
         source' = source, stage' = stage, prior' = prior, published' = published
  PROVE  /\ \A s \in 1..5 : artifact'[s] = artifact[s] \/ (~Stored(s) /\ ArtifactOK(s)')
         /\ artifact'[run[w].stage] = NewArtifact(w) /\ NewArtifact(w) # NoArtifact
<1> DEFINE t == run[w].stage
<1>0. TypeOK /\ RunOK(w) /\ WorkflowOK
  BY Zenon DEF PInv
<1>1. /\ NewArtifact(w) \in ArtifactRecord /\ NewArtifact(w) # NoArtifact /\ t \in 1..5
  BY Zenon, <1>0, NewArtifactType
<1>2. artifact'[t] = NewArtifact(w) /\ \A s \in 1..5 : s # t => artifact'[s] = artifact[s]
  BY Zenon, <1>0, <1>1 DEF TypeOK
<1>3. /\ t <= stage /\ run[w].prior = Up(t - 1) /\ run[w].payload \in Payloads
      /\ ~(t <= Len(prior)) /\ (t = Publish => published # {})
      /\ (t = Evaluate => run[w].payload = EvaluatePayload)
  BY <1>0 DEF RunOK, TypeOK
<1>4. /\ NewArtifact(w).input = run[w].prior
      /\ NewArtifact(w).hash = Append(run[w].prior, run[w].payload)
      /\ (run[w].payload = "awaiting_outcome" => NewArtifact(w).status = "terminal")
  BY Zenon DEF NewArtifact
<1>5. ASSUME NEW s \in 1..5, s = t PROVE ArtifactOK(s)'
  <2>1. t = Evaluate /\ ~source.outcome => NewArtifact(w).status = "terminal"
    BY Zenon, <1>3, <1>4 DEF EvaluatePayload
  <2> HIDE DEF t
  <2>2. /\ artifact'[s].input = Up(s - 1) /\ s <= stage /\ ~(s <= Len(prior))
        /\ artifact'[s].hash = Append(artifact'[s].input, run[w].payload) /\ run[w].payload \in Payloads
        /\ (s = Publish => published # {})
        /\ (s = Evaluate /\ ~source.outcome => artifact'[s].status = "terminal")
    BY Zenon, <1>2, <1>3, <1>4, <1>5, <2>1
  <2> QED
    BY Zenon, <2>2 DEF ArtifactOK, Up
<1> QED
  BY Zenon, <1>1, <1>2, <1>5 DEF Stored

(* What an attempt publishes is the workflow's one content.                *)
LEMMA ManifestIsContent ==
  ASSUME PInv, NEW w \in Workers, run[w].phase = "publish"
  PROVE  Manifest(w) = Content /\ stage = Publish
<1>1. TypeOK /\ RunOK(w)
  BY Zenon DEF PInv
<1>2. /\ run[w].stage = 5 /\ run[w].graph = Up(3) /\ run[w].prior = Up(5 - 1) /\ stage = 5
  BY <1>1, StageNumbers DEF RunOK, TypeOK
<1> QED
  BY <1>2, StageNumbers DEF Manifest, Content

(* The step of one attempt.                                                *)
LEMMA AttemptStep ==
  ASSUME PInv, TypeOK', NEW w \in Workers,
         Check(w) \/ Build(w) \/ PublishProjection(w) \/ PutStageArtifact(w) \/ CallFails(w) \/ Rejects(w)
  PROVE  PInv'
<1>0. /\ TypeOK /\ RunOK(w) /\ WorkflowOK /\ \A s \in 1..5 : ArtifactOK(s)
  BY Zenon DEF PInv
<1>a. /\ run[w].phase # "none" /\ UNCHANGED <<source, stage, prior, status, code>>
  BY Zenon DEF Check, Build, PublishProjection, PutStageArtifact, CallFails, Rejects, workflow
<1>b. /\ run[w].stage \in 1..5 /\ run[w].stage <= stage /\ run[w].prior = Up(run[w].stage - 1)
      /\ run[w].stage <= Len(prior) => Stored(run[w].stage)
  BY Zenon, <1>0, <1>a, AttemptStage
<1>c. published \subseteq {Content} /\ (published # {} => stage = Publish) /\ QuarantineAudited
  BY Zenon, <1>0 DEF WorkflowOK
<1>d. ASSUME NEW retryable \in BOOLEAN, NEW reason \in Codes, Fails(w, retryable, reason),
             reason = "archive_corrupt" => audited',
             \A s \in 1..5 : Stored(s) => Stored(s)'
      PROVE  \A v \in Workers : run'[v] = run[v] \/ RunOK(v)'
  <2>1. /\ \A v \in Workers : v # w => run'[v] = run[v]
        /\ run'[w].phase = "error" /\ run'[w].stage = run[w].stage /\ run'[w].prior = run[w].prior
        /\ run'[w].code = reason
    BY Zenon, <1>0, <1>d, FailsRun
  <2>2. RunOK(w)'
    BY SMTT(30), <1>a, <1>b, <1>d, <2>1 DEF RunOK, Up
  <2> QED
    BY Zenon, <2>1, <2>2
<1>e. ASSUME NEW a \in ArtifactRecord, Returns(w, a), artifact'[run[w].stage] = a, a # NoArtifact
      PROVE  \A v \in Workers : run'[v] = run[v] \/ RunOK(v)'
  <2>1. /\ \A v \in Workers : v # w => run'[v] = run[v]
        /\ run'[w].phase = "result" /\ run'[w].stage = run[w].stage /\ run'[w].prior = run[w].prior
        /\ run'[w].hash = a.hash /\ run'[w].status = a.status
    BY Zenon, <1>0, <1>e, ReturnsRun
  <2>2. RunOK(w)'
    BY SMTT(30), <1>a, <1>b, <1>e, <2>1 DEF RunOK, Up, Stored
  <2> QED
    BY SMTT(30), <2>1, <2>2
<1>f. ASSUME audited => audited',
             \A s \in 1..5 : artifact'[s] = artifact[s] \/ (~Stored(s) /\ ArtifactOK(s)'),
             published \subseteq published', published' \subseteq {Content},
             published' # {} => stage = Publish,
             \A v \in Workers : run'[v] = run[v] \/ RunOK(v)'
      PROVE  PInv'
  <2>1. QuarantineAudited'
    BY Zenon, <1>a, <1>c, <1>f DEF QuarantineAudited
  <2>2. Orderly
    BY Zenon, <1>a, <1>f, <2>1 DEF Orderly
  <2> QED
    BY Zenon, <2>2, OrderlyStep
<1>1. CASE Check(w)
  <2>0. UNCHANGED <<artifact, audited, published>>
    BY Zenon, <1>1 DEF Check, store
  <2>1. CASE artifact[run[w].stage] = NoArtifact
    <3>1. run' = [run EXCEPT ![w] = [run[w] EXCEPT !.phase = "build"]]
      BY Zenon, <1>1, <2>1 DEF Check
    <3>2. /\ \A v \in Workers : v # w => run'[v] = run[v]
          /\ run'[w].phase = "build" /\ run'[w].stage = run[w].stage /\ run'[w].prior = run[w].prior
      BY Zenon, <1>0, <3>1 DEF TypeOK, RunRecord
    <3>3. RunOK(w)'
      BY <1>a, <1>b, <2>0, <3>2 DEF RunOK, Up, Stored
    <3> QED
      BY Zenon, <1>c, <1>f, <2>0, <3>2, <3>3
  <2>2. CASE artifact[run[w].stage] # NoArtifact
    <3>1. artifact[run[w].stage] \in ArtifactRecord
      BY Zenon, <1>0, <1>b DEF TypeOK
    <3>2. Returns(w, artifact[run[w].stage]) \/ Fails(w, TRUE, "conflict")
      BY Zenon, <1>1, <2>2 DEF Check
    <3>3. \A v \in Workers : run'[v] = run[v] \/ RunOK(v)'
      <4>1. CASE Returns(w, artifact[run[w].stage])
        BY Zenon, <1>e, <2>0, <2>2, <3>1, <4>1 DEF Stored
      <4>2. CASE Fails(w, TRUE, "conflict")
        BY Zenon, <1>d, <2>0, <4>2 DEF Stored, Codes
      <4> QED
        BY Zenon, <3>2, <4>1, <4>2
    <3> QED
      BY Zenon, <1>c, <1>f, <2>0, <3>3
  <2> QED
    BY Zenon, <2>1, <2>2
<1>2. CASE Build(w)
  <2>0. UNCHANGED <<artifact, published>> /\ (audited => audited') /\ run[w].phase = "build"
    BY Zenon, <1>2 DEF Build
  <2>1. \/ \E retryable \in BOOLEAN, reason \in Codes :
             Fails(w, retryable, reason) /\ (reason = "archive_corrupt" => audited')
        \/ Built(w) /\ ~InputMissing(w)
    BY Zenon, <1>2 DEF Build, Codes
  <2>2. CASE Built(w) /\ ~InputMissing(w)
    <3>1. CASE run[w].stage = Publish
      <4>1. /\ \A v \in Workers : v # w => run'[v] = run[v]
            /\ run'[w].phase = "publish" /\ run'[w].stage = run[w].stage
            /\ run'[w].prior = run[w].prior /\ run'[w].graph = artifact[3].hash
        BY <1>0, <2>2, <3>1, StageNumbers DEF Built, TypeOK, RunRecord
      <4>2. Stored(3)
        BY <2>2, <3>1, StageNumbers DEF InputMissing, Reads
      <4>3. stage = 5 /\ 3 <= Len(prior)
        <5>1. /\ stage \in 1..5 /\ 5 <= stage
              /\ Len(prior) = IF status \in {"complete", "terminal"} THEN stage ELSE stage - 1
          BY Zenon, <1>0, <1>b, <3>1, StageNumbers DEF WorkflowOK, TypeOK
        <5> QED
          BY <5>1
      <4>4. artifact[3].hash = Up(3)
        BY SMTT(30), <1>0, <4>2, <4>3 DEF ArtifactOK
      <4>5. RunOK(w)'
        BY SMTT(30), <1>a, <1>b, <2>0, <3>1, <4>1, <4>4, StageNumbers DEF RunOK, Up, Stored
      <4> QED
        BY Zenon, <1>c, <1>f, <2>0, <4>1, <4>5
    <3>2. CASE run[w].stage # Publish
      <4>1. /\ \A v \in Workers : v # w => run'[v] = run[v]
            /\ run'[w].phase = "put" /\ run'[w].stage = run[w].stage
            /\ run'[w].prior = run[w].prior /\ run'[w].payload = Payload(run[w].stage)
        BY <1>0, <2>2, <3>2 DEF Built, TypeOK, RunRecord
      <4>2. /\ Payload(run[w].stage) \in Payloads
            /\ run[w].stage = Evaluate => Payload(run[w].stage) = EvaluatePayload
        <5>1. run[w].stage \in {1, 2, 3, 4}
          BY <1>b, <3>2, StageNumbers
        <5>2. registry \in Registries
          BY Zenon, <1>0 DEF TypeOK
        <5> QED
          BY SMTT(30), <5>1, <5>2, StageNumbers DEF Payload, Payloads, EvaluatePayload
      <4>3. EvaluatePayload' = EvaluatePayload
        BY Zenon, <1>a DEF EvaluatePayload
      <4>4. RunOK(w)'
        BY SMTT(30), <1>a, <1>b, <2>0, <3>2, <4>1, <4>2, <4>3 DEF RunOK, Up, Stored
      <4> QED
        BY Zenon, <1>c, <1>f, <2>0, <4>1, <4>4
    <3> QED
      BY Zenon, <3>1, <3>2
  <2>3. ASSUME NEW retryable \in BOOLEAN, NEW reason \in Codes, Fails(w, retryable, reason),
               reason = "archive_corrupt" => audited'
        PROVE  PInv'
    BY Zenon, <1>c, <1>d, <1>f, <2>0, <2>3 DEF Stored
  <2> QED
    BY Zenon, <2>1, <2>2, <2>3
<1>3. CASE PublishProjection(w)
  <2>1. /\ \A v \in Workers : v # w => run'[v] = run[v]
        /\ run'[w].phase = "put" /\ run'[w].stage = run[w].stage /\ run'[w].prior = run[w].prior
        /\ run'[w].payload \in {"duplicate", "published"}
    BY <1>0, <1>3 DEF PublishProjection, TypeOK, RunRecord
  <2>2. Manifest(w) = Content /\ stage = Publish /\ run[w].stage = Publish
    BY Zenon, <1>0, <1>3, ManifestIsContent DEF PublishProjection, RunOK
  <2>3. published' = published \cup {Content} /\ UNCHANGED <<artifact, audited>>
    BY Zenon, <1>3, <2>2 DEF PublishProjection
  <2>4. RunOK(w)'
    <3>1. run'[w].payload \in Payloads /\ published' # {} /\ Publish # Evaluate
      BY SMTT(30), <2>1, <2>3, StageNumbers DEF Payloads
    <3> QED
      BY SMTT(30), <1>a, <1>b, <2>1, <2>2, <2>3, <3>1 DEF RunOK, Up, Stored
  <2> QED
    BY Zenon, <1>c, <1>f, <2>1, <2>2, <2>3, <2>4
<1>4. CASE PutStageArtifact(w)
  <2>0. run[w].phase = "put" /\ UNCHANGED <<audited, published>>
    BY Zenon, <1>4 DEF PutStageArtifact
  <2>1. NewArtifact(w) \in ArtifactRecord
    BY SMTT(30), <1>0, <2>0, NewArtifactType
  <2>2. CASE artifact[run[w].stage] = NoArtifact
    <3>1. Returns(w, NewArtifact(w)) /\ artifact' = [artifact EXCEPT ![run[w].stage] = NewArtifact(w)]
      BY SMTT(30), <1>4, <2>2 DEF PutStageArtifact
    <3>2. /\ \A s \in 1..5 : artifact'[s] = artifact[s] \/ (~Stored(s) /\ ArtifactOK(s)')
          /\ artifact'[run[w].stage] = NewArtifact(w) /\ NewArtifact(w) # NoArtifact
      BY Zenon, <1>a, <2>0, <2>2, <3>1, StoreExtends DEF Stored
    <3> QED
      BY Zenon, <1>c, <1>e, <1>f, <2>0, <2>1, <3>1, <3>2
  <2>3. CASE artifact[run[w].stage] # NoArtifact
    <3>1. artifact' = artifact
      BY SMTT(30), <1>4, <2>3 DEF PutStageArtifact
    <3>2. \/ artifact[run[w].stage] = NewArtifact(w) /\ Returns(w, NewArtifact(w))
          \/ Fails(w, TRUE, "conflict")
      BY Zenon, <1>4, <2>3 DEF PutStageArtifact
    <3>3. \A v \in Workers : run'[v] = run[v] \/ RunOK(v)'
      <4>1. CASE artifact[run[w].stage] = NewArtifact(w) /\ Returns(w, NewArtifact(w))
        BY Zenon, <1>e, <2>1, <2>3, <3>1, <4>1 DEF Stored
      <4>2. CASE Fails(w, TRUE, "conflict")
        BY Zenon, <1>d, <3>1, <4>2 DEF Stored, Codes
      <4> QED
        BY Zenon, <3>2, <4>1, <4>2
    <3> QED
      BY Zenon, <1>c, <1>f, <2>0, <3>1, <3>3
  <2> QED
    BY Zenon, <2>2, <2>3
<1>5. CASE CallFails(w)
  <2>0. Fails(w, TRUE, "unavailable") /\ (audited => audited')
    BY Zenon, <1>5 DEF CallFails
  <2>1. /\ \A s \in 1..5 : artifact'[s] = artifact[s] \/ (~Stored(s) /\ ArtifactOK(s)')
        /\ published \subseteq published' /\ published' \subseteq {Content}
        /\ published' # {} => stage = Publish
    <3>1. CASE run[w].phase = "put"
      <4>1. published' = published
        BY Zenon, <1>5, <3>1 DEF CallFails
      <4>2. \/ artifact' = artifact
            \/ ~Stored(run[w].stage) /\ artifact' = [artifact EXCEPT ![run[w].stage] = NewArtifact(w)]
        BY Zenon, <1>5, <3>1 DEF CallFails
      <4>3. \A s \in 1..5 : artifact'[s] = artifact[s] \/ (~Stored(s) /\ ArtifactOK(s)')
        BY Zenon, <1>a, <3>1, <4>1, <4>2, StoreExtends
      <4> QED
        BY Zenon, <1>c, <4>1, <4>3
    <3>2. CASE run[w].phase # "put"
      <4>1. artifact' = artifact
        BY Zenon, <1>5, <3>2 DEF CallFails
      <4>2. published' = published \/ (run[w].phase = "publish" /\ published' = published \cup {Manifest(w)})
        BY Zenon, <1>5, <3>2 DEF CallFails
      <4> QED
        BY Zenon, <1>c, <4>1, <4>2, ManifestIsContent
    <3> QED
      BY SMTT(30), <3>1, <3>2
  <2>2. \A s \in 1..5 : Stored(s) => Stored(s)'
    BY Zenon, <2>1 DEF Stored
  <2> QED
    BY Zenon, <1>d, <1>f, <2>0, <2>1, <2>2 DEF Codes
<1>6. CASE Rejects(w)
  <2>1. Fails(w, FALSE, "rejected") /\ UNCHANGED <<artifact, audited, published>>
    BY Zenon, <1>6 DEF Rejects, store
  <2> QED
    BY Zenon, <1>c, <1>d, <1>f, <2>1 DEF Stored, Codes
<1> QED
  BY Zenon, <1>1, <1>2, <1>3, <1>4, <1>5, <1>6

(* A result moves the workflow on: its hash covers the latest one, and the *)
(* artifact it names is there for the attempts of that stage that are left.*)
LEMMA AdvanceStep ==
  ASSUME PInv, TypeOK', NEW w \in Workers, Completes(w), Current(w)
  PROVE  PInv'
<1>0. /\ TypeOK /\ RunOK(w) /\ WorkflowOK
      /\ \A s \in 1..5 : ArtifactOK(s)
      /\ \A v \in Workers : RunOK(v)
  BY Zenon DEF PInv
<1>1. /\ run[w].phase = "result" /\ run[w].stage = stage /\ status = "running"
      /\ Advance(run[w]) /\ run' = [run EXCEPT ![w] = NoRun]
      /\ source' = source /\ artifact' = artifact /\ audited' = audited /\ published' = published
  BY Zenon DEF Completes, Current, store
<1>2. stage \in 1..5 /\ Len(prior) = stage - 1 /\ prior = Up(stage - 1)
  <2>1. Len(prior) = stage - 1
    BY Zenon, <1>0, <1>1 DEF WorkflowOK
  <2> QED
    BY Zenon, <1>0, <2>1, UpToEnd DEF TypeOK
<1>3. /\ Stored(stage) /\ run[w].hash = artifact[stage].hash /\ run[w].status = artifact[stage].status
      /\ artifact[stage].input = prior
  BY Zenon, <1>0, <1>1, <1>2 DEF RunOK, ArtifactOK
<1>4. PICK p \in Payloads : artifact[stage].hash = Append(prior, p)
  BY Zenon, <1>0, <1>2, <1>3 DEF ArtifactOK
<1>5. prior' = Append(prior, p) /\ prior' = artifact[stage].hash
  BY Zenon, <1>1, <1>3, <1>4 DEF Advance
<1>6. /\ Len(prior') = stage /\ SubSeq(prior', 1, stage) = prior'
      /\ \A n \in 0..(stage - 1) : Up(n)' = Up(n)
  BY <1>0, <1>2, <1>5, UpKeeps
<1>7. /\ code' = code
      /\ \/ run[w].status = "terminal" /\ status' = "terminal" /\ stage' = stage
         \/ stage = 5 /\ status' = "complete" /\ stage' = stage
         \/ run[w].status # "terminal" /\ stage # 5 /\ status' = status /\ stage' = stage + 1
  BY Zenon, <1>1, StageNumbers DEF Advance
<1>8. WorkflowOK'
  <2>1. Len(prior') = IF status' \in {"complete", "terminal"} THEN stage' ELSE stage' - 1
    BY SMTT(30), <1>1, <1>2, <1>6, <1>7
  <2>2. status' = "complete" => stage' = 5 /\ published' # {}
    BY Zenon, <1>0, <1>1, <1>2, <1>3, <1>7, StageNumbers DEF ArtifactOK
  <2>3. published' \subseteq {Content}' /\ (published' # {} => stage' = 5)
    <3>1. CASE published = {}
      BY Zenon, <1>1, <3>1
    <3>2. CASE published # {}
      <4>1. stage = 5 /\ stage' = 5
        BY Zenon, <1>0, <1>7, <3>2, StageNumbers DEF WorkflowOK
      <4>2. Up(3)' = Up(3) /\ Up(4)' = Up(4)
        BY <1>6, <4>1
      <4>3. Content' = Content
        BY Zenon, <4>2, StageNumbers DEF Content
      <4> QED
        BY Zenon, <1>0, <1>1, <4>1, <4>3 DEF WorkflowOK
    <3> QED
      BY Zenon, <3>1, <3>2
  <2>4. ~source'.outcome => stage' <= 2
    <3>1. CASE source.outcome
      BY Zenon, <1>1, <3>1
    <3>2. CASE ~source.outcome
      <4>1. stage <= 2
        BY Zenon, <1>0, <3>2, StageNumbers DEF WorkflowOK
      <4>2. stage = 2 => run[w].status = "terminal"
        BY Zenon, <1>0, <1>2, <1>3, <3>2, StageNumbers DEF ArtifactOK
      <4> QED
        BY <1>2, <1>7, <4>1, <4>2
    <3> QED
      BY Zenon, <3>1, <3>2
  <2>5. QuarantineAudited'
    BY Zenon, <1>0, <1>1, <1>7 DEF WorkflowOK, QuarantineAudited
  <2> QED
    BY Zenon, <2>1, <2>2, <2>3, <2>4, <2>5, StageNumbers DEF WorkflowOK
<1>9. ASSUME NEW s \in 1..5 PROVE ArtifactOK(s)'
  <2> SUFFICES ASSUME Stored(s)' PROVE ArtifactOK(s)'
    BY SMTT(30) DEF ArtifactOK
  <2>1. /\ Stored(s) /\ s <= stage /\ artifact[s].input = Up(s - 1)
        /\ \E q \in Payloads : artifact[s].hash = Append(artifact[s].input, q)
        /\ s <= Len(prior) => artifact[s].hash = Up(s)
        /\ s = Publish => published # {}
        /\ s = Evaluate /\ ~source.outcome => artifact[s].status = "terminal"
    BY Zenon, <1>0, <1>1 DEF ArtifactOK, Stored
  <2>2. s <= stage' /\ Up(s - 1)' = Up(s - 1)
    BY <1>2, <1>6, <1>7, <2>1
  <2>3. artifact[s].hash = Up(s)'
    <3>1. CASE s = stage
      BY Zenon, <1>5, <1>6, <3>1 DEF Up
    <3>2. CASE s # stage
      BY <1>2, <1>6, <2>1, <3>2
    <3> QED
      BY Zenon, <3>1, <3>2
  <2> QED
    BY Zenon, <1>1, <2>1, <2>2, <2>3 DEF ArtifactOK
<1>10. ASSUME NEW v \in Workers PROVE RunOK(v)'
  <2>1. CASE v = w
    BY Zenon, <1>0, <1>1, <2>1 DEF RunOK, TypeOK, NoRun
  <2>2. CASE v # w
    <3>1. run'[v] = run[v]
      BY Zenon, <1>0, <1>1, <2>2 DEF TypeOK
    <3> SUFFICES ASSUME run[v].phase # "none" PROVE RunOK(v)'
      BY Zenon, <3>1 DEF RunOK
    <3>2. /\ run[v].stage \in 1..stage /\ run[v].stage \in 1..stage'
          /\ run[v].prior = Up(run[v].stage - 1)
          /\ run[v].stage <= Len(prior) => Stored(run[v].stage)
      <4>1. /\ run[v].stage \in 1..stage
            /\ run[v].prior = Up(run[v].stage - 1)
            /\ run[v].stage <= Len(prior) => Stored(run[v].stage)
        BY Zenon, <1>0 DEF RunOK
      <4>2. run[v].stage \in 1..stage'
        BY <1>2, <1>7, <4>1
      <4> QED
        BY Zenon, <4>1, <4>2
    <3>3. run[v].prior = SubSeq(prior', 1, run[v].stage - 1)
      BY SMTT(30), <1>2, <1>6, <3>2 DEF Up
    <3>4. Stored(run[v].stage)
      BY <1>2, <1>3, <3>2
    <3>5. run[v].phase = "publish" => run[v].stage = Publish /\ run[v].graph = Up(BuildGraph)'
      <4> SUFFICES ASSUME run[v].phase = "publish"
                   PROVE  run[v].stage = Publish /\ run[v].graph = Up(BuildGraph)'
        BY Zenon
      <4>1. run[v].stage = 5 /\ run[v].graph = Up(3)
        BY Zenon, <1>0, StageNumbers DEF RunOK
      <4>2. Up(3)' = Up(3)
        BY <1>6, <3>2, <4>1
      <4> QED
        BY Zenon, <4>1, <4>2, StageNumbers
    <3>6. EvaluatePayload' = EvaluatePayload
      BY Zenon, <1>1 DEF EvaluatePayload
    <3>7. /\ run[v].phase = "put" =>
               /\ run[v].payload \in Payloads
               /\ run[v].stage = Publish => published # {}
               /\ run[v].stage = Evaluate => run[v].payload = EvaluatePayload
          /\ run[v].phase = "result" =>
               /\ run[v].hash = artifact[run[v].stage].hash
               /\ run[v].status = artifact[run[v].stage].status
          /\ run[v].phase = "error" /\ run[v].code = "archive_corrupt" => audited
      BY Zenon, <1>0 DEF RunOK
    <3>8. Stored(run[v].stage)'
      BY Zenon, <1>1, <3>1, <3>4 DEF Stored
    <3> QED
      BY Zenon, <1>1, <3>1, <3>2, <3>3, <3>5, <3>6, <3>7, <3>8 DEF RunOK, Up
  <2> QED
    BY Zenon, <2>1, <2>2
<1> QED
  BY Zenon, <1>8, <1>9, <1>10 DEF PInv

(* Every action keeps the invariant.                                       *)
LEMMA PipelineStep == PInv /\ [Next]_vars => PInv'
<1> SUFFICES ASSUME PInv, [Next]_vars PROVE PInv'
  BY Zenon
<1>0. /\ TypeOK /\ TypeOK' /\ WorkflowOK
      /\ \A s \in 1..5 : ArtifactOK(s)
      /\ \A w \in Workers : RunOK(w)
  BY Zenon, PipelineTypes DEF PInv
<1>a. published \subseteq {Content} /\ (published # {} => stage = Publish) /\ QuarantineAudited
  BY Zenon, <1>0 DEF WorkflowOK
<1>b. ASSUME source' = source, stage' = stage, prior' = prior, artifact' = artifact,
             audited' = audited, published' = published,
             status' = status \/ (status = "running" /\ status' = "failed"),
             code' = "archive_corrupt" => audited,
             \A w \in Workers : run'[w] = run[w] \/ RunOK(w)'
      PROVE  PInv'
  <2>1. Orderly
    BY Zenon, <1>a, <1>b DEF Orderly, QuarantineAudited
  <2> QED
    BY Zenon, <1>0, <2>1, OrderlyStep
<1>c. code = "archive_corrupt" => audited
  BY Zenon, <1>a DEF QuarantineAudited
<1>d. ASSUME NEW w \in Workers, run' = [run EXCEPT ![w] = NoRun]
      PROVE  \A v \in Workers : run'[v] = run[v] \/ RunOK(v)'
  BY Zenon, <1>0, <1>d DEF TypeOK, RunOK, NoRun
<1>1. ASSUME NEW w \in Workers, StartAttempt(w) PROVE PInv'
  <2>1. /\ UNCHANGED <<source, stage, prior, status, code, artifact, audited, published>>
        /\ status = "running"
    BY Zenon, <1>1 DEF StartAttempt, store
  <2>2. /\ \A v \in Workers : v # w => run'[v] = run[v]
        /\ run'[w].phase = "check" /\ run'[w].stage = stage /\ run'[w].prior = prior
    BY Zenon, <1>0, <1>1 DEF StartAttempt, TypeOK, NoRun
  <2>3. Len(prior) = stage - 1 /\ prior = Up(stage - 1) /\ stage \in 1..5
    <3>1. Len(prior) = stage - 1 /\ stage \in 1..5
      BY Zenon, <1>0, <2>1 DEF WorkflowOK, TypeOK
    <3> QED
      BY Zenon, <1>0, <3>1, UpToEnd
  <2>4. RunOK(w)'
    BY <2>1, <2>2, <2>3 DEF RunOK, Up
  <2> QED
    BY Zenon, <1>b, <1>c, <2>1, <2>2, <2>4
<1>2. ASSUME NEW w \in Workers, Completes(w) PROVE PInv'
  <2>1. CASE Current(w)
    BY Zenon, <1>0, <1>2, <2>1, AdvanceStep
  <2>2. CASE ~Current(w)
    BY Zenon, <1>2, <1>b, <1>c, <1>d, <2>2 DEF Completes, workflow, store
  <2> QED
    BY Zenon, <2>1, <2>2
<1>3. ASSUME NextAttempt, status = "running"
      PROVE  /\ status' = status \/ (status = "running" /\ status' = "failed")
             /\ code' = "archive_corrupt" => audited
  BY Zenon, <1>3, <1>c DEF NextAttempt
<1>4. ASSUME NEW w \in Workers, Errs(w) PROVE PInv'
  <2>1. /\ UNCHANGED <<source, stage, prior, artifact, audited, published>>
        /\ run' = [run EXCEPT ![w] = NoRun]
    BY Zenon, <1>4 DEF Errs, workflow, store
  <2>2. run[w].code = "archive_corrupt" => audited
    BY Zenon, <1>0, <1>4 DEF Errs, RunOK
  <2>3. /\ status' = status \/ (status = "running" /\ status' = "failed")
        /\ code' = "archive_corrupt" => audited
    BY Zenon, <1>3, <1>4, <1>c, <2>2 DEF Errs, workflow, Current
  <2> QED
    BY Zenon, <1>b, <1>d, <2>1, <2>3
<1>5. ASSUME NEW w \in Workers, Crash(w) PROVE PInv'
  BY Zenon, <1>5, <1>b, <1>c, <1>d DEF Crash, workflow, store
<1>6. CASE Timeout
  BY Zenon, <1>6, <1>3, <1>b DEF Timeout, store
<1>7. CASE WorkflowTimesOut
  BY Zenon, <1>7, <1>b DEF WorkflowTimesOut, store
<1>8. ASSUME NEW t \in Stages, ExpireTransient(t) PROVE PInv'
  <2>1. /\ t \in 1..5 /\ \A w \in Workers : run[w].stage # t
        /\ UNCHANGED <<source, stage, prior, status, code, run, audited, published>>
        /\ artifact'[t] = NoArtifact
        /\ \A s \in 1..5 : s # t => artifact'[s] = artifact[s]
    BY Zenon, <1>0, <1>8, StageNumbers DEF ExpireTransient, TypeOK, workflow
  <2>2. WorkflowOK'
    BY SMTT(30), <1>0, <2>1 DEF WorkflowOK, Content, Up, QuarantineAudited
  <2>3. ASSUME NEW s \in 1..5 PROVE ArtifactOK(s)'
    BY Zenon, <1>0, <2>1 DEF ArtifactOK, Stored, Up
  <2>4. ASSUME NEW w \in Workers PROVE RunOK(w)'
    <3> SUFFICES ASSUME run[w].phase # "none" PROVE RunOK(w)'
      BY Zenon, <2>1 DEF RunOK
    <3>1. run[w].stage \in 1..5 /\ run[w].stage # t
      BY Zenon, <1>0, <2>1, AttemptStage
    <3>2. artifact'[run[w].stage] = artifact[run[w].stage]
      BY SMTT(30), <2>1, <3>1
    <3>3. /\ run' = run /\ stage' = stage /\ prior' = prior /\ audited' = audited
          /\ published' = published /\ source' = source
      BY Zenon, <2>1
    <3> QED
      BY Zenon, <1>0, <3>2, <3>3 DEF RunOK, Stored, Up, EvaluatePayload
  <2> QED
    BY Zenon, <1>0, <2>2, <2>3, <2>4 DEF PInv
<1>9. ASSUME NEW r \in Registries, RegistryChanges(r) PROVE PInv'
  BY Zenon, <1>9, <1>b, <1>c DEF RegistryChanges, workflow, store
<1>10. CASE UNCHANGED vars
  BY Zenon, <1>10, <1>b, <1>c DEF vars, workflow, store
<1> QED
  BY Zenon, <1>0, <1>1, <1>2, <1>4, <1>5, <1>6, <1>7, <1>8, <1>9, <1>10, AttemptStep DEF Next, Works

(* Every state of a workflow satisfies the inductive invariant, whatever   *)
(* attempts overlap, crash, time out or find their inputs expired          *)
(* (processor.go:364-419).                                                 *)
THEOREM PipelineInvariant == Spec => []PInv
<1> QED
  BY PipelineStarts, PipelineStep, PTL DEF Spec

(* Every variable, the attempts in every worker included, keeps its type   *)
(* (processor.go:364-419, workflow.go:33-75).                              *)
THEOREM PipelineTypeCorrect == Spec => []TypeOK
<1>1. PInv => TypeOK
  BY Zenon DEF PInv
<1> QED
  BY <1>1, PipelineInvariant, PTL

(* The artifacts form one chain, the one the workflow follows, for any     *)
(* number of overlapping attempts and registry snapshots                   *)
(* (processor.go:364-419, workflow.go:33-75).                              *)
THEOREM ChainNeverForks == Spec => []OneChain
<1>1. PInv => OneChain
  <2> SUFFICES ASSUME PInv PROVE OneChain
    BY Zenon
  <2>0. TypeOK /\ WorkflowOK /\ \A s \in 1..5 : ArtifactOK(s)
    BY Zenon DEF PInv
  <2>1. stage \in 1..5 /\ stage - 1 <= Len(prior)
    BY <2>0 DEF TypeOK, WorkflowOK
  <2>2. ASSUME NEW s \in 2..5, Stored(s), Stored(s - 1) PROVE artifact[s].input = artifact[s - 1].hash
    BY <2>0, <2>1, <2>2 DEF ArtifactOK
  <2>3. ASSUME status = "running", stage # 1, Stored(stage - 1) PROVE artifact[stage - 1].hash = prior
    <3>1. Len(prior) = stage - 1
      BY Zenon, <2>0, <2>3 DEF WorkflowOK
    <3>2. artifact[stage - 1].hash = Up(stage - 1)
      BY <2>0, <2>1, <2>3, <3>1 DEF ArtifactOK
    <3> QED
      BY Zenon, <2>0, <3>1, <3>2, UpToEnd
  <2> QED
    BY SMTT(30), <2>2, <2>3, StageNumbers DEF OneChain
<1> QED
  BY <1>1, PipelineInvariant, PTL

(* A workflow publishes at most one manifest; it reports success only when *)
(* that manifest is published and covers the artifacts it followed, and    *)
(* without an outcome nothing is published (processor.go:238-285,          *)
(* synthesis.go:64-80).                                                    *)
THEOREM OneResultIsPublished == Spec => []ResultPublished
<1>1. PInv => ResultPublished
  BY SMTT(30), StageNumbers DEF PInv, WorkflowOK, ResultPublished, Content, Up
<1> QED
  BY <1>1, PipelineInvariant, PTL

(* A workflow that failed on a corrupt archive has its audit event, stored *)
(* before the failure could be seen (workflow.go:156-170).                 *)
THEOREM QuarantineIsAudited == Spec => []QuarantineAudited
<1>1. PInv => QuarantineAudited
  BY Zenon DEF PInv, WorkflowOK
<1> QED
  BY <1>1, PipelineInvariant, PTL
=============================================================================
