----------------------------- MODULE Decisions -----------------------------
(***************************************************************************)
(* The decisions that depend on nothing but their input, each asked of     *)
(* every question of a bounded set: the procedure a trace gives            *)
(* (Synthesis, in the three workflow stages that compute it), the          *)
(* lifecycle state a body of evidence gives (LifecyclePolicy), the order   *)
(* of candidates (Ranking) and whether one is eligible (Eligibility).      *)
(* Nothing else changes while one of them is computed.                     *)
(***************************************************************************)
EXTENDS Synthesis, LifecyclePolicy, Ranking, Eligibility

VARIABLES question, answer

dvars == <<question, answer>>

NoAnswer == [status |-> "none"]

DecisionsIdle == question = [kind |-> "none"] /\ answer = NoAnswer
Ask(q) == question = q /\ answer = NoAnswer      \* an initial state, one for each question

Asked(kind) == question.kind = kind /\ UNCHANGED question

(* The BuildGraph, Synthesize and Publish stages of workflow.Processor. *)
BuildGraphStage ==
  /\ Asked("trace") /\ answer = NoAnswer
  /\ answer' = GraphOf(question.trace, question.facts)

SynthesizeStage ==
  /\ Asked("trace") /\ answer.status = "graph"
  /\ answer' = Synthesize(question.trace, answer, question.outcome)

PublishStage ==
  /\ Asked("trace") /\ answer.status = "synthesized"
  /\ answer' = Published(question.trace, answer)

EvaluateEvidence ==
  /\ Asked("evidence") /\ answer = NoAnswer
  /\ answer' = [status |-> "evaluated",
                next |-> EvaluateLifecycle(question.prior, question.evidence, question.policy, question.cutoff),
                bound |-> WilsonLowerBoundPPM(question.evidence.successes, Samples(question.evidence),
                                              question.policy.zSquared)]

RankCandidates ==
  /\ Asked("ranking") /\ answer = NoAnswer
  /\ answer' = Rank(question.ranker, question.candidates)

ScreenCandidate ==
  /\ Asked("screening") /\ answer = NoAnswer
  /\ answer' = [status |-> "screened",
                decision |-> EvaluateEligibility(question.policy, question.context, question.candidate)]

DecisionsNext ==
  \/ BuildGraphStage \/ SynthesizeStage \/ PublishStage
  \/ EvaluateEvidence \/ RankCandidates \/ ScreenCandidate

-----------------------------------------------------------------------------
(* A published procedure can be replayed (synthesizer.go:124-190,          *)
(* model.go:344-406).  Every step read its resources from a step kept      *)
(* before it or asks for them in the interface; a step known to be needed  *)
(* reads each of them from the very step it read it from in the trace, and *)
(* asks only for what nothing in the trace had written.                    *)
StepsFindTheirInputs ==
  answer.status = "published" =>
    \A i \in answer.steps : \A r \in Reads(question.trace[i]) :
      LET before == Writers(question.trace, i, r.id)
          kept == before \intersect answer.steps
      IN  /\ r.id \in answer.requirements \/ kept # {}
          /\ i \in answer.proven =>
               IF before = {} THEN r.id \in answer.requirements
               ELSE kept # {} /\ Max(kept) = Max(before) /\ Max(kept) \in answer.proven

(* Nothing that mattered is dropped and nothing that failed is kept        *)
(* (processor.go:489-522, synthesizer.go:148-170): a published procedure   *)
(* has every step that changed something outside, a step for every         *)
(* predicate of the outcome's evidence, and no step that failed.           *)
EffectsAndGoalsAreKept ==
  answer.status = "published" =>
    /\ requiredEffects(question.trace) \subseteq answer.proven
    /\ \A f \in question.facts : inferGoals(question.trace, question.facts)[f.predicate] \intersect answer.proven # {}
    /\ answer.proven \subseteq answer.steps
    /\ \A i \in answer.steps : Succeeded(question.trace[i])

(* What a procedure leaves behind is advertised (model.go:382-396): a      *)
(* resource whose last write no later step reads is a provision, and it    *)
(* carries the predicates of that last write.                              *)
FinalWritesAreProvided ==
  answer.status = "published" =>
    \A i \in answer.steps : \A id \in Ids(Writes(question.trace[i])) :
      (\A j \in answer.steps : j > i => id \notin Ids(Reads(question.trace[j]) \union Writes(question.trace[j])))
        => /\ <<i, id>> \in answer.provisions
           /\ \A p \in answer.provisions : p[2] = id => p[1] = i

(* A published procedure is faithful to its trace: its steps find what     *)
(* they read, it keeps the effects and the goals, and it provides what was *)
(* left at the end (synthesizer.go:124-190).                               *)
ProceduresAreFaithful == StepsFindTheirInputs /\ EffectsAndGoalsAreKept /\ FinalWritesAreProvided


(* The textbook Wilson lower confidence bound: m is at or below            *)
(* (2s + z - sqrt(z^2 + 4s(n - s)z/n)) / 2(n + z), in whole units.          *)
AtOrBelowTextbook(m, s, n, z) ==
  LET gap == Scale * (2 * s * Scale + z) - 2 * m * (n * Scale + z)
  IN  gap >= 0 /\ n * gap * gap >= Scale * Scale * (n * z * z + 4 * s * (n - s) * z * Scale)

(* WilsonLowerBoundPPM returns "the largest whole PPM value no greater     *)
(* than the exact Wilson lower confidence bound" (evaluate.go:163-164):    *)
(* the binary search over an integer quadratic finds the textbook bound.   *)
WilsonBoundIsExact ==
  (answer.status = "evaluated" /\ Samples(question.evidence) > 0) =>
    /\ AtOrBelowTextbook(answer.bound, question.evidence.successes, Samples(question.evidence), question.policy.zSquared)
    /\ \A m \in answer.bound + 1 .. Scale :
         ~ AtOrBelowTextbook(m, question.evidence.successes, Samples(question.evidence), question.policy.zSquared)

(* A promotion is not undone by the evidence that made it                  *)
(* (evaluate.go:93-150): a version just made trial or active, judged again *)
(* on the same evidence, keeps its place.  It needs an active ceiling of   *)
(* unsafe outcomes no lower than the trial one, which validPolicy does not *)
(* ask for.                                                                *)
PromotionsStick ==
  (/\ answer.status = "evaluated" /\ answer.next \in {"trial", "active"}
   /\ question.policy.trialCeiling <= question.policy.activeCeiling) =>
     EvaluateLifecycle(answer.next, question.evidence, question.policy, question.cutoff) \in {answer.next, "active"}

Standing == [invalid |-> 0, quarantined |-> 1, retired |-> 2, candidate |-> 3, trial |-> 4, active |-> 5]

(* One more causal success never costs a version its place, and one more   *)
(* causal failure never wins it a better one once it has the samples the   *)
(* policy asks for (evaluate.go:71-197).                                   *)
EvidenceCountsTheRightWay ==
  answer.status = "evaluated" =>
    LET e == question.evidence
        Next(f) == Standing[EvaluateLifecycle(question.prior, f, question.policy, question.cutoff)]
    IN  /\ Next([e EXCEPT !.successes = @ + 1]) >= Standing[answer.next]
        /\ Samples(e) >= question.policy.activeSamples =>
             Next([e EXCEPT !.failures = @ + 1]) <= Standing[answer.next]

(* The lifecycle policy as a whole (evaluate.go:71-197): the exact bound,  *)
(* no promotion that its own evidence undoes, and evidence that counts the *)
(* right way.                                                              *)
LifecycleIsSound == WilsonBoundIsExact /\ PromotionsStick /\ EvidenceCountsTheRightWay


(* A manifest scoreBoundFits accepts never makes scoreCandidate overflow   *)
(* (manifest.go:86-102, fusion.go:101-146): the check done once for the    *)
(* manifest covers every candidate within its limits.                      *)
AcceptedRankersNeverOverflow == answer.status # "overflow"

Improves(c, d) ==
  /\ c.features = d.features /\ c.strength >= d.strength /\ c.observed = d.observed
  /\ \A i \in DOMAIN c.ranks : c.ranks[i] = d.ranks[i] \/ (c.ranks[i] # 0 /\ (d.ranks[i] = 0 \/ c.ranks[i] < d.ranks[i]))
  /\ c.ranks # d.ranks

PlaceOf(s, v) == CHOOSE i \in DOMAIN s : s[i] = v

(* With a positive coefficient, a candidate every channel ranks at least   *)
(* as high as another, and that is no weaker otherwise, is not put below   *)
(* it unless their identifiers decide a tie in the rounded score, and the  *)
(* score decides before verification strength does (fusion.go:71-105).     *)
RankingFollowsItsScore ==
  answer.status = "ranked" =>
    /\ Len(answer.order) = Cardinality(DOMAIN question.candidates)
    /\ \A v, w \in DOMAIN question.candidates :
         LET s(u) == scoreCandidate(question.ranker, question.candidates[u])
         IN  /\ s(v) > s(w) => PlaceOf(answer.order, v) < PlaceOf(answer.order, w)
             /\ (question.ranker.coefficient > 0 /\ Improves(question.candidates[v], question.candidates[w]))
                  => s(v) >= s(w)

(* The ranking as a whole (fusion.go:23-146, manifest.go:86-102): scores   *)
(* that fit their type, and an order that follows them.                    *)
RankingIsSound == AcceptedRankersNeverOverflow /\ RankingFollowsItsScore


(* A name the caller gives two values for satisfies no requirement, however *)
(* often and in whatever order they come (engine.go:211-245).              *)
AmbiguousContextAdmitsNothing ==
  (answer.status = "screened" /\ answer.decision.eligible) =>
    LET x == question.context
        c == question.candidate
        Settled(pairs, r) == ToSet(pairs) \intersect ({r[1]} \X {p[2] : p \in ToSet(pairs)}) = {r}
    IN  /\ \A r \in c.tools : Settled(x.tools, r)
        /\ \A r \in c.environment : Settled(x.environment, r)
        /\ \A r \in c.resources : r[2] = NoValue \/ Settled(x.resources, r)
=============================================================================
