-------------------------- MODULE LifecyclePolicy --------------------------
(***************************************************************************)
(* The lifecycle policy (lifecycle/manifest.go) and the state it gives a   *)
(* version for a body of evidence (lifecycle/evaluate.go).  A rate is a    *)
(* whole number of Scale-ths (PartsPerMillion in the code) and a time a    *)
(* small natural, 0 standing for the zero time.                            *)
(***************************************************************************)
EXTENDS Integers, FiniteSets

CONSTANT Scale

validPolicy(p) ==
  /\ p.zSquared \in 1 .. 25 * Scale
  /\ p.trialSamples > 0 /\ p.activeSamples >= p.trialSamples
  /\ p.trialBound <= p.activeBound /\ p.activeBound <= Scale
  /\ p.quarantineAt > 0 /\ p.trialCeiling < p.quarantineAt /\ p.activeCeiling < p.quarantineAt
  /\ p.freshness > 0 /\ p.trialTime > 0

(* atOrBelowWilsonLower: left of the vertex of the quadratic whose smaller *)
(* root is the bound, and not below zero there.                            *)
atOrBelowWilsonLower(m, s, n, z) ==
  LET a == n * Scale + z
      b == 2 * s * Scale + z
  IN  /\ 2 * m * a <= Scale * b
      /\ n * a * m * m - n * b * m * Scale + s * s * Scale * Scale * Scale >= 0

WilsonSearch(s, n, z) ==
  LET search[i \in (0 .. Scale) \X (0 .. Scale)] ==
        LET mid == i[1] + (i[2] - i[1] + 1) \div 2
        IN  IF i[1] >= i[2] THEN i[1]
            ELSE IF atOrBelowWilsonLower(mid, s, n, z) THEN search[<<mid, i[2]>>]
            ELSE search[<<i[1], mid - 1>>]
  IN  search[<<0, Scale>>]

WilsonLowerBoundPPM(s, n, z) == IF n = 0 \/ s > n \/ z = 0 THEN 0 ELSE WilsonSearch(s, n, z)

validEvidence(e, cutoff) == e.latest <= cutoff /\ e.trialStarted <= cutoff

Samples(e) == e.successes + e.failures
Fresh(e, p, cutoff) == e.latest # 0 /\ e.latest >= cutoff - p.freshness

MeetsActive(e, p) ==
  Samples(e) >= p.activeSamples /\ WilsonLowerBoundPPM(e.successes, Samples(e), p.zSquared) >= p.activeBound

MeetsTrial(e, p) ==
  Samples(e) >= p.trialSamples /\ WilsonLowerBoundPPM(e.successes, Samples(e), p.zSquared) >= p.trialBound

(* Mutant: an active version must beat the bound it was promoted at. *)
KeepsActiveStrictly(e, p) ==
  /\ MeetsActive(e, p) /\ e.unsafe <= p.activeCeiling
  /\ WilsonLowerBoundPPM(e.successes, Samples(e), p.zSquared) > p.activeBound

(* What an active version must keep: the condition it is rolled back on. *)
KeepsActive(e, p) == MeetsActive(e, p) /\ e.unsafe <= p.activeCeiling

nextState(prior, e, p, cutoff) ==
  IF prior \in {"retired", "quarantined"} THEN prior
  ELSE IF e.triggers # {} \/ e.unsafe >= p.quarantineAt THEN "quarantined"
  ELSE IF prior = "active" THEN IF Fresh(e, p, cutoff) /\ KeepsActive(e, p) THEN "active" ELSE "retired"
  ELSE IF ~ Fresh(e, p, cutoff) THEN prior
  ELSE IF prior = "candidate" THEN IF MeetsTrial(e, p) /\ e.unsafe <= p.trialCeiling THEN "trial" ELSE "candidate"
  ELSE IF e.unsafe > p.activeCeiling THEN "candidate"
  ELSE IF /\ MeetsActive(e, p)
          /\ e.trialStarted # 0 /\ e.trialStarted <= cutoff - p.trialTime
       THEN "active" ELSE "trial"

(* Evaluate: an error is a request it refuses. *)
EvaluateLifecycle(prior, e, p, cutoff) ==
  IF ~ validPolicy(p) \/ ~ validEvidence(e, cutoff) THEN "invalid" ELSE nextState(prior, e, p, cutoff)
=============================================================================
