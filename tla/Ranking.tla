------------------------------ MODULE Ranking ------------------------------
(***************************************************************************)
(* The ranker: which manifests it accepts (ranking/manifest.go) and the    *)
(* order it gives candidates (ranking/fusion.go).  Go's int64 is the range *)
(* -MaxInt - 1 .. MaxInt, rrfScale is RRFScale, and an arithmetic result   *)
(* outside the range is refused where the code checks for it.              *)
(***************************************************************************)
EXTENDS Integers, Sequences, SequencesExt

CONSTANTS MaxInt, RRFScale

Overflow == MaxInt + 1        \* stands for a refused result: not in range
InRange(n) == n \in -MaxInt - 1 .. MaxInt

(* checkedAdd and checkedMul: once refused, refused for good. *)
checkedAdd(l, r) ==
  IF l = Overflow \/ r = Overflow \/ ~ InRange(l + r) THEN Overflow ELSE l + r
checkedMul(l, r) ==
  IF l = Overflow \/ r = Overflow \/ ~ InRange(l * r) THEN Overflow ELSE l * r

Abs(n) == IF n < 0 THEN - n ELSE n
Larger(a, b) == IF a > b THEN a ELSE b

(* Mutant: a feature's lower bound is taken to be the smaller in size. *)
ScoreBoundFitsMaximum(m) ==
  Abs(m.intercept)
    + Abs(m.coefficient) * SumFunction([i \in DOMAIN m.weights |-> (m.weights[i] * RRFScale) \div (m.k + 1)])
    + SumFunction([i \in DOMAIN m.features |-> Abs(m.features[i].max) * Abs(m.features[i].coefficient)])
  <= MaxInt

(* scoreBoundFits, in unbounded arithmetic. *)
scoreBoundFits(m) ==
  Abs(m.intercept)
    + Abs(m.coefficient) * SumFunction([i \in DOMAIN m.weights |-> (m.weights[i] * RRFScale) \div (m.k + 1)])
    + SumFunction([i \in DOMAIN m.features |->
               Larger(Abs(m.features[i].min), Abs(m.features[i].max)) * Abs(m.features[i].coefficient)])
  <= MaxInt

(* NewManifest. *)
validRanker(m) ==
  /\ m.k > 0 /\ m.maxCandidates > 0 /\ m.coefficient # 0 /\ Len(m.weights) > 0
  /\ \A i \in DOMAIN m.weights : m.weights[i] > 0
  /\ \A i \in DOMAIN m.features : m.features[i].missing \in m.features[i].min .. m.features[i].max
  /\ scoreBoundFits(m)

(* scoreCandidate: a rank of 0 is a channel that did not return the        *)
(* version, and a feature not given takes the spec's missing value.        *)
Contribution(m, c, i) ==
  LET product == checkedMul(m.weights[i], RRFScale)
  IN  IF c.ranks[i] = 0 THEN 0 ELSE IF product = Overflow THEN Overflow ELSE product \div (m.k + c.ranks[i])
Value(m, c, i) == IF c.features[i].given THEN c.features[i].value ELSE m.features[i].missing

invalidCandidate(m, c) ==
  \/ \E i \in DOMAIN c.ranks : c.ranks[i] > m.maxCandidates
  \/ \E i \in DOMAIN c.features : Value(m, c, i) \notin m.features[i].min .. m.features[i].max

scoreCandidate(m, c) ==
  LET rrf == FoldLeft(checkedAdd, 0, [i \in DOMAIN m.weights |-> Contribution(m, c, i)])
      terms == [i \in DOMAIN m.features |-> checkedMul(Value(m, c, i), m.features[i].coefficient)]
  IN  FoldLeft(checkedAdd, checkedAdd(m.intercept, checkedMul(rrf, m.coefficient)), terms)

(* The comparison of Rank; a version is its own identifier. *)
RanksBefore(m, c, v, w) ==
  LET a == c[v]
      b == c[w]
      sa == scoreCandidate(m, a)
      sb == scoreCandidate(m, b)
  IN  IF sa # sb THEN sa > sb
      ELSE IF a.strength # b.strength THEN a.strength > b.strength
      ELSE IF a.observed # b.observed THEN a.observed
      ELSE v < w

(* Rank: the versions best first, or the error that refuses them all. *)
Rank(m, c) ==
  IF ~ validRanker(m) THEN [status |-> "invalid_manifest", order |-> <<>>]
  ELSE IF \E v \in DOMAIN c : invalidCandidate(m, c[v]) THEN [status |-> "invalid_candidate", order |-> <<>>]
  ELSE IF \E v \in DOMAIN c : scoreCandidate(m, c[v]) = Overflow THEN [status |-> "overflow", order |-> <<>>]
  ELSE [status |-> "ranked", order |-> SetToSortSeq(DOMAIN c, LAMBDA v, w : RanksBefore(m, c, v, w))]
=============================================================================
