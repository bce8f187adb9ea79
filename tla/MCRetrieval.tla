---------------------------- MODULE MCRetrieval ----------------------------
(* Two callers, one idempotency key and a second query for it; version 1   *)
(* outranks version 2 unless the vector index or the judge lifts 2.        *)
EXTENDS Retrieval, TLC

CONSTANTS cA, cB, r1, k1

MCNone == [run |-> "none"]
MCIdentity == [r \in RunIds |-> k1]
MCIndexes == [c \in Configs |-> IF c = cA THEN {"lexical", "vector"} ELSE {"lexical"}]
MCGate(cfg, life) == IF life = "active" THEN "eligible"
                     ELSE IF life = "candidate" /\ cfg = cA THEN "advisory" ELSE "rejected"
MCScore(cfg, v, channels, judged) ==
    (2 - v) + (IF "vector" \in channels THEN 2 ELSE 0) + (IF judged /\ v = 2 THEN 2 ELSE 0)
MCSymmetry == Permutations(Callers) \union Permutations(Queries)
=============================================================================
