------------------------------ MODULE Evidence ------------------------------
(***************************************************************************)
(* What a list of evidence proves about an outcome                         *)
(* (internal/evidence/evaluator.go).  A fact is a record with its id, the  *)
(* predicate it is about, its verdict and its class, which is given by its *)
(* rank: 1 an independent verifier, 2 a goal predicate, 3 a harness        *)
(* assertion, 4 a tool postcondition, 5 an exit status or self report.  A  *)
(* smaller rank is stronger.  A list is a sequence: canonicalization has   *)
(* sorted it by ids, which are hashes, so any order is possible.           *)
(***************************************************************************)
EXTENDS Naturals, Sequences, SequencesExt, FiniteSetsExt

Verdicts == {"satisfied", "failed", "unknown"}
OutcomeStates == {"verified_success", "provisional_success", "inconclusive",
                  "verified_failure"}

(* outcome.DefaultPolicy: the weakest rank that proves success or failure, *)
(* and the weakest at which disagreement is a conflict.                    *)
DefaultPolicy == [success |-> 2, failure |-> 2, conflict |-> 3]

inferredPredicates(facts) == {f.predicate : f \in Range(facts)}

(* The strongest rank with this verdict on the predicate, 0 if there is    *)
(* none.                                                                   *)
strongestRanks(active, predicate, verdict) ==
    LET ranks == {f.rank : f \in {x \in active : x.predicate = predicate /\ x.verdict = verdict}}
    IN IF ranks = {} THEN 0 ELSE Min(ranks)

(* Evaluate.  Duplicate ids are refused before, by contracts.ValidateOutcome. *)
Evaluate(policy, required, facts, superseded) ==
    LET active == {f \in Range(facts) : f.id \notin superseded}
        sat(p) == strongestRanks(active, p, "satisfied")
        bad(p) == strongestRanks(active, p, "failed")
    IN IF \E f \in active : LET p == f.predicate
                            IN sat(p) # 0 /\ sat(p) = bad(p) /\ sat(p) <= policy.conflict
       THEN "inconclusive"
       ELSE IF \E p \in required : /\ bad(p) # 0 /\ bad(p) <= policy.failure
                                   /\ sat(p) = 0 \/ bad(p) < sat(p)
       THEN "verified_failure"
       ELSE IF \A p \in required : /\ sat(p) # 0 /\ sat(p) <= policy.success
                                   /\ bad(p) = 0 \/ bad(p) > sat(p)
       THEN "verified_success"
       ELSE IF \E f \in active : f.verdict = "satisfied" THEN "provisional_success"
       ELSE "inconclusive"
=============================================================================
