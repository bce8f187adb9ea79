------------------------------- MODULE Credit -------------------------------
(***************************************************************************)
(* The credit an outcome gives the plan it names (internal/credit/         *)
(* assign.go).  A plan is the part of a selection record that matters      *)
(* here: when it was issued and expires, whether it is complete, and the   *)
(* goal predicates that were requested.  A fact also has the time it was   *)
(* observed, at.                                                           *)
(***************************************************************************)
EXTENDS Evidence, Integers

Classes == {"causal_success", "associated_success", "causal_failure",
            "associated_failure", "unattributable"}

temporalEvidence(plan, facts, now, skew) ==
    \A f \in Range(facts) :
        f.at >= plan.created - skew /\ f.at <= now + skew /\ f.at < plan.expires

(* verdicts[predicate] is overwritten by each later fact: the last fact of *)
(* the two strongest classes decides.                                      *)
GoalVerdict(facts, goal) ==
    LET told == {i \in DOMAIN facts : facts[i].predicate = goal /\ facts[i].rank <= 2}
    IN IF told = {} THEN "none" ELSE facts[Max(told)].verdict
goalSatisfied(plan, facts) ==
    plan.goals # {} /\ \A g \in plan.goals : GoalVerdict(facts, g) = "satisfied"
goalFailed(plan, facts) == \E g \in plan.goals : GoalVerdict(facts, g) = "failed"

(* The class Assign gives, for an evaluation's state.                      *)
AssignCredit(plan, facts, state, now, skew) ==
    LET causal == temporalEvidence(plan, facts, now, skew) /\ plan.complete
    IN IF state = "verified_success"
       THEN IF causal /\ goalSatisfied(plan, facts) THEN "causal_success" ELSE "associated_success"
       ELSE IF state = "provisional_success" THEN "associated_success"
       ELSE IF state = "verified_failure"
       THEN IF causal /\ goalFailed(plan, facts) THEN "causal_failure" ELSE "associated_failure"
       ELSE "unattributable"
=============================================================================
