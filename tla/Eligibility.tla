---------------------------- MODULE Eligibility ----------------------------
(***************************************************************************)
(* The eligibility engine: which policies it accepts (eligibility/         *)
(* policy.go) and why it rejects a candidate (eligibility/engine.go).  The *)
(* caller's tools, environment facts and resources are sequences of        *)
(* name-value pairs, as they arrive; a name given two values has none.     *)
(***************************************************************************)
EXTENDS Integers, Sequences, SequencesExt

NoValue == "none"    \* the empty string an ambiguous name maps to

(* Mutant: the last value given for a name wins. *)
LastValue(pairs) ==
  FoldLeft(LAMBDA known, p : [n \in DOMAIN known \union {p[1]} |-> IF n = p[1] THEN p[2] ELSE known[n]],
           <<>>, pairs)

(* toolMap, factMap and resourceMap. *)
toolMap(pairs) ==
  FoldLeft(LAMBDA known, p :
             [n \in DOMAIN known \union {p[1]} |->
                IF n # p[1] THEN known[n]
                ELSE IF n \in DOMAIN known /\ known[n] # p[2] THEN NoValue ELSE p[2]],
           <<>>, pairs)

validEligibilityPolicy(p) ==
  /\ p.lifecycles \subseteq {"candidate", "trial", "active"} /\ p.lifecycles # {}
  /\ p.risk \in 1 .. 4 /\ p.maxAge > 0 /\ p.policies # {} /\ p.regions # {}

AllowedLifecycle(p, c) ==
  c.lifecycle \in p.lifecycles \/ (c.lifecycle = "candidate" /\ p.advisory)

Least(a, b) == IF a < b THEN a ELSE b

validationStale(p, x, c) ==
  c.validatedAt # 0 /\ (x.asOf = 0 \/ c.validatedAt > x.asOf \/ x.asOf - c.validatedAt > p.maxAge)

(* The reason codes of Evaluate. *)
Rejections(p, x, c) ==
  LET tools == toolMap(x.tools)
      resources == toolMap(x.resources)
      facts == toolMap(x.environment)
      Reason(code, holds) == IF holds THEN {code} ELSE {}
  IN  UNION {
        Reason("context_invalid", x.asOf = 0),
        Reason("tenant_scope_denied", c.owner # x.tenant /\ c.shared = {}),
        Reason("sharing_scope_denied", c.owner # x.tenant /\ c.shared # {} /\ x.tenant \notin c.shared),
        Reason("lifecycle_ineligible", ~ AllowedLifecycle(p, c)),
        Reason("superseded", c.superseded \/ c.lifecycle = "superseded"),
        Reason("tool_unavailable", \E r \in c.tools : r[1] \notin DOMAIN tools),
        Reason("tool_contract_incompatible", \E r \in c.tools : r[1] \in DOMAIN tools /\ tools[r[1]] # r[2]),
        Reason("resource_precondition_missing", \E r \in c.resources : r[1] \notin DOMAIN resources),
        Reason("resource_schema_incompatible",
               \E r \in c.resources : r[2] # NoValue /\ r[1] \in DOMAIN resources /\ resources[r[1]] # r[2]),
        Reason("forbidden_effect", c.effects \intersect x.forbidden # {}),
        Reason("risk_budget_exceeded", c.risk > Least(p.risk, x.risk)),
        Reason("environment_incompatible",
               \E r \in c.environment : r[1] \notin DOMAIN facts \/ facts[r[1]] # r[2]),
        Reason("harness_incompatible",
               c.harness[1] # NoValue /\ (c.harness[1] # x.harness[1] \/ c.harness[2] \notin {NoValue, x.harness[2]})),
        Reason("validation_missing", c.validatedAt = 0),
        Reason("validation_stale", validationStale(p, x, c)),
        Reason("policy_incompatible", c.policy \notin p.policies),
        Reason("consent_denied", ~ x.recall \/ ~ c.recall),
        Reason("residency_denied", c.region \notin p.regions \/ c.region \notin x.regions)}

(* Evaluate: an invalid policy admits nothing. *)
EvaluateEligibility(p, x, c) ==
  IF ~ validEligibilityPolicy(p) THEN [eligible |-> FALSE, advisory |-> FALSE, codes |-> {"policy_invalid"}]
  ELSE LET codes == Rejections(p, x, c)
       IN  [eligible |-> codes = {}, codes |-> codes,
            advisory |-> codes = {} /\ c.lifecycle = "candidate"]
=============================================================================
