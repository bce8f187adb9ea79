----------------------------- MODULE MCOutcome -----------------------------
(* Two tenants; a second manifest, which exposes nobody, rivals t1's.       *)
EXTENDS Outcome, TLC

Limits(id, tenant, keys) ==
    [id |-> id, tenant |-> tenant, keys |-> keys, highRisk |-> FALSE,
     concurrent |-> 1, tenantLimit |-> 1, globalLimit |-> 1, tenantUnsafe |-> 1,
     globalUnsafe |-> 1]
m1 == Limits("m1", "t1", {"k1"})
m2 == Limits("m2", "t1", {})
n1 == Limits("n1", "t2", {"k3"})
MCManifests == {m1, m2, n1}

Ask(m, key, risk, unsafe) ==
    [manifest |-> m, key |-> key, risk |-> risk, concurrent |-> 1, unsafe |-> unsafe]
MCRequests == {Ask(m1, "k1", "low", 0), Ask(m2, "k2", "low", 0), Ask(n1, "k3", "low", 1)}

Says(verdict, at) == <<[id |-> "e", predicate |-> "g", verdict |-> verdict, rank |-> 2, at |-> at]>>
Reports(id, inj, supersedes, facts) ==
    [id |-> id, tenant |-> "t1", trace |-> "tr", inj |-> inj, supersedes |-> supersedes,
     facts |-> facts]
MCContents == {Reports("oF", "i1", None, Says("failed", 0)),
               Reports("oS", "i1", None, Says("satisfied", 0)),
               Reports("oC", None, "oF", Says("satisfied", 1))}
MCTenantOf == [i \in {"i1"} |-> "t1"]
MCAudits == {<<"t1", 0>>}
MCSymmetry == Permutations(Callers) \union Permutations(Hashes)
=============================================================================
