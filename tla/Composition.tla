---------------------------- MODULE Composition ----------------------------
(***************************************************************************)
(* The pure part of procedure composition (src/internal/composition): the  *)
(* compatibility edges between the interfaces of procedure versions        *)
(* (compatibility.go), the plan a set of versions induces and the order on *)
(* plans (planner.go), and the parallel groups of a plan (parallel.go).    *)
(*                                                                         *)
(* Versions are numbers, so that the order of their IDs is the order of    *)
(* the numbers.  A requirement [type, id, schema, preds] stands for its    *)
(* own ID: the code's ID is a hash of that content                         *)
(* (retrieval/document.go:294), so equal requirements of two versions have *)
(* one ID.  A candidate is a record                                        *)
(*   [req, prov, seed, goals, observed, evidence, risk, cost,              *)
(*    reads, writes, exclusive, mutex, boundary, serial].                  *)
(***************************************************************************)
EXTENDS Integers, FiniteSets, Sequences, SequencesExt

NoSchema == ""

(* explicitlyCompatible: a rule of the matrix, by type and both schemas. *)
explicitlyCompatible(p, r, rules) == <<p.type, p.schema, r.schema>> \in rules

(* A provision meets a requirement of another version (compatibility.go:231-243). *)
Meets(p, r, rules) ==
  /\ p.type = r.type /\ p.id = r.id
  /\ p.schema # NoSchema /\ r.schema # NoSchema
  /\ p.schema = r.schema \/ explicitlyCompatible(p, r, rules)
  /\ r.preds \subseteq p.preds

(* indexCompatibilityMatches: one edge per pair of versions that match.  *)
CompatibilityEdges(cands, rules) ==
  LET Sat(s, t) == {r \in cands[t].req : \E p \in cands[s].prov : Meets(p, r, rules)}
  IN  {[from |-> pair[1], to |-> pair[2], sat |-> Sat(pair[1], pair[2])] :
         pair \in {q \in (DOMAIN cands) \X (DOMAIN cands) : q[1] # q[2] /\ Sat(q[1], q[2]) # {}}}

Providers(cands, r) ==
  {q \in UNION {{v} \X cands[v].prov : v \in DOMAIN cands} :
     q[2].type = r.type /\ q[2].id = r.id /\ q[2].schema # NoSchema}

(* The limits of the compatibility matrix (compatibility.go:32-50, 215, 238, 247). *)
GraphRefused(cands, rules, limits) ==
  LET V == DOMAIN cands
      Entries(v) == Cardinality(cands[v].req) + Cardinality(cands[v].prov)
      Asked == UNION {{v} \X {r \in cands[v].req : r.schema # NoSchema} : v \in V}
  IN  \/ Cardinality(V) > limits.candidates
      \/ \E v \in V : Entries(v) > limits.entries
      \/ MapThenSumSet(Entries, V) > limits.total
      \/ \E v \in V : \E p \in cands[v].prov : Cardinality(Providers(cands, p)) > limits.providers
      \/ MapThenSumSet(LAMBDA a : Cardinality(Providers(cands, a[2])), Asked) > limits.comparisons
      \/ Cardinality(CompatibilityEdges(cands, rules)) > limits.edges

(***************************************************************************)
(* The plan of a set of versions (planner.go).                             *)
(***************************************************************************)
selectedEdges(edges, nodes) == {e \in edges : {e.from, e.to} \subseteq nodes}

(* topologicalOrder: the smallest ready version first.  Shorter than the  *)
(* node set when there is a cycle (planner.go:497-531).                   *)
topologicalOrder(nodes, edges) ==
  LET Ready(done) == {v \in nodes \ done : \A e \in edges : e.to = v => e.from \in done}
      order[n \in 0 .. Cardinality(nodes)] ==
        IF n = 0 THEN <<>>
        ELSE LET ready == Ready(ToSet(order[n - 1]))
             IN  IF ready = {} THEN order[n - 1] ELSE Append(order[n - 1], Min(ready))
  IN  order[Cardinality(nodes)]

Cyclic(nodes, edges) == Len(topologicalOrder(nodes, edges)) < Cardinality(nodes)

(* The evidence of the weakest version less the penalties, never below 0. *)
EvidenceStrength(cands, nodes, deps, man) ==
  LET unobserved == {e \in deps : ~cands[e.from].observed \/ ~cands[e.to].observed}
      bridges == {v \in nodes : ~cands[v].seed}
      left == Min({cands[v].evidence : v \in nodes})
                - Cardinality(bridges) * man.novelty - Cardinality(unobserved) * man.unobserved
  IN  IF left < 0 THEN 0 ELSE left

Total(cands, nodes, field) == MapThenSumSet(LAMBDA v : cands[v][field], nodes)

(* errPlanLimit: too many versions that are no seed, or too many tools.  *)
OverLimits(cands, nodes, man) ==
  \/ Cardinality({v \in nodes : ~cands[v].seed}) > man.bridges
  \/ Total(cands, nodes, "cost") > man.toolCost


(* The requirements of a plan's versions that no edge satisfies. *)
Gaps(cands, nodes, sat) ==
  {g \in UNION {{v} \X cands[v].req : v \in nodes} : g[2] \notin sat}

(* buildSearchState (planner.go:371-471), for a set without a cycle.       *)
PlanOf(rq, edges, nodes) ==
  LET deps == selectedEdges(edges, nodes)
      sat == rq.external \cup UNION {e.sat : e \in deps}
      gaps == Gaps(rq.cands, nodes, sat)
      covered == rq.goals \cap UNION {rq.cands[v].goals : v \in nodes}
  IN  [order |-> topologicalOrder(nodes, deps), deps |-> deps, sat |-> sat,
       gaps |-> gaps, uncovered |-> rq.goals \ covered, covered |-> covered,
       complete |-> gaps = {} /\ covered = rq.goals,
       evidence |-> EvidenceStrength(rq.cands, nodes, deps, rq.man),
       observed |-> \A v \in nodes : rq.cands[v].observed,
       risk |-> Total(rq.cands, nodes, "risk"),
       cost |-> Total(rq.cands, nodes, "cost")]

(* The content hash that breaks ties: one number per set of versions.     *)
HashRank(plan) == MapThenSumSet(LAMBDA v : 2 ^ v, ToSet(plan.order))

(* betterState's comparisons, first to last (planner.go:581-607). *)
Merit(plan) ==
  <<IF plan.complete THEN 1 ELSE 0, Cardinality(plan.covered), plan.evidence,
    IF plan.observed THEN 1 ELSE 0, Cardinality(plan.sat), - plan.risk, - plan.cost,
    - Len(plan.order), - HashRank(plan)>>

betterState(left, right) ==
  LET l == Merit(left)  r == Merit(right)
  IN  \E i \in DOMAIN l : l[i] > r[i] /\ \A j \in 1 .. i - 1 : l[j] = r[j]

(***************************************************************************)
(* The parallel groups of a complete plan (parallel.go).                   *)
(***************************************************************************)
(* The resource lists two versions are compared by, in order (229-234).   *)
ConflictPairs(l, r) ==
  << <<l.mutex, r.mutex>>,
     <<l.writes, r.reads>>, <<l.writes, r.writes>>, <<r.writes, l.reads>>,
     <<l.exclusive, r.reads>>, <<l.exclusive, r.writes>>, <<l.exclusive, r.exclusive>>,
     <<r.exclusive, l.reads>>, <<r.exclusive, l.writes>> >>

Alone(c) == c.boundary \/ c.serial

parallelConflict(l, r) ==
  \/ Alone(l) \/ Alone(r)
  \/ \E pair \in ToSet(ConflictPairs(l, r)) : pair[1] \cap pair[2] # {}

(* intersectsBounded: steps of the merge of two sorted lists (244-266).   *)
MergeSteps(a, b) ==
  IF a = {} \/ b = {} THEN 0
  ELSE LET common == a \cap b
           last == IF Max(a) < Max(b) THEN Max(a) ELSE Max(b)
           UpTo(n) == Cardinality({x \in a : x <= n}) + Cardinality({x \in b : x <= n})
       IN  IF common = {} THEN UpTo(last) ELSE UpTo(Min(common)) - 1

(* The work units of one comparison of two versions (222-242). *)
ConflictWork(l, r) ==
  LET pairs == ConflictPairs(l, r)
      hit == {i \in DOMAIN pairs : pairs[i][1] \cap pairs[i][2] # {}}
      last == IF Alone(l) \/ Alone(r) THEN 0 ELSE IF hit = {} THEN Len(pairs) ELSE Min(hit)
  IN  1 + MapThenSumSet(LAMBDA i : MergeSteps(pairs[i][1], pairs[i][2]), 1 .. last)

Conflicting(cands, group, v) ==
  {i \in DOMAIN group : parallelConflict(cands[group[i]], cands[v])}

(* groupAccepts stops at the first member the version conflicts with.    *)
AcceptWork(cands, group, v) ==
  LET hit == Conflicting(cands, group, v)
      last == IF hit = {} THEN Len(group) ELSE Min(hit)
  IN  MapThenSumSet(LAMBDA i : ConflictWork(cands[group[i]], cands[v]), 1 .. last)

GroupOf(groups, v) == CHOOSE g \in DOMAIN groups : v \in ToSet(groups[g])

(* The first group a version may join: after those it depends on.        *)
MinimumGroup(groups, deps, v) ==
  1 + Max({0} \cup {GroupOf(groups, e.from) : e \in {d \in deps : d.to = v}})

(* One round of DeriveParallelSchedule's loop (parallel.go:66-95). *)
Place(cands, deps, state, v) ==
  LET groups == state.groups
      first == MinimumGroup(groups, deps, v)
      open == {g \in first .. Len(groups) : Conflicting(cands, groups[g], v) = {}}
      tried == first .. (IF open = {} THEN Len(groups) ELSE Min(open))
  IN  [groups |-> IF open = {} THEN Append(groups, <<v>>)
                  ELSE [groups EXCEPT ![Min(open)] = Append(@, v)],
       work |-> state.work + MapThenSumSet(LAMBDA g : AcceptWork(cands, groups[g], v), tried)]

DeriveParallelSchedule(cands, plan, work) ==
  FoldLeft(LAMBDA state, v : Place(cands, plan.deps, state, v),
           [groups |-> <<>>, work |-> work], plan.order)
============================================================================
