------------------------------ MODULE Planner ------------------------------
(***************************************************************************)
(* The bounded beam search for a composition plan and what is issued from  *)
(* it: composition.PlanProcedures (planner.go), DeriveParallelSchedule     *)
(* (parallel.go), and the end of DeterministicIssuer.Issue                 *)
(* (planning/issuer.go) with the draft it hands to selection.NewDraft      *)
(* (selection/model.go).                                                   *)
(*                                                                         *)
(* A search state is the set of versions in it: its plan, and the hash     *)
(* `seen` is keyed by, are functions of the request and that set.  One     *)
(* step is one round of the innermost loop, so that a budget may run out,  *)
(* and the context be cancelled, between any two rounds.  Requests are the *)
(* ones Issue builds: their hashes agree with their content, and only the  *)
(* limits that shape a search are kept of those validatePlanInputs checks. *)
(***************************************************************************)
EXTENDS Composition

CONSTANT Requests   \* the plan requests, with the manifest they run under

VARIABLES
  request,      \* the request being planned
  phase,        \* "graph", "inputs", "depth", "expand", "schedule", "done"
  edges,        \* the compatibility graph
  used,         \* work units used of man.work
  frontier,     \* the states of this depth still to expand, best first
  adjacent,     \* the versions still to add to the first of them
  next,         \* the states found for the next depth
  seen,         \* every state found
  best,         \* the best state found
  codes,        \* the limit codes
  expansions,
  depth,
  result        \* what Issue returns: an error, or a draft

pvars == <<request, phase, edges, used, frontier, adjacent, next, seen, best, codes,
           expansions, depth, result>>

man == request.man
cands == request.cands
NoResult == [kind |-> "none"]
Error(code) == [kind |-> "error", code |-> code]

PlannerIdle ==
  /\ request = NoResult /\ phase = "done" /\ edges = {} /\ used = 0 /\ frontier = <<>>
  /\ adjacent = <<>> /\ next = {} /\ seen = {} /\ best = {} /\ codes = {} /\ expansions = 0
  /\ depth = 1 /\ result = NoResult

PlannerInit ==
  /\ request \in Requests
  /\ phase = "graph" /\ edges = {} /\ used = 0 /\ frontier = <<>>
  /\ adjacent = <<>> /\ next = {} /\ seen = {} /\ best = {} /\ codes = {} /\ expansions = 0
  /\ depth = 1 /\ result = NoResult

Fail(code) ==
  /\ result' = Error(code)
  /\ phase' = "done"
  /\ UNCHANGED <<request, edges, used, frontier, adjacent, next, seen, best, codes, expansions, depth>>

(* BuildCompatibilityGraphContext. *)
BuildCompatibilityGraph ==
  /\ phase = "graph"
  /\ IF GraphRefused(cands, request.rules, request.limits) THEN Fail("compatibility")
     ELSE /\ edges' = CompatibilityEdges(cands, request.rules)
          /\ phase' = "inputs"
          /\ UNCHANGED <<request, used, frontier, adjacent, next, seen, best, codes, expansions,
                         depth, result>>

Seeds == {v \in DOMAIN cands : cands[v].seed}
Facts(v) == Cardinality(cands[v].reads) + Cardinality(cands[v].writes)
              + Cardinality(cands[v].exclusive) + Cardinality(cands[v].mutex)
              + Cardinality(cands[v].goals)

(* The units that authenticating a graph takes, and those of its edges and *)
(* the candidates' facts; both PlanProcedures and DeriveParallelSchedule   *)
(* pay them.                                                               *)
GraphWork == 2 * Cardinality(edges) + 1
FactsWork == MapThenSumSet(LAMBDA v : 2 * Facts(v) + 1, DOMAIN cands)
InputWork == GraphWork + FactsWork + Cardinality(edges)
ParallelInputWork == GraphWork + FactsWork + Cardinality(edges)

StatesByMerit(S) ==
  SetToSortSeq(S, LAMBDA a, b : betterState(PlanOf(request, edges, a), PlanOf(request, edges, b)))

BestOf(S) == StatesByMerit(S)[1]

Truncated(S) == IF Cardinality(S) > man.beam THEN {"beam_truncated"} ELSE {}
Beam(S) == SubSeq(StatesByMerit(S), 1, IF Cardinality(S) > man.beam THEN man.beam ELSE Cardinality(S))

(* validatePlanInputs, then one state per seed, each for one work unit.    *)
StartSearch ==
  /\ phase = "inputs"
  /\ LET sorted == SetToSortSeq(Seeds, LAMBDA a, b : a < b)
         room == man.work - InputWork
         tried == {{sorted[i]} : i \in {j \in DOMAIN sorted : j <= room}}
         states == {s \in tried : ~OverLimits(cands, s, man)}
     IN  IF Seeds = {} \/ request.goals = {} THEN Fail("invalid")
         ELSE IF room < 0 THEN Fail("work_limit")
         ELSE IF states = {} THEN Fail("invalid")
         ELSE /\ used' = InputWork + Cardinality(tried)
              /\ frontier' = Beam(states)
              /\ seen' = states
              /\ best' = BestOf(states)
              /\ codes' = Truncated(states)
                            \cup (IF Len(sorted) > room THEN {"work_budget_exhausted"} ELSE {})
              /\ phase' = "depth"
              /\ UNCHANGED <<request, edges, adjacent, next, expansions, depth, result>>

WorkExhausted == "work_budget_exhausted" \in codes
Searching == depth < man.depth /\ frontier # <<>> /\ ~WorkExhausted

adjacentVersions(nodes) ==
  {e.to : e \in {d \in edges : d.from \in nodes /\ d.to \notin nodes}}
    \cup {e.from : e \in {d \in edges : d.to \in nodes /\ d.from \notin nodes}}

Skipped(nodes) ==
  PlanOf(request, edges, nodes).complete \/ Cardinality(nodes) >= man.procedures

(* workBudget.consume. *)
Affordable(n) == n <= man.work - used

StopForWork(n) ==
  /\ codes' = codes \cup {"work_budget_exhausted"}
  /\ used' = man.work
  /\ expansions' = expansions + n
  /\ phase' = "finish"
  /\ UNCHANGED <<request, edges, frontier, adjacent, next, seen, best, depth, result>>

(* The loop over the states of a depth: the next one's neighbours. *)
NextState ==
  /\ phase = "depth" /\ Searching /\ adjacent = <<>>
  /\ expansions < man.expansions
  /\ LET nodes == Head(frontier)
     IN  IF Skipped(nodes)
         THEN /\ frontier' = Tail(frontier)
              /\ phase' = IF Tail(frontier) = <<>> THEN "endDepth" ELSE "depth"
              /\ UNCHANGED <<adjacent, used, codes, request, edges, next, seen, best, expansions, depth, result>>
         ELSE IF ~Affordable(Cardinality(edges)) THEN StopForWork(0)
         ELSE /\ used' = used + Cardinality(edges)
              /\ adjacent' = SetToSortSeq(adjacentVersions(nodes), LAMBDA a, b : a < b)
              /\ phase' = "expand"
              /\ UNCHANGED <<frontier, codes, request, edges, next, seen, best, expansions, depth, result>>

(* The loop over the versions next to a state (planner.go:189-217).       *)
Expand ==
  /\ phase = "expand"
  /\ adjacent # <<>> /\ expansions < man.expansions
  /\ LET nodes == Head(frontier) \cup {Head(adjacent)}
         rejected == Cyclic(nodes, selectedEdges(edges, nodes)) \/ OverLimits(cands, nodes, man)
     IN  IF ~Affordable(Cardinality(edges)) THEN StopForWork(1)
         ELSE /\ expansions' = expansions + 1
              /\ used' = used + Cardinality(edges)
              /\ adjacent' = Tail(adjacent)
              /\ IF rejected \/ nodes \in seen THEN UNCHANGED <<seen, next, best>>
                 ELSE /\ seen' = seen \cup {nodes}
                      /\ next' = next \cup {nodes}
                      /\ best' = BestOf({best, nodes})
              /\ UNCHANGED <<request, phase, edges, frontier, codes, depth, result>>

(* The end of that loop. *)
StateExpanded ==
  /\ phase = "expand"
  /\ adjacent = <<>> \/ expansions >= man.expansions
  /\ codes' = codes \cup (IF adjacent # <<>> THEN {"expansion_budget_exhausted"} ELSE {})
  /\ adjacent' = <<>>
  /\ frontier' = Tail(frontier)
  /\ phase' = IF Tail(frontier) = <<>> THEN "endDepth" ELSE "depth"
  /\ UNCHANGED <<request, edges, used, next, seen, best, expansions, depth, result>>

(* The end of a depth: the next frontier is sorted and cut to the beam.    *)
EndDepth ==
  /\ \/ phase = "endDepth"
     \/ phase = "depth" /\ Searching /\ expansions >= man.expansions
  /\ frontier' = Beam(next)
  /\ next' = {}
  /\ codes' = codes \cup Truncated(next)
                \cup (IF expansions >= man.expansions THEN {"expansion_budget_exhausted"} ELSE {})
  /\ depth' = depth + 1
  /\ phase' = IF expansions >= man.expansions THEN "finish" ELSE "depth"
  /\ UNCHANGED <<request, edges, used, adjacent, seen, best, expansions, result>>

(* Mutant: running out of depth is not reported. *)
FinishSearchSilently ==
  /\ phase = "finish" \/ (phase = "depth" /\ ~Searching)
  /\ phase' = "schedule"
  /\ UNCHANGED <<request, edges, used, frontier, adjacent, next, seen, best, codes, expansions, depth, result>>

(* The end of the search (planner.go:236-255). *)
FinishSearch ==
  /\ phase = "finish" \/ (phase = "depth" /\ ~Searching)
  /\ codes' = codes \cup
       (IF frontier # <<>> /\ ~PlanOf(request, edges, best).complete /\ ~WorkExhausted
             /\ expansions < man.expansions
        THEN {"depth_exhausted"} ELSE {})
  /\ phase' = "schedule"
  /\ UNCHANGED <<request, edges, used, frontier, adjacent, next, seen, best, expansions, depth, result>>

Novelty(plan) ==
  IF ~plan.complete THEN "partial"
  ELSE IF \E v \in ToSet(plan.order) : ~cands[v].seed THEN "bridged"
  ELSE IF cands[Min(Seeds)].observed THEN "exact" ELSE "known_shape"

Draft(plan, groups) ==
  [kind |-> "draft", plan |-> plan, codes |-> codes, groups |-> groups, novelty |-> Novelty(plan)]

Position(plan, v) == CHOOSE i \in DOMAIN plan.order : plan.order[i] = v

ValidatePlan(plan) ==
  /\ plan.order # <<>> /\ IsInjective(plan.order)
  /\ \A e \in plan.deps : Position(plan, e.from) < Position(plan, e.to)
  /\ plan.covered \subseteq request.goals
  /\ plan.complete = (plan.gaps = {} /\ plan.uncovered = {})

ValidateParallelSchedule(groups) ==
  /\ groups # <<>> /\ \A g \in ToSet(groups) : g # <<>>
  /\ IsInjective(FlattenSeq(groups))

scheduleCoversPlan(groups, plan) ==
  /\ ToSet(FlattenSeq(groups)) = ToSet(plan.order)
  /\ \A e \in plan.deps : GroupOf(groups, e.from) < GroupOf(groups, e.to)

(* validateDraftFields: what selection.NewDraft accepts. *)
ValidDraft(draft) ==
  /\ ValidatePlan(draft.plan)
  /\ IF draft.plan.complete
     THEN /\ draft.novelty # "partial"
          /\ (\E v \in ToSet(draft.plan.order) : ~cands[v].seed) = (draft.novelty = "bridged")
          /\ ValidateParallelSchedule(draft.groups) /\ scheduleCoversPlan(draft.groups, draft.plan)
     ELSE draft.groups = <<>> /\ draft.novelty = "partial"

Drafted(draft) == IF ValidDraft(draft) THEN draft ELSE Error("draft")

(* DeterministicIssuer.Issue from the plan to the draft (issuer.go:119-146). *)
Issue ==
  /\ phase = "schedule"
  /\ LET plan == PlanOf(request, edges, best)
         schedule == DeriveParallelSchedule(cands, plan, ParallelInputWork)
     IN  IF ~plan.complete THEN result' = Drafted(Draft(plan, <<>>))
         ELSE IF schedule.work > man.work THEN result' = Error("work_limit")
         ELSE result' = Drafted(Draft(plan, schedule.groups))
  /\ phase' = "done"
  /\ UNCHANGED <<request, edges, used, frontier, adjacent, next, seen, best, codes, expansions, depth>>

(* ctx.Err() is consulted at every round: no plan is returned. *)
Cancel == phase # "done" /\ Fail("cancelled")

PlannerNext ==
  \/ BuildCompatibilityGraph
  \/ StartSearch
  \/ NextState
  \/ Expand
  \/ StateExpanded
  \/ EndDepth
  \/ FinishSearch
  \/ Issue
  \/ Cancel

----------------------------------------------------------------------------
Issued == result.kind = "draft"
Chosen == ToSet(result.plan.order)

(* What the search may return at all: a connected set of versions with a   *)
(* seed, without a cycle, within the manifest's limits.                    *)
Feasible ==
  {S \in SUBSET (DOMAIN cands) :
     /\ S \cap Seeds # {}
     /\ \A A \in SUBSET S \ {{}, S} : \E e \in selectedEdges(edges, S) : (e.from \in A) # (e.to \in A)
     /\ ~Cyclic(S, selectedEdges(edges, S))
     /\ Cardinality(S) <= man.procedures
     /\ ~OverLimits(cands, S, man)}

(* Every input, search state and answer has its type, and the two budgets  *)
(* of the manifest are never overdrawn (planner.go:105-111, 173-194).      *)
PlannerTypeOK ==
  phase # "done" \/ Issued =>
    /\ edges \subseteq [from : DOMAIN cands, to : DOMAIN cands, sat : SUBSET UNION {cands[v].req : v \in DOMAIN cands}]
    /\ used \in 0 .. man.work
    /\ expansions \in 0 .. man.expansions
    /\ seen \subseteq SUBSET (DOMAIN cands)
    /\ ToSet(frontier) \cup next \subseteq seen
    /\ codes \subseteq {"beam_truncated", "depth_exhausted", "expansion_budget_exhausted", "work_budget_exhausted"}

(* When PlanProcedures answers with an incomplete plan and no limit code,  *)
(* the search was exhaustive: no set of versions it could have returned is *)
(* complete, or better by betterState (planner.go:167-254: skipped states, *)
(* duplicates, cycles and plan limits lose nothing).                       *)
SearchIsExhaustive ==
  Issued /\ result.codes = {} /\ ~result.plan.complete =>
    \A S \in Feasible \ {Chosen} : betterState(result.plan, PlanOf(request, edges, S))

(* Whatever stopped it, the search answers with a set of versions it was   *)
(* allowed to return, bridges and tool cost included (planner.go:437).     *)
PlansStayWithinLimits ==
  Issued =>
    /\ Chosen \in Feasible /\ Cardinality(Chosen) <= man.depth
    /\ Cardinality({v \in Chosen : ~cands[v].seed}) <= man.bridges
    /\ Total(cands, Chosen, "cost") <= man.toolCost

(* A requirement only one version of the plan has is a gap exactly when no *)
(* version placed earlier provides it and the caller did not satisfy it    *)
(* (planner.go:383-435, compatibility.go:231-255).                         *)
GapsAreExact ==
  Issued =>
    \A i \in DOMAIN result.plan.order : \A r \in cands[result.plan.order[i]].req :
      (\A v \in Chosen \ {result.plan.order[i]} : r \notin cands[v].req) =>
        (<<result.plan.order[i], r>> \in result.plan.gaps
           <=> /\ r \notin request.external
               /\ \A j \in 1 .. i - 1 : \A p \in cands[result.plan.order[j]].prov : ~Meets(p, r, request.rules))

(* Two versions in one parallel group never touch a resource that one of   *)
(* them writes or holds exclusively, share no mutex key, and neither is a  *)
(* compensation boundary or serial (parallel.go:209-242).                  *)
GroupsAreConflictFree ==
  Issued => \A g \in ToSet(result.groups) : \A i, j \in DOMAIN g : i # j =>
    LET a == cands[g[i]]  b == cands[g[j]]
    IN  /\ ~(a.boundary \/ a.serial)
        /\ a.mutex \cap b.mutex = {}
        /\ (a.writes \cup a.exclusive) \cap (b.reads \cup b.writes \cup b.exclusive) = {}

(* What the planner and the scheduler make is never refused by the draft   *)
(* checks of the selection ledger (selection/model.go:110-159).            *)
DraftsAreAccepted == result # Error("draft")

============================================================================
