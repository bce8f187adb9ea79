----------------------------- MODULE Synthesis -----------------------------
(***************************************************************************)
(* How a procedure is derived from a trace: the causal graph               *)
(* (synthesis/builder.go), what the workflow infers from it (inferGoals,   *)
(* requiredEffects and inferFailedBranches of workflow/processor.go),      *)
(* Synthesize (synthesis/synthesizer.go), and the interface the published  *)
(* version advertises (buildProcedureInterface of projection/model.go).    *)
(*                                                                         *)
(* A contract names the resources it reads and writes; an event says which *)
(* resource each of those names stands for, so that two contracts can name *)
(* one resource differently.  A trace is a sequence of events and a node   *)
(* is its position in it.  Only resource flow makes edges: the workflow    *)
(* declares no control or verifier dependency (processor.go:188).          *)
(***************************************************************************)
EXTENDS Integers, Sequences, FiniteSets, SequencesExt

CONSTANT Contracts   \* the registered tool contracts, by tool and version

NoId == 0            \* the event has no value for the resource's field
Refused(code) == [status |-> "refused", code |-> code]
Abstained(code) == [status |-> "abstained", code |-> code]

Opaque(e) == e.tool \notin DOMAIN Contracts
Succeeded(e) == e.state = "success"

(* resourcesFor: the resources an event touches under the given names. *)
resourcesFor(e, names) == {[id |-> e.at[n], name |-> n] : n \in names}

Reads(e) == IF Opaque(e) THEN {} ELSE resourcesFor(e, Contracts[e.tool].reads)
Writes(e) == IF Opaque(e) THEN {} ELSE resourcesFor(e, Contracts[e.tool].writes)
MissingResource(e) == NoId \in {r.id : r \in Reads(e) \union Writes(e)}
Ids(resources) == {r.id : r \in resources}

(* The nodes before node i that write the resource. *)
Writers(trace, i, id) == {j \in 1 .. i - 1 : id \in Ids(Writes(trace[j]))}

(* Builder.Build: an edge from the last writer of everything a node reads. *)
Build(trace) ==
  UNION {{[from |-> Max(Writers(trace, i, r.id)), to |-> i, id |-> r.id] :
            r \in {s \in Reads(trace[i]) : Writers(trace, i, s.id) # {}}} : i \in DOMAIN trace}

(* inferGoals: the nodes that verify each predicate of the outcome's       *)
(* evidence, by the predicate or by the verifier's method.                 *)
inferGoals(trace, facts) ==
  [p \in {f.predicate : f \in facts} |->
     {i \in DOMAIN trace : /\ Succeeded(trace[i]) /\ ~ Opaque(trace[i])
                           /\ \E f \in facts : /\ f.predicate = p
                                               /\ \/ p \in Contracts[trace[i].tool].post
                                                  \/ f.verifier \in Contracts[trace[i].tool].methods}]

(* requiredEffects: an opaque tool counts as irreversible. *)
requiredEffects(trace) ==
  {i \in DOMAIN trace : Succeeded(trace[i]) /\ (Opaque(trace[i]) \/ Contracts[trace[i].tool].effectful)}

inferFailedBranches(trace) == {i \in DOMAIN trace : ~ Succeeded(trace[i]) /\ ~ Opaque(trace[i])}

(* The BuildGraph stage: the errors in the order it meets them. *)
GraphOf(trace, facts) ==
  IF \E i \in DOMAIN trace : MissingResource(trace[i]) THEN Refused("graph_build_failed")
  ELSE IF \E i \in inferFailedBranches(trace) : trace[i].state = "none" THEN Refused("invalid_start")
  ELSE [status |-> "graph", edges |-> Build(trace), goals |-> inferGoals(trace, facts),
        required |-> requiredEffects(trace), failed |-> inferFailedBranches(trace)]

(* Mutant: prerequisites are followed one edge deep only. *)
RetainedOneDeep(trace, edges, roots) == roots \union {e.from : e \in {f \in edges : f.to \in roots}}

(* The worklist of Synthesize: everything the roots depend on. *)
Retained(trace, edges, roots) ==
  FoldLeft(LAMBDA kept, i : kept \union {e.from : e \in {f \in edges : f.to \in kept}}, roots, trace)

(* canonicalProcedureResources with the catalog shared by all steps: one   *)
(* resource has one name.                                                  *)
CatalogConflict(trace, steps) ==
  LET catalog == UNION {Reads(trace[i]) \union Writes(trace[i]) : i \in steps}
  IN  \E r, s \in catalog : r.id = s.id /\ r.name # s.name

Roots(graph) == UNION {graph.goals[p] : p \in DOMAIN graph.goals} \union graph.required

Synthesize(trace, graph, outcome) ==
  LET retained == Retained(trace, graph.edges, Roots(graph))
      steps == {i \in DOMAIN trace : i \notin graph.failed /\ (i \in retained \/ Succeeded(trace[i]))}
  IN  IF graph.goals = <<>> THEN Refused("synthesis_failed")
      ELSE IF outcome # "verified_success" THEN Abstained("outcome_not_verified")
      ELSE IF \E i \in DOMAIN trace : Opaque(trace[i]) THEN Abstained("opaque_tool")
      ELSE IF \E p \in DOMAIN graph.goals : graph.goals[p] = {} THEN Abstained("uncovered_goal")
      ELSE IF \E i \in retained : ~ Succeeded(trace[i]) THEN Abstained("failed_prerequisite")
      ELSE IF CatalogConflict(trace, steps) THEN Refused("synthesis_failed")
      ELSE [status |-> "synthesized", steps |-> steps, proven |-> retained,
            edges |-> {e \in graph.edges : e.from \in steps /\ e.to \in steps}]

(* buildProcedureInterface: what is read from outside, and what is written *)
(* that no later step consumes, with the step that wrote it.               *)
Unconsumed(trace, s) ==
  {w \in s.steps \X UNION {Ids(Writes(trace[i])) : i \in s.steps} :
     /\ w[2] \in Ids(Writes(trace[w[1]]))
     /\ ~ \E e \in s.edges : e.from = w[1] /\ e.id = w[2]}

External(trace, s) ==
  {r \in UNION {{<<i, id>> : id \in Ids(Reads(trace[i]))} : i \in s.steps} :
     ~ \E e \in s.edges : e.to = r[1] /\ e.id = r[2]}

(* projection.Build for a synthesized result: one owner for each provision *)
(* and one contract for each tool name (normalizeToolRequirements).        *)
Published(trace, s) ==
  LET provided == Unconsumed(trace, s)
  IN  IF \E v, w \in provided : v[2] = w[2] /\ v[1] # w[1] THEN Refused("projection_build_failed")
      ELSE IF \E i, j \in s.steps : /\ Contracts[trace[i].tool].name = Contracts[trace[j].tool].name
                                    /\ trace[i].tool # trace[j].tool
           THEN Refused("projection_build_failed")
      ELSE [status |-> "published", steps |-> s.steps, proven |-> s.proven, edges |-> s.edges,
            requirements |-> {r[2] : r \in External(trace, s)},
            provisions |-> provided]
=============================================================================
