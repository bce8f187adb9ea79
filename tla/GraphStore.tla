----------------------------- MODULE GraphStore -----------------------------
(***************************************************************************)
(* What a store of compatibility graphs promises: one graph for an epoch   *)
(* and a pair of manifests, whoever publishes first.  This is the          *)
(* in-memory repository (store/memory/composition.go), whose operations    *)
(* hold its lock throughout.  An answer may be lost on its way.            *)
(***************************************************************************)
CONSTANTS Graphs,  \* [key, edges]
          Valid(_),
          None

VARIABLES graphs,  \* by key
          told     \* the last answer: [graph, result], or [key, edges] to a reader

vars == <<graphs, told>>

Key(g) == g.key
Init == graphs = [k \in {Key(g) : g \in Graphs} |-> None] /\ told = None

Result(g) ==
  IF ~Valid(g) THEN "invalid"
  ELSE IF graphs[Key(g)] \in {None, g} THEN "published" ELSE "conflict"

Publish(g) ==
  /\ told' \in {told, [graph |-> g, result |-> Result(g)]}
  /\ graphs' = IF Result(g) = "published" THEN [graphs EXCEPT ![Key(g)] = g] ELSE graphs

StoredEdges(k) == IF graphs[k] = None THEN {} ELSE graphs[k].edges

Edges(k) ==
  /\ told' = [key |-> k, edges |-> StoredEdges(k)]
  /\ UNCHANGED graphs

Next == (\E g \in Graphs : Publish(g)) \/ (\E k \in DOMAIN graphs : Edges(k))

Spec == Init /\ [][Next]_vars
=============================================================================
