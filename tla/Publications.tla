---------------------------- MODULE Publications ----------------------------
(***************************************************************************)
(* Two kinds of record that maintenance jobs publish once and for all:     *)
(* compatibility graphs (composition/contract.go, store/surreal/           *)
(* composition.go) and permits to activate a rebuilt projection            *)
(* (rebuild/derived.go, store/surreal/rebuild.go), with the handlers that  *)
(* check a job's payload first (maintenance/handlers.go).                  *)
(*                                                                         *)
(* A graph, a snapshot and a permit are named by a hash of what they hold, *)
(* so two with one name are one.  A transaction fails when a row it        *)
(* creates is there already.                                               *)
(***************************************************************************)
EXTENDS Integers, Sequences, FiniteSets, Functions

CONSTANTS
  Workers,
  Graphs,           \* graphs that payloads carry: [key, edges]
  RebuildInputs,    \* what a rebuild read: a sequence of digests for each component
  AuthorizedAt,     \* times at which a comparison was authorized
  None,
  PublishAttempts,  \* attempts = 8
  MaxPublishFaults  \* bound on failed calls and lost answers

(* Every rebuild reads the same components (derived.go:27-34).             *)
ASSUME PublicationAssumption ==
  /\ None \notin Graphs
  /\ \A s, r \in RebuildInputs : DOMAIN s = DOMAIN r

VARIABLES
  headers,    \* compatibility_graph_projection by key
  edgeRows,   \* procedure_compatibility_edge: [key, edge]
  told,       \* the last answer to a publisher or reader of graphs
  snapshots,  \* derived_projection_snapshot: [role, snapshot]
  permits,    \* derived_activation_permit
  worker,     \* what each worker is doing with its job
  pubFaults

uvars == <<headers, edgeRows, told, snapshots, permits, worker, pubFaults>>

GraphKeys == {g.key : g \in Graphs}
NoTask == [pc |-> "idle", job |-> None, tries |-> 0, error |-> "none"]

PublicationsIdle ==
  /\ headers = [k \in GraphKeys |-> None] /\ edgeRows = {} /\ told = None
  /\ snapshots = {} /\ permits = {}
  /\ worker = [w \in Workers |-> NoTask] /\ pubFaults = 0

Become(w, task) == worker' = [worker EXCEPT ![w] = task]
To(w, pc, error) == Become(w, [worker[w] EXCEPT !.pc = pc, !.error = error])
Drop(w) == Become(w, NoTask)
Undisturbed == UNCHANGED pubFaults
Disturbed == pubFaults < MaxPublishFaults /\ pubFaults' = pubFaults + 1

-----------------------------------------------------------------------------
(* validateCompatibilityEdge and the pairs of validateCompatibilityGraph:  *)
(* an edge joins two versions, and two versions have one edge.             *)
ValidateCompatibilityGraph(g) ==
  /\ \A e \in g.edges : e.source # e.target /\ e.satisfies # {}
  /\ \A e, f \in g.edges : e.source = f.source /\ e.target = f.target => e = f

Tell(w, g, result) == told' = [graph |-> g, result |-> result] /\ Drop(w)

(* CompatibilityHandler.Handle: the payload is decoded and checked.        *)
HandleCompatibility(w, g) ==
  /\ worker[w].pc = "idle"
  /\ IF ValidateCompatibilityGraph(g)
     THEN Become(w, [NoTask EXCEPT !.pc = "begin", !.job = g]) /\ UNCHANGED told
     ELSE Tell(w, g, "invalid")
  /\ Undisturbed /\ UNCHANGED <<headers, edgeRows, snapshots, permits>>

Free(g) == headers[g.key] = None
Rows(g) == [key : {g.key}, edge : g.edges]

(* Mutant: a graph under this key is taken for the one to be published.    *)
FoundAny(w, g) == Tell(w, g, "published")

(* A lookup that finds a graph compares the hashes.                        *)
Found(w, g) == Tell(w, g, IF headers[g.key] = g THEN "published" ELSE "conflict")

(* publishOnce, up to its commit.  Its own conflict goes through the       *)
(* lookup of Publish like any other error.                                 *)
PublishOnce(w) ==
  /\ worker[w].pc = "begin"
  /\ LET g == worker[w].job
     IN  IF Free(g) THEN To(w, "commit", "none") /\ UNCHANGED told
         ELSE IF headers[g.key] = g THEN Tell(w, g, "published")
         ELSE To(w, "lookup", "other") /\ UNCHANGED told
  /\ Undisturbed /\ UNCHANGED <<headers, edgeRows, snapshots, permits>>

StoreGraph(g) ==
  /\ headers' = [headers EXCEPT ![g.key] = g]
  /\ edgeRows' = edgeRows \cup Rows(g)

CommitGraph(w) ==
  /\ worker[w].pc = "commit"
  /\ LET g == worker[w].job
     IN  /\ Free(g) /\ Rows(g) \cap edgeRows = {}
         /\ StoreGraph(g)
         /\ \/ Tell(w, g, "published") /\ Undisturbed
            \/ To(w, "lookup", "other") /\ UNCHANGED told /\ Disturbed
  /\ UNCHANGED <<snapshots, permits>>

CommitGraphFails(w) ==
  /\ worker[w].pc = "commit"
  /\ \/ ~Free(worker[w].job) /\ Undisturbed
     \/ Disturbed
  /\ \E error \in {"conflict", "other"} : To(w, "lookup", error)
  /\ UNCHANGED <<headers, edgeRows, told, snapshots, permits>>

(* Publish after a failed attempt. *)
Lookup(w) ==
  /\ worker[w].pc = "lookup"
  /\ LET t == worker[w]
     IN  IF ~Free(t.job) THEN Found(w, t.job)
         ELSE /\ IF t.error = "conflict" /\ t.tries + 1 < PublishAttempts
                 THEN Become(w, [t EXCEPT !.pc = "begin", !.tries = @ + 1, !.error = "none"])
                 ELSE Drop(w)
              /\ UNCHANGED told
  /\ Undisturbed /\ UNCHANGED <<headers, edgeRows, snapshots, permits>>

LookupFails(w) ==
  /\ worker[w].pc = "lookup" /\ Disturbed /\ Drop(w)
  /\ UNCHANGED <<headers, edgeRows, told, snapshots, permits>>

(* Edges: the graph is read from its header. *)
Edges(k) ==
  /\ told' = [key |-> k, edges |-> IF headers[k] = None THEN {} ELSE headers[k].edges]
  /\ Undisturbed /\ UNCHANGED <<headers, edgeRows, snapshots, permits, worker>>

-----------------------------------------------------------------------------
(* normalizeDigests: sorted by ID, and no ID twice. *)
Normal(digests) == Cardinality({d.id : d \in Range(digests)}) = Len(digests)

(* BuildDerivedSnapshot: the order in which the rows were read is gone.    *)
Buildable(input) == \A c \in DOMAIN input : Normal(input[c])
BuildDerivedSnapshot(input) == [c \in DOMAIN input |-> Range(input[c])]

(* Mutant: the heads are compared, and what they were derived from is not. *)
CompareHeads(stored, rebuilt) == stored.heads = rebuilt.heads

(* equalDigests, component by component. *)
CompareDerivedSnapshots(stored, rebuilt) == \A c \in DOMAIN stored : stored[c] = rebuilt[c]

(* NewRebuildPayload and ProjectionRebuildHandler.Handle up to the         *)
(* publication: a payload whose snapshots differ is no job of the store's. *)
HandleRebuild(w, s, r, at) ==
  /\ worker[w].pc = "idle"
  /\ Buildable(s) /\ Buildable(r)
  /\ LET stored == BuildDerivedSnapshot(s)
         rebuilt == BuildDerivedSnapshot(r)
     IN  /\ CompareDerivedSnapshots(stored, rebuilt)
         /\ Become(w, [NoTask EXCEPT !.pc = "find", !.job = [stored |-> stored, rebuilt |-> rebuilt, at |-> at]])
  /\ Undisturbed /\ UNCHANGED <<headers, edgeRows, told, snapshots, permits>>

(* PublishActivation: a permit that is there needs nothing more. *)
FindPermit(w) ==
  /\ worker[w].pc = "find"
  /\ IF worker[w].job \in permits THEN Drop(w) ELSE To(w, "activate", "none")
  /\ Undisturbed /\ UNCHANGED <<headers, edgeRows, told, snapshots, permits>>

SnapshotRows(p) == {[role |-> "stored", snapshot |-> p.stored], [role |-> "rebuilt", snapshot |-> p.rebuilt]}

(* The unique indexes of derived_projection_snapshot and of                *)
(* derived_activation_permit.                                              *)
Creatable(p) ==
  /\ SnapshotRows(p) \cap snapshots = {}
  /\ \A q \in permits : q.stored # p.stored \/ q.rebuilt # p.rebuilt

(* The transaction: both snapshots and the permit, or nothing.  Whether    *)
(* the caller hears of it changes nothing: after a failed commit the       *)
(* permit is looked up, after a failed statement it is not.                *)
Activate(w) ==
  /\ worker[w].pc = "activate" /\ Creatable(worker[w].job)
  /\ snapshots' = snapshots \cup SnapshotRows(worker[w].job)
  /\ permits' = permits \cup {worker[w].job}
  /\ Drop(w)
  /\ Undisturbed /\ UNCHANGED <<headers, edgeRows, told>>

ActivateFails(w) ==
  /\ worker[w].pc = "activate"
  /\ \/ ~Creatable(worker[w].job) /\ Undisturbed
     \/ Disturbed
  /\ Drop(w)
  /\ UNCHANGED <<headers, edgeRows, told, snapshots, permits>>

PublishNext ==
  \/ \E w \in Workers :
       \/ \E g \in Graphs : HandleCompatibility(w, g)
       \/ PublishOnce(w) \/ CommitGraph(w) \/ CommitGraphFails(w) \/ Lookup(w) \/ LookupFails(w)
  \/ \E k \in GraphKeys : Edges(k)

ActivateNext ==
  \E w \in Workers :
    \/ \E s, r \in RebuildInputs, at \in AuthorizedAt : HandleRebuild(w, s, r, at)
    \/ FindPermit(w) \/ Activate(w) \/ ActivateFails(w)

PublicationsSpec == PublicationsIdle /\ [][PublishNext \/ ActivateNext]_uvars

-----------------------------------------------------------------------------
(* A graph that is found is found whole, by the planner that reads its     *)
(* header and by a query over its edges: the rows of procedure_            *)
(* compatibility_edge are those of the published headers, no more and no   *)
(* fewer, whatever publication failed (surreal/composition.go:83-96).      *)
EdgesAreOfTheirGraph ==
  edgeRows = UNION {Rows(headers[k]) : k \in {k \in GraphKeys : headers[k] # None}}

(* Authority to activate is earned and given once: a permit stands for two *)
(* snapshots that agree in every component and are both on record, and two *)
(* snapshots have one permit, however many rebuilds compared them          *)
(* (rebuild/derived.go:90-110, surreal/rebuild.go:26-65).                  *)
PermitsAreEarned ==
  /\ \A p \in permits : p.stored = p.rebuilt /\ SnapshotRows(p) \subseteq snapshots
  /\ \A p, q \in permits : p.stored = q.stored => p = q

(* What is published is whole: a graph with its edges, and a permit with   *)
(* the snapshots it stands for (surreal/composition.go:83-96,              *)
(* surreal/rebuild.go:26-65).                                              *)
PublicationsAreWhole == EdgesAreOfTheirGraph /\ PermitsAreEarned


Store == INSTANCE GraphStore WITH graphs <- headers, Valid <- ValidateCompatibilityGraph

(* Publishers that race, fail half-way, lose their answer and try again    *)
(* look like publishers that hold a lock: the database repository          *)
(* implements the in-memory one, and a second graph for a key is never     *)
(* taken for the first (surreal/composition.go:26-97,                      *)
(* memory/composition.go:27-64).                                           *)
ImplementsGraphStore == Store!Spec
=============================================================================
