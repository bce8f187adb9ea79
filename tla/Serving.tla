------------------------------ MODULE Serving -------------------------------
(***************************************************************************)
(* One tenant's served projection: what a synthesis manifest publishes     *)
(* (store/surreal/projection.go) and what a lifecycle decision publishes   *)
(* (store/surreal/lifecycle.go, lifecycle/evaluate.go).  Both append a     *)
(* retrieval_document at the next projection epoch.                        *)
(*                                                                         *)
(* A repository transaction is one step: every transaction that appends a  *)
(* document writes projection_epoch_head, so two of them conflict and one  *)
(* is retried.  A lifecycle publication is not one step: its payload names *)
(* the document it was computed from, and it is committed later, perhaps   *)
(* after other publications, perhaps twice.                                *)
(***************************************************************************)
EXTENDS Integers, FiniteSets

CONSTANTS Versions,   \* procedure versions
          Families,
          Family,     \* the procedure family of each version
          Outcomes,
          Manifests,  \* synthesis manifests: [outcome, version or None]
          Policies,   \* lifecycle policy manifests
          Jobs,       \* bound: lifecycle publications that may be computed
          None

ASSUME ServingAssumption ==
  /\ None \notin Versions
  /\ Family \in [Versions -> Families]
  /\ \A m \in Manifests : m.outcome \in Outcomes /\ m.version \in Versions \cup {None}

VARIABLES documents,   \* retrieval_document rows
          current,     \* projection_epoch_head.current_epoch
          verified,    \* verified_success_count of each version, 0 if it has no row
          supported,   \* supported_by edges <<version, outcome>>
          manifests,   \* synthesis_manifest rows
          checkpoint,  \* projection_checkpoint.generation
          job,         \* the payload of each lifecycle publication
          decided,     \* lifecycle_decision rows: the epoch each one recorded, 0 if none
          head,        \* lifecycle_version_head by version and policy
          champion     \* lifecycle_champion_head by family and policy

projectionVars == <<verified, supported, manifests, checkpoint>>
lifecycleVars == <<decided, head, champion>>
vars == <<documents, current, projectionVars, job, lifecycleVars>>

States == {"candidate", "trial", "active", "retired", "quarantined"}
Document == [epoch : Nat \ {0}, version : Versions, lifecycle : States]
Payload == [version : Versions, policy : Policies, source : Nat \ {0}, prior : States, next : States]
Head == [state : States \cup {"none"}, epoch : Nat]

NoPayload == [version |-> None]
NoHead == [state |-> "none", epoch |-> 0]

DocumentsOf(v) == {d \in documents : d.version = v}

(* ORDER BY projection_epoch DESC LIMIT 1.                                 *)
IsLatest(d) == d \in documents /\ \A e \in DocumentsOf(d.version) : e.epoch <= d.epoch

Init ==
  /\ documents = {}
  /\ current = 0
  /\ verified = [v \in Versions |-> 0]
  /\ supported = {}
  /\ manifests = {}
  /\ checkpoint = 0
  /\ job = [j \in Jobs |-> NoPayload]
  /\ decided = [j \in Jobs |-> 0]
  /\ head = [v \in Versions |-> [p \in Policies |-> NoHead]]
  /\ champion = [f \in Families |-> [p \in Policies |-> None]]

-----------------------------------------------------------------------------
(* Mutant: the version's earlier documents are updated too.                *)
publishInPlace(v, state) ==
  /\ current' = current + 1
  /\ documents' = {IF d.version = v THEN [d EXCEPT !.lifecycle = state] ELSE d : d \in documents}
                    \cup {[epoch |-> current + 1, version |-> v, lifecycle |-> state]}
publishRetrievalDocument(v, state) ==
  /\ current' = current + 1
  /\ documents' = documents \cup {[epoch |-> current + 1, version |-> v, lifecycle |-> state]}

linkEvidence(v, o) ==
  /\ supported' = supported \cup {<<v, o>>}
  /\ verified' = [verified EXCEPT ![v] = IF <<v, o>> \in supported THEN @ ELSE @ + 1]

createManifest(m) == manifests' = manifests \cup {m}
updateCheckpoint == checkpoint' = checkpoint + 1

(* A manifest already stored is a duplicate and changes nothing.  The      *)
(* document of a synthesis is built as a candidate, and ReviseEvidence     *)
(* changes only its counts.                                                *)
Publish(m) ==
  /\ m \notin manifests
  /\ IF m.version = None                        \* abstained
     THEN UNCHANGED <<documents, current, verified, supported>>
     ELSE /\ linkEvidence(m.version, m.outcome)
          /\ publishRetrievalDocument(m.version, "candidate")
  /\ createManifest(m)
  /\ updateCheckpoint
  /\ UNCHANGED <<job, lifecycleVars>>

-----------------------------------------------------------------------------
(* lifecycle.transition: the states that some evidence leads to.           *)
transition(prior) ==
  CASE prior = "candidate" -> {"candidate", "trial", "quarantined"}
    [] prior = "trial" -> {"trial", "candidate", "active", "quarantined"}
    [] prior = "active" -> {"active", "retired", "quarantined"}
    [] prior = "retired" -> {"retired"}
    [] prior = "quarantined" -> {"quarantined"}

(* The payload seals the document and the epoch it was computed from.      *)
NewLifecyclePayload(j) ==
  /\ job[j] = NoPayload
  /\ \E d \in documents, p \in Policies :
       /\ IsLatest(d)
       /\ \E next \in transition(d.lifecycle) :
            job' = [job EXCEPT ![j] = [version |-> d.version, policy |-> p, source |-> d.epoch,
                                       prior |-> d.lifecycle, next |-> next]]
  /\ UNCHANGED <<documents, current, projectionVars, lifecycleVars>>

(* Mutant: the policy's head is not compared with the source document.     *)
SourceLatest(x) ==
  \E d \in documents : IsLatest(d) /\ d.version = x.version /\ d.epoch = x.source

(* Mutant: the source document need only exist.                            *)
SourceExists(x) ==
  \E d \in documents : d.version = x.version /\ d.epoch = x.source

(* ErrLifecycleConflict unless the source document is still the latest one *)
(* and this policy's head, if there is one, names it.                      *)
SourceCurrent(x) ==
  /\ \E d \in documents : IsLatest(d) /\ d.version = x.version /\ d.epoch = x.source
  /\ head[x.version][x.policy] # NoHead =>
       head[x.version][x.policy] = [state |-> x.prior, epoch |-> x.source]

(* ErrChampionConflict.                                                    *)
ChampionFree(x) ==
  x.next = "active" => champion[Family[x.version]][x.policy] \in {None, x.version}

(* Mutant: a rollback leaves the champion head.                            *)
NewChampionKept(x) ==
  IF x.next = "active" THEN x.version ELSE champion[Family[x.version]][x.policy]

NewChampion(x) ==
  LET old == champion[Family[x.version]][x.policy]
  IN  IF x.next = "active" THEN x.version
      ELSE IF x.prior = "active" /\ old = x.version THEN None ELSE old

(* A decision already stored is a duplicate and changes nothing.           *)
Commit(j) ==
  /\ job[j] # NoPayload /\ decided[j] = 0
  /\ LET x == job[j]
         epoch == IF x.next = x.prior THEN x.source ELSE current + 1
     IN  /\ SourceCurrent(x)
         /\ ChampionFree(x)
         /\ IF x.next = x.prior THEN UNCHANGED <<documents, current>>
            ELSE publishRetrievalDocument(x.version, x.next)
         /\ decided' = [decided EXCEPT ![j] = epoch]
         /\ head' = [head EXCEPT ![x.version][x.policy] = [state |-> x.next, epoch |-> epoch]]
         /\ champion' = [champion EXCEPT ![Family[x.version]][x.policy] = NewChampion(x)]
  /\ UNCHANGED <<projectionVars, job>>

Next ==
  \/ \E m \in Manifests : Publish(m)
  \/ \E j \in Jobs : NewLifecyclePayload(j) \/ Commit(j)

Spec == Init /\ [][Next]_vars

-----------------------------------------------------------------------------
TypeOK ==
  /\ documents \in SUBSET Document
  /\ current \in Nat
  /\ verified \in [Versions -> Nat]
  /\ supported \in SUBSET (Versions \X Outcomes)
  /\ manifests \in SUBSET Manifests
  /\ checkpoint \in Nat
  /\ job \in [Jobs -> Payload \cup {NoPayload}]
  /\ decided \in [Jobs -> Nat]
  /\ head \in [Versions -> [Policies -> Head]]
  /\ champion \in [Families -> [Policies -> Versions \cup {None}]]

(* One document per epoch, none beyond the head: what a reader pinned to   *)
(* an epoch sees is a fixed set (projection.go:203-304).                   *)
EpochsExact ==
  /\ \A d \in documents : d.epoch <= current
  /\ \A d, e \in documents : d.epoch = e.epoch => d = e
  /\ \A n \in 1..current : \E d \in documents : d.epoch = n

(* Retrieval pinned to an epoch gives the same answer for ever: for each   *)
(* version the newest document at or before it (projection.go:632-672).    *)
Snapshot(epoch) ==
  {d \in documents : d.epoch <= epoch /\
     \A e \in DocumentsOf(d.version) : e.epoch <= epoch => e.epoch <= d.epoch}
SnapshotsStable == [][\A epoch \in 1..current : Snapshot(epoch)' = Snapshot(epoch)]_vars

(* A version's success count is the number of distinct outcomes that       *)
(* support it, however often a publication is repeated                     *)
(* (projection.go:148-161, 503-530).                                       *)
EvidenceCounted ==
  \A v \in Versions : verified[v] = Cardinality({o \in Outcomes : <<v, o>> \in supported})

(* Under each policy the champion of a family is the one version whose     *)
(* head is active, and there is no other (lifecycle.go:97-131).            *)
ChampionIsActiveHead ==
  \A v \in Versions, p \in Policies :
    head[v][p].state = "active" <=> champion[Family[v]][p] = v

(* A decision row points at a document of its version that has the state   *)
(* it decided, at the epoch it recorded (lifecycle.go:104-121).            *)
DecisionsServed ==
  \A j \in Jobs : decided[j] # 0 =>
    [epoch |-> decided[j], version |-> job[j].version, lifecycle |-> job[j].next] \in documents

(* A policy never takes a version out of retirement or quarantine, not     *)
(* even with a publication computed before it got there, or from a newer   *)
(* document that no longer says so (evaluate.go:96-98, lifecycle.go:86-96).*)
TerminalHeadsStay ==
  [][\A v \in Versions, p \in Policies :
       head[v][p].state \in {"retired", "quarantined"} => head'[v][p].state = head[v][p].state]_vars

(* composition-lifecycle.md: "A lifecycle state change has an immutable    *)
(* lifecycle_decision and a newer retrieval_document projection epoch."    *)
(* Whenever a newer document of a version has another state, a decision    *)
(* recorded that epoch.                                                    *)
StateChangesDecided ==
  \A d, e \in documents :
    /\ d.version = e.version /\ d.epoch < e.epoch /\ d.lifecycle # e.lifecycle
    /\ \A x \in DocumentsOf(d.version) : x.epoch <= d.epoch \/ x.epoch >= e.epoch
    => \E j \in Jobs : decided[j] = e.epoch

(* composition-lifecycle.md, unsafe rollback: "The transaction must        *)
(* publish the new retrieval document epoch and remove the champion head   *)
(* together."  After a committed rollback no champion head names the       *)
(* version until a later decision makes it active again.                   *)
RollbackRemovesChampion ==
  \A j \in Jobs :
    /\ decided[j] # 0 /\ job[j].prior = "active" /\ job[j].next # "active"
    /\ \A k \in Jobs : decided[k] > decided[j] => job[k].version # job[j].version
    => \A p \in Policies : champion[Family[job[j].version]][p] # job[j].version
=============================================================================
