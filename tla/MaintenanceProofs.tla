------------------------- MODULE MaintenanceProofs --------------------------
(***************************************************************************)
(* What the served projection holds, for any number of versions, families, *)
(* policies, manifests and publications, and the maintenance queue over    *)
(* it, for any number of jobs, processes, worker IDs and faults.           *)
(***************************************************************************)
EXTENDS Maintenance, FiniteSetTheorems, TLAPS

-----------------------------------------------------------------------------
(* The served projection.                                                  *)


(* The outcomes that support a version; finitely many at any time.         *)
Support(v) == {o \in Outcomes : <<v, o>> \in supported}
SupportFinite == \A v \in Versions : IsFiniteSet(Support(v))

Served(epoch, v, state) == [epoch |-> epoch, version |-> v, lifecycle |-> state] \in documents

(* A policy's head names a document of its version with its state.         *)
HeadsServed ==
  \A v \in Versions, p \in Policies :
    head[v][p] # NoHead => Served(head[v][p].epoch, v, head[v][p].state)

(* A payload names a document that had the prior state, and a next state   *)
(* that the policy allows from there; a decision was made from a payload.  *)
PayloadsSealed ==
  \A j \in Jobs :
    /\ job[j] # NoPayload => /\ Served(job[j].source, job[j].version, job[j].prior)
                             /\ job[j].next \in transition(job[j].prior)
    /\ decided[j] # 0 => job[j] # NoPayload

SInv ==
  /\ TypeOK
  /\ EpochsExact
  /\ SupportFinite /\ EvidenceCounted
  /\ HeadsServed
  /\ PayloadsSealed
  /\ ChampionIsActiveHead
  /\ DecisionsServed

(* A tenant that has published nothing satisfies the invariant.            *)
LEMMA ServingStarts == Init => SInv
<1> SUFFICES ASSUME Init PROVE SInv
  BY Zenon
<1>1. NoHead \in Head
  BY Zenon DEF NoHead, Head
<1>2. TypeOK
  BY Zenon, <1>1 DEF Init, TypeOK
<1>3. EpochsExact
  BY DEF Init, EpochsExact
<1>4. \A v \in Versions : Support(v) = {}
  BY Zenon DEF Init, Support
<1>5. SupportFinite /\ EvidenceCounted
  BY Zenon, <1>4, FS_EmptySet DEF Init, SupportFinite, EvidenceCounted, Support
<1>6. HeadsServed /\ PayloadsSealed /\ DecisionsServed
  BY Zenon DEF Init, HeadsServed, PayloadsSealed, DecisionsServed
<1>7. ChampionIsActiveHead
  BY Zenon, ServingAssumption DEF Init, ChampionIsActiveHead, NoHead
<1> QED
  BY Zenon, <1>2, <1>3, <1>5, <1>6, <1>7 DEF SInv

(* Appending a document at the next epoch keeps the epochs exact, takes no *)
(* document away and puts the new one in place.                            *)
LEMMA Appends ==
  ASSUME TypeOK, EpochsExact, NEW v \in Versions, NEW state \in States,
         publishRetrievalDocument(v, state)
  PROVE  /\ current' = current + 1 /\ current' \in Nat
         /\ documents' \in SUBSET Document /\ documents \subseteq documents'
         /\ [epoch |-> current + 1, version |-> v, lifecycle |-> state] \in documents'
         /\ EpochsExact'
<1> DEFINE new == [epoch |-> current + 1, version |-> v, lifecycle |-> state]
<1>1. current' = current + 1 /\ documents' = documents \cup {new} /\ current \in Nat
  BY Zenon DEF publishRetrievalDocument, TypeOK
<1>2. new \in Document /\ new.epoch = current + 1
  BY <1>1 DEF Document
<1>3. \A d \in documents : d.epoch \in Nat /\ d.epoch <= current
  BY Zenon DEF TypeOK, Document, EpochsExact
<1> HIDE DEF new
<1>4. \A d, e \in documents' : d.epoch = e.epoch => d = e
  BY <1>1, <1>2, <1>3 DEF EpochsExact
<1>5. \A d \in documents' : d.epoch <= current'
  BY <1>1, <1>2, <1>3
<1>6. \A n \in 1..current' : \E d \in documents' : d.epoch = n
  <2> SUFFICES ASSUME NEW n \in 1..current' PROVE \E d \in documents' : d.epoch = n
    BY Zenon
  <2>1. CASE n = current + 1
    BY Zenon, <1>1, <1>2, <2>1
  <2>2. CASE n \in 1..current
    BY Zenon, <1>1, <2>2 DEF EpochsExact
  <2> QED
    BY <1>1, <2>1, <2>2
<1>7. EpochsExact'
  BY Zenon, <1>4, <1>5, <1>6 DEF EpochsExact
<1>8. documents' \in SUBSET Document
  BY Zenon, <1>1, <1>2 DEF TypeOK
<1> QED
  BY <1>1, <1>7, <1>8 DEF new

(* What a committed decision writes, record by record.                     *)
LEMMA CommitEffects ==
  ASSUME SInv, NEW j \in Jobs, Commit(j)
  PROVE  /\ job[j] \in Payload /\ decided[j] = 0
         /\ SourceCurrent(job[j]) /\ ChampionFree(job[j])
         /\ \E e \in Nat \ {0} :
              /\ [epoch |-> e, version |-> job[j].version, lifecycle |-> job[j].next] \in documents'
              /\ decided' = [decided EXCEPT ![j] = e]
              /\ \A w \in Versions, q \in Policies :
                   head'[w][q] = IF w = job[j].version /\ q = job[j].policy
                                 THEN [state |-> job[j].next, epoch |-> e] ELSE head[w][q]
         /\ \A f \in Families, q \in Policies :
              champion'[f][q] = IF f = Family[job[j].version] /\ q = job[j].policy
                                THEN NewChampion(job[j]) ELSE champion[f][q]
         /\ documents \subseteq documents' /\ TypeOK' /\ EpochsExact'
         /\ UNCHANGED <<projectionVars, job>>
         /\ \/ UNCHANGED <<documents, current>>
            \/ publishRetrievalDocument(job[j].version, job[j].next)
<1> DEFINE x == job[j]
           e == IF x.next = x.prior THEN x.source ELSE current + 1
           h == [state |-> x.next, epoch |-> e]
           c == NewChampion(x)
<1>1. x \in Payload /\ decided[j] = 0 /\ SourceCurrent(x) /\ ChampionFree(x)
  BY Zenon DEF Commit, SInv, TypeOK
<1>2. /\ IF x.next = x.prior THEN UNCHANGED <<documents, current>>
         ELSE publishRetrievalDocument(x.version, x.next)
      /\ decided' = [decided EXCEPT ![j] = e]
      /\ head' = [head EXCEPT ![x.version] = [head[x.version] EXCEPT ![x.policy] = h]]
      /\ champion' = [champion EXCEPT ![Family[x.version]] =
                         [champion[Family[x.version]] EXCEPT ![x.policy] = c]]
      /\ UNCHANGED <<projectionVars, job>>
  BY Zenon DEF Commit
<1>3. /\ x.version \in Versions /\ x.policy \in Policies /\ x.source \in Nat \ {0}
      /\ x.prior \in States /\ x.next \in States
  BY Zenon, <1>1 DEF Payload
<1>4. TypeOK /\ EpochsExact /\ current \in Nat
  BY Zenon DEF SInv, TypeOK
<1>5. e \in Nat \ {0} /\ h \in Head
  BY <1>3, <1>4 DEF Head
<1>6. Family[x.version] \in Families /\ c \in Versions \cup {None}
  BY <1>3, <1>4, ServingAssumption DEF NewChampion, TypeOK
<1>7. Served(x.source, x.version, x.prior)
  BY Zenon, <1>1 DEF SInv, PayloadsSealed, Commit
<1>8. /\ documents \subseteq documents' /\ documents' \in SUBSET Document /\ current' \in Nat /\ EpochsExact'
      /\ [epoch |-> e, version |-> x.version, lifecycle |-> x.next] \in documents'
  <2>1. CASE x.next = x.prior
    BY <1>2, <1>4, <1>7, <2>1 DEF TypeOK, EpochsExact, Served
  <2>2. CASE x.next # x.prior
    BY Zenon, <1>2, <1>3, <1>4, <2>2, Appends
  <2> QED
    BY Zenon, <2>1, <2>2
<1>9. \/ UNCHANGED <<documents, current>>
      \/ publishRetrievalDocument(x.version, x.next)
  BY Zenon, <1>2
<1> HIDE DEF x, e, h, c
<1>10. /\ head' \in [Versions -> [Policies -> Head]]
       /\ \A w \in Versions, q \in Policies :
            head'[w][q] = IF w = x.version /\ q = x.policy THEN h ELSE head[w][q]
  <2>1. head \in [Versions -> [Policies -> Head]]
    BY Zenon, <1>4 DEF TypeOK
  <2>2. [head[x.version] EXCEPT ![x.policy] = h] \in [Policies -> Head]
    BY Zenon, <1>3, <1>5, <2>1
  <2> QED
    BY Zenon, <1>2, <1>3, <2>1, <2>2
<1>11. /\ champion' \in [Families -> [Policies -> Versions \cup {None}]]
       /\ \A f \in Families, q \in Policies :
            champion'[f][q] = IF f = Family[x.version] /\ q = x.policy THEN c ELSE champion[f][q]
  <2>1. champion \in [Families -> [Policies -> Versions \cup {None}]]
    BY Zenon, <1>4 DEF TypeOK
  <2>2. [champion[Family[x.version]] EXCEPT ![x.policy] = c] \in [Policies -> Versions \cup {None}]
    BY Zenon, <1>3, <1>6, <2>1
  <2> QED
    BY Zenon, <1>2, <1>3, <1>6, <2>1, <2>2
<1>12. TypeOK'
  BY Zenon, <1>2, <1>4, <1>5, <1>8, <1>10, <1>11 DEF TypeOK, projectionVars
<1>13. \E n \in Nat \ {0} :
         /\ [epoch |-> n, version |-> x.version, lifecycle |-> x.next] \in documents'
         /\ decided' = [decided EXCEPT ![j] = n]
         /\ \A w \in Versions, q \in Policies :
              head'[w][q] = IF w = x.version /\ q = x.policy
                            THEN [state |-> x.next, epoch |-> n] ELSE head[w][q]
  BY Zenon, <1>2, <1>5, <1>8, <1>10 DEF h
<1> QED
  BY Zenon, <1>1, <1>2, <1>8, <1>9, <1>11, <1>12, <1>13 DEF x, c

(* What a synthesis publishes, and what it counts.                         *)
LEMMA PublishEffects ==
  ASSUME SInv, NEW m \in Manifests, Publish(m)
  PROVE  /\ documents \subseteq documents' /\ TypeOK' /\ EpochsExact'
         /\ SupportFinite' /\ EvidenceCounted'
         /\ UNCHANGED <<job, lifecycleVars>>
         /\ \/ UNCHANGED <<documents, current>>
            \/ publishRetrievalDocument(m.version, "candidate") /\ m.version \in Versions
<1>1. /\ m.outcome \in Outcomes /\ m.version \in Versions \cup {None}
      /\ TypeOK /\ EpochsExact /\ SupportFinite /\ EvidenceCounted
  BY Zenon, ServingAssumption DEF SInv
<1>2. manifests' \in SUBSET Manifests /\ checkpoint' \in Nat /\ UNCHANGED <<job, lifecycleVars>>
  BY <1>1 DEF Publish, createManifest, updateCheckpoint, TypeOK
<1>3. CASE m.version = None
  <2>1. UNCHANGED <<documents, current, verified, supported>>
    BY Zenon, <1>3 DEF Publish
  <2> QED
    BY <1>1, <1>2, <2>1
       DEF TypeOK, EpochsExact, SupportFinite, Support, EvidenceCounted, lifecycleVars
<1>4. CASE m.version # None
  <2> DEFINE v == m.version  o == m.outcome
  <2>1. /\ v \in Versions /\ o \in Outcomes
        /\ linkEvidence(v, o) /\ publishRetrievalDocument(v, "candidate")
    BY Zenon, <1>1, <1>4 DEF Publish
  <2>2. /\ documents \subseteq documents' /\ documents' \in SUBSET Document
        /\ current' \in Nat /\ EpochsExact'
    <3>1. "candidate" \in States
      BY Zenon DEF States
    <3> QED
      BY Zenon, <1>1, <2>1, <3>1, Appends
  <2> HIDE DEF v, o
  <2>3. /\ supported' = supported \cup {<<v, o>>} /\ supported' \in SUBSET (Versions \X Outcomes)
        /\ verified' = [verified EXCEPT ![v] = IF <<v, o>> \in supported THEN @ ELSE @ + 1]
        /\ verified' \in [Versions -> Nat]
    BY <1>1, <2>1 DEF linkEvidence, TypeOK
  <2>4. ASSUME NEW w \in Versions
        PROVE  IsFiniteSet(Support(w)') /\ verified'[w] = Cardinality(Support(w)')
    <3>1. /\ IsFiniteSet(Support(w)) /\ verified[w] = Cardinality(Support(w))
      BY Zenon, <1>1 DEF SupportFinite, EvidenceCounted, Support
    <3>2. CASE w # v
      <4>1. Support(w)' = Support(w)
        BY Zenon, <2>3, <3>2 DEF Support
      <4> QED
        BY Zenon, <1>1, <2>1, <2>3, <3>1, <3>2, <4>1 DEF TypeOK
    <3>3. CASE w = v
      <4>1. Support(w)' = Support(w) \cup {o} /\ (o \in Support(w) <=> <<v, o>> \in supported)
        BY Zenon, <2>1, <2>3, <3>3 DEF Support
      <4>2. verified'[w] = IF o \in Support(w) THEN verified[w] ELSE verified[w] + 1
        BY Zenon, <1>1, <2>3, <3>3, <4>1 DEF TypeOK
      <4> QED
        BY Zenon, <3>1, <4>1, <4>2, FS_AddElement
    <3> QED
      BY Zenon, <3>2, <3>3
  <2>5. SupportFinite' /\ EvidenceCounted'
    BY Zenon, <2>4 DEF SupportFinite, EvidenceCounted, Support
  <2> QED
    BY Zenon, <1>1, <1>2, <2>1, <2>2, <2>3, <2>5 DEF TypeOK, lifecycleVars, v
<1> QED
  BY Zenon, <1>3, <1>4

(* Documents are only added, so what was served stays served.              *)
LEMMA ServedStays ==
  ASSUME SInv, documents \subseteq documents', UNCHANGED <<job, lifecycleVars>>
  PROVE  HeadsServed' /\ PayloadsSealed' /\ ChampionIsActiveHead' /\ DecisionsServed'
<1>1. /\ \A v \in Versions, p \in Policies :
           head[v][p] # NoHead => Served(head[v][p].epoch, v, head[v][p].state)'
      /\ \A j \in Jobs : job[j] # NoPayload => Served(job[j].source, job[j].version, job[j].prior)'
  BY Zenon DEF SInv, HeadsServed, PayloadsSealed, Served, lifecycleVars
<1>2. HeadsServed' /\ PayloadsSealed'
  BY Zenon, <1>1 DEF SInv, HeadsServed, PayloadsSealed, lifecycleVars
<1>3. ChampionIsActiveHead' /\ DecisionsServed'
  BY Zenon DEF SInv, ChampionIsActiveHead, DecisionsServed, lifecycleVars
<1> QED
  BY Zenon, <1>2, <1>3

(* Sealing a payload keeps the invariant: what it seals is served at that  *)
(* moment.                                                                 *)
LEMMA PayloadStep ==
  ASSUME SInv, NEW j \in Jobs, NewLifecyclePayload(j)
  PROVE  SInv'
<1>1. /\ job[j] = NoPayload
      /\ UNCHANGED <<documents, current, projectionVars, lifecycleVars>>
  BY Zenon DEF NewLifecyclePayload
<1>a. PICK d \in documents, p \in Policies :
        \E next \in transition(d.lifecycle) :
          job' = [job EXCEPT ![j] = [version |-> d.version, policy |-> p, source |-> d.epoch,
                                     prior |-> d.lifecycle, next |-> next]]
  BY Zenon DEF NewLifecyclePayload
<1>2. PICK next \in transition(d.lifecycle) :
        job' = [job EXCEPT ![j] = [version |-> d.version, policy |-> p, source |-> d.epoch,
                                   prior |-> d.lifecycle, next |-> next]]
  BY Zenon, <1>a
<1> DEFINE x == [version |-> d.version, policy |-> p, source |-> d.epoch,
                 prior |-> d.lifecycle, next |-> next]
<1>3. d \in Document /\ d.lifecycle \in States /\ job \in [Jobs -> Payload \cup {NoPayload}]
  BY Zenon DEF SInv, TypeOK, Document
<1>4. next \in States
  BY Zenon, <1>3 DEF transition, States
<1>5. x \in Payload
  BY Zenon, <1>3, <1>4 DEF Payload, Document
<1>6. d = [epoch |-> x.source, version |-> x.version, lifecycle |-> x.prior] /\ x.next \in transition(x.prior)
  BY Zenon, <1>3 DEF Document
<1> HIDE DEF x
<1>7. job' = [job EXCEPT ![j] = x]
  BY Zenon, <1>2 DEF x
<1>8. /\ job' \in [Jobs -> Payload \cup {NoPayload}]
      /\ job'[j] = x /\ \A k \in Jobs : k # j => job'[k] = job[k]
  BY Zenon, <1>3, <1>5, <1>7
<1>9. TypeOK' /\ EpochsExact' /\ SupportFinite' /\ EvidenceCounted' /\ HeadsServed' /\ ChampionIsActiveHead'
  BY <1>1, <1>8 DEF SInv, TypeOK, EpochsExact, SupportFinite, Support, EvidenceCounted, HeadsServed,
                    Served, ChampionIsActiveHead, projectionVars, lifecycleVars
<1>10. decided[j] = 0
  BY Zenon, <1>1 DEF SInv, PayloadsSealed
<1>11. PayloadsSealed'
  BY Zenon, <1>1, <1>6, <1>8, <1>10 DEF SInv, PayloadsSealed, Served, lifecycleVars
<1>12. DecisionsServed'
  BY Zenon, <1>1, <1>8, <1>10 DEF SInv, DecisionsServed, lifecycleVars
<1> QED
  BY Zenon, <1>9, <1>11, <1>12 DEF SInv

(* A decision moves the champion of its own family and policy only, and    *)
(* only away from or to the version it is about: the head that is active   *)
(* names the source of whatever ends its reign.                            *)
LEMMA ChampionStep ==
  ASSUME SInv, NEW j \in Jobs, Commit(j)
  PROVE  ChampionIsActiveHead'
<1> DEFINE x == job[j]
<1>1. x \in Payload /\ SourceCurrent(x) /\ ChampionFree(x)
  BY Zenon, CommitEffects
<1>2. PICK e \in Nat \ {0} :
        /\ [epoch |-> e, version |-> x.version, lifecycle |-> x.next] \in documents'
        /\ decided' = [decided EXCEPT ![j] = e]
        /\ \A w \in Versions, q \in Policies :
             head'[w][q] = IF w = x.version /\ q = x.policy
                           THEN [state |-> x.next, epoch |-> e] ELSE head[w][q]
  BY Zenon, CommitEffects
<1>3. \A f \in Families, q \in Policies :
        champion'[f][q] = IF f = Family[x.version] /\ q = x.policy
                          THEN NewChampion(x) ELSE champion[f][q]
  BY Zenon, CommitEffects
<1>4. x.version \in Versions /\ x.policy \in Policies
  BY Zenon, <1>1 DEF Payload
<1> HIDE DEF x
<1> SUFFICES ASSUME NEW w \in Versions, NEW q \in Policies
             PROVE  head'[w][q].state = "active" <=> champion'[Family[w]][q] = w
  BY Zenon DEF ChampionIsActiveHead
<1>5. /\ Family[w] \in Families /\ Family[x.version] \in Families /\ None \notin Versions
      /\ head[w][q].state = "active" <=> champion[Family[w]][q] = w
      /\ head[x.version][x.policy].state = "active" <=> champion[Family[x.version]][x.policy] = x.version
  BY <1>4, ServingAssumption DEF SInv, ChampionIsActiveHead
<1>6. CASE q # x.policy \/ Family[w] # Family[x.version]
  BY <1>2, <1>3, <1>5, <1>6
<1>7. CASE q = x.policy /\ w = x.version
  <2>1. head'[w][q].state = x.next /\ champion'[Family[w]][q] = NewChampion(x)
    BY <1>2, <1>3, <1>5, <1>7
  <2>2. head[w][q].state = "active" => x.prior = "active"
    <3>1. NoHead.state = "none"
      BY Zenon DEF NoHead
    <3> QED
      BY <1>1, <1>7, <3>1 DEF SourceCurrent
  <2> QED
    BY Zenon, <1>4, <1>5, <1>7, <2>1, <2>2 DEF NewChampion
<1>8. CASE q = x.policy /\ Family[w] = Family[x.version] /\ w # x.version
  <2>1. head'[w][q] = head[w][q] /\ champion'[Family[w]][q] = NewChampion(x)
    BY Zenon, <1>2, <1>3, <1>5, <1>8
  <2> QED
    BY <1>1, <1>4, <1>5, <1>8, <2>1 DEF NewChampion, ChampionFree
<1> QED
  BY Zenon, <1>6, <1>7, <1>8

(* A lifecycle commit keeps the invariant: its guards tie the decision to  *)
(* the head, the champion and the document it replaces.                    *)
LEMMA CommitStep ==
  ASSUME SInv, NEW j \in Jobs, Commit(j)
  PROVE  SInv'
<1> DEFINE x == job[j]
<1>1. x \in Payload /\ x # NoPayload /\ documents \subseteq documents' /\ TypeOK' /\ EpochsExact'
  BY Zenon, CommitEffects DEF Commit
<1>2. PICK e \in Nat \ {0} :
        /\ [epoch |-> e, version |-> x.version, lifecycle |-> x.next] \in documents'
        /\ decided' = [decided EXCEPT ![j] = e]
        /\ \A w \in Versions, q \in Policies :
             head'[w][q] = IF w = x.version /\ q = x.policy
                           THEN [state |-> x.next, epoch |-> e] ELSE head[w][q]
  BY Zenon, CommitEffects
<1>3. UNCHANGED <<projectionVars, job>>
  BY Zenon, CommitEffects
<1>4. \A k \in Jobs : decided'[k] = IF k = j THEN e ELSE decided[k]
  BY Zenon, <1>2 DEF SInv, TypeOK
<1>5. SupportFinite' /\ EvidenceCounted'
  BY Zenon, <1>3 DEF SInv, SupportFinite, Support, EvidenceCounted, projectionVars
<1>6. HeadsServed'
  BY <1>1, <1>2 DEF SInv, HeadsServed, Served
<1>7. PayloadsSealed'
  BY Zenon, <1>1, <1>3, <1>4 DEF SInv, PayloadsSealed, Served
<1>8. DecisionsServed'
  BY <1>1, <1>2, <1>3, <1>4 DEF SInv, DecisionsServed
<1> QED
  BY Zenon, <1>1, <1>5, <1>6, <1>7, <1>8, ChampionStep DEF SInv

(* Each action keeps the invariant.                                        *)
LEMMA ServingStep == SInv /\ [Next]_vars => SInv'
<1> SUFFICES ASSUME SInv, [Next]_vars PROVE SInv'
  BY Zenon
<1>1. ASSUME NEW m \in Manifests, Publish(m) PROVE SInv'
  BY Zenon, <1>1, PublishEffects, ServedStays DEF SInv
<1>2. ASSUME NEW j \in Jobs, NewLifecyclePayload(j) PROVE SInv'
  BY Zenon, <1>2, PayloadStep
<1>3. ASSUME NEW j \in Jobs, Commit(j) PROVE SInv'
  BY Zenon, <1>3, CommitStep
<1>4. CASE UNCHANGED vars
  <2>1. TypeOK' /\ EpochsExact' /\ SupportFinite' /\ EvidenceCounted'
    BY <1>4 DEF vars, projectionVars, lifecycleVars, SInv, TypeOK, EpochsExact, SupportFinite, Support,
                EvidenceCounted
  <2> QED
    BY Zenon, <1>4, <2>1, ServedStays DEF vars, SInv
<1> QED
  BY Zenon, <1>1, <1>2, <1>3, <1>4 DEF Next

(* Every state that evidence publications and lifecycle commits reach, in  *)
(* any order, satisfies the inductive invariant (projection.go:68-201,     *)
(* lifecycle.go:66-136).                                                   *)
THEOREM ServingInvariant == Spec => []SInv
<1> QED
  BY ServingStarts, ServingStep, PTL DEF Spec

(* Every variable keeps its type whatever is published and decided.        *)
THEOREM ServingTypes == Spec => []TypeOK
<1>1. SInv => TypeOK
  BY Zenon DEF SInv
<1> QED
  BY <1>1, ServingInvariant, PTL

(* For every number of publishers and decisions, each projection epoch has *)
(* exactly one document and the head is the last of them                   *)
(* (projection.go:203-304).                                                *)
THEOREM EpochsAreExact == Spec => []EpochsExact
<1>1. SInv => EpochsExact
  BY Zenon DEF SInv
<1> QED
  BY <1>1, ServingInvariant, PTL

(* A version's success count is the number of distinct outcomes that       *)
(* support it, for any number of manifests (projection.go:148-161).        *)
THEOREM EvidenceIsCounted == Spec => []EvidenceCounted
<1>1. SInv => EvidenceCounted
  BY Zenon DEF SInv
<1> QED
  BY <1>1, ServingInvariant, PTL

(* Under every policy a family's champion is its one active version,       *)
(* however publications interleave (lifecycle.go:97-131).                  *)
THEOREM ChampionsAreActive == Spec => []ChampionIsActiveHead
<1>1. SInv => ChampionIsActiveHead
  BY Zenon DEF SInv
<1> QED
  BY <1>1, ServingInvariant, PTL

(* Every decision row names a document that serves what it decided         *)
(* (lifecycle.go:104-121).                                                 *)
THEOREM DecisionsAreServed == Spec => []DecisionsServed
<1>1. SInv => DecisionsServed
  BY Zenon DEF SInv
<1> QED
  BY <1>1, ServingInvariant, PTL
-----------------------------------------------------------------------------
(* A document at the next epoch is outside every snapshot taken so far.    *)
LEMMA AppendKeepsSnapshots ==
  ASSUME TypeOK, EpochsExact, NEW v \in Versions, NEW state \in States,
         publishRetrievalDocument(v, state), NEW epoch \in 1..current
  PROVE  Snapshot(epoch)' = Snapshot(epoch)
<1> DEFINE new == [epoch |-> current + 1, version |-> v, lifecycle |-> state]
<1>1. documents' = documents \cup {new} /\ current \in Nat /\ new.epoch = current + 1
  BY Zenon DEF publishRetrievalDocument, TypeOK
<1> HIDE DEF new
<1>2. ~(new.epoch <= epoch)
  BY <1>1
<1>3. \A d \in documents' : d.epoch <= epoch => d \in documents
  BY Zenon, <1>1, <1>2
<1> QED
  BY Zenon, <1>1, <1>2, <1>3 DEF Snapshot, DocumentsOf

(* No step changes the snapshot of an epoch that exists: a publication     *)
(* only appends, at the next epoch.                                        *)
LEMMA SnapshotStep ==
  SInv /\ [Next]_vars => \A epoch \in 1..current : Snapshot(epoch)' = Snapshot(epoch)
<1> SUFFICES ASSUME SInv, [Next]_vars, NEW epoch \in 1..current
             PROVE  Snapshot(epoch)' = Snapshot(epoch)
  BY Zenon
<1>1. TypeOK /\ EpochsExact /\ "candidate" \in States
  BY Zenon DEF SInv, States
<1>2. ASSUME UNCHANGED documents PROVE Snapshot(epoch)' = Snapshot(epoch)
  BY Zenon, <1>2 DEF Snapshot, DocumentsOf
<1>3. ASSUME NEW m \in Manifests, Publish(m) PROVE Snapshot(epoch)' = Snapshot(epoch)
  BY Zenon, <1>1, <1>2, <1>3, PublishEffects, AppendKeepsSnapshots
<1>4. ASSUME NEW j \in Jobs, NewLifecyclePayload(j) PROVE Snapshot(epoch)' = Snapshot(epoch)
  BY Zenon, <1>2, <1>4 DEF NewLifecyclePayload
<1>5. ASSUME NEW j \in Jobs, Commit(j) PROVE Snapshot(epoch)' = Snapshot(epoch)
  <2>1. /\ job[j].version \in Versions /\ job[j].next \in States
        /\ \/ UNCHANGED <<documents, current>>
           \/ publishRetrievalDocument(job[j].version, job[j].next)
    BY Zenon, <1>5, CommitEffects DEF Payload
  <2> QED
    BY Zenon, <1>1, <1>2, <2>1, AppendKeepsSnapshots
<1>6. CASE UNCHANGED vars
  BY Zenon, <1>2, <1>6 DEF vars
<1> QED
  BY Zenon, <1>3, <1>4, <1>5, <1>6 DEF Next

(* A reader pinned to an epoch that exists sees the same documents after   *)
(* every step of every publisher, for ever (projection.go:632-672).        *)
THEOREM PinnedReadersAreStable == Spec => SnapshotsStable
<1>1. SInv /\ [Next]_vars => [\A epoch \in 1..current : Snapshot(epoch)' = Snapshot(epoch)]_vars
  BY Zenon, SnapshotStep
<1> QED
  BY <1>1, ServingInvariant, PTL DEF Spec, SnapshotsStable

(* No step moves a retired or quarantined head: a sealed payload starts    *)
(* from the state it read, and no decision leaves a terminal one.          *)
LEMMA TerminalStep ==
  SInv /\ [Next]_vars =>
    \A v \in Versions, p \in Policies :
      head[v][p].state \in {"retired", "quarantined"} => head'[v][p].state = head[v][p].state
<1> SUFFICES ASSUME SInv, [Next]_vars, NEW v \in Versions, NEW p \in Policies,
                    head[v][p].state \in {"retired", "quarantined"}
             PROVE  head'[v][p].state = head[v][p].state
  BY Zenon
<1>1. ASSUME UNCHANGED head PROVE head'[v][p].state = head[v][p].state
  BY Zenon, <1>1
<1>2. ASSUME NEW j \in Jobs, Commit(j) PROVE head'[v][p].state = head[v][p].state
  <2> DEFINE x == job[j]
  <2>1. /\ x # NoPayload /\ x \in Payload /\ SourceCurrent(x)
        /\ x.next \in transition(x.prior)
    BY Zenon, <1>2, CommitEffects DEF SInv, PayloadsSealed, Commit
  <2>2. PICK e \in Nat \ {0} :
          /\ [epoch |-> e, version |-> x.version, lifecycle |-> x.next] \in documents'
          /\ decided' = [decided EXCEPT ![j] = e]
          /\ \A w \in Versions, q \in Policies :
               head'[w][q] = IF w = x.version /\ q = x.policy
                             THEN [state |-> x.next, epoch |-> e] ELSE head[w][q]
    BY Zenon, <1>2, CommitEffects
  <2> HIDE DEF x
  <2>3. CASE v = x.version /\ p = x.policy
    <3>1. head[v][p] # NoHead
      BY DEF NoHead
    <3>2. head[v][p].state = x.prior
      BY <2>1, <2>3, <3>1 DEF SourceCurrent
    <3>3. x.next = x.prior
      BY Zenon, <2>1, <3>2 DEF transition
    <3>4. head'[v][p] = [state |-> x.next, epoch |-> e]
      BY Zenon, <2>2, <2>3
    <3> QED
      BY <3>2, <3>3, <3>4
  <2>4. CASE ~(v = x.version /\ p = x.policy)
    BY Zenon, <2>2, <2>4
  <2> QED
    BY Zenon, <2>3, <2>4
<1> QED
  BY Zenon, <1>1, <1>2 DEF Next, Publish, NewLifecyclePayload, vars, lifecycleVars

(* No decision takes a version out of retirement or quarantine under its   *)
(* policy, whatever payloads were computed before and however late they    *)
(* are committed (evaluate.go:96-98, lifecycle.go:86-96).                  *)
THEOREM TerminalStatesStay == Spec => TerminalHeadsStay
<1>1. SInv /\ [Next]_vars =>
        [\A v \in Versions, p \in Policies :
           head[v][p].state \in {"retired", "quarantined"} => head'[v][p].state = head[v][p].state]_vars
  BY Zenon, TerminalStep
<1> QED
  BY <1>1, ServingInvariant, PTL DEF Spec, TerminalHeadsStay
-----------------------------------------------------------------------------
(* The maintenance queue.                                                  *)


(* The maintenance queue around the projection.  Every step of the         *)
(* composition is a step of the projection or leaves it alone.             *)
LEMMA QueueStepServes == [MNext]_mvars => [Next]_vars
<1> SUFFICES ASSUME [MNext]_mvars PROVE [Next]_vars
  BY Zenon
<1>1. CASE UNCHANGED mvars
  BY Zenon, <1>1 DEF mvars
<1>2. CASE Publishes
  BY Zenon, <1>2 DEF Publishes, Next
<1>3. ASSUME NEW j \in Jobs, DatabaseCommits(j) PROVE [Next]_vars
  BY Zenon, <1>3 DEF DatabaseCommits, Next
<1>4. ASSUME UNCHANGED vars PROVE [Next]_vars
  BY Zenon, <1>4
<1>5. ASSUME NEW j \in Jobs, Enqueue(j) PROVE UNCHANGED vars
  BY Zenon, <1>5 DEF Enqueue
<1>6. ASSUME NEW p \in Processes, Claim(p) \/ Exit(p) \/ Crash(p) PROVE UNCHANGED vars
  BY Zenon, <1>6 DEF Claim, Exit, Crash
<1>7. ASSUME NEW p \in Processes, NEW j \in Jobs, processLease(p, j) PROVE UNCHANGED vars
  BY Zenon, <1>7 DEF processLease, Handle, HandlerSucceeds, HandlerConflicts, HandlerErrs, Complete, Fail,
              StaleLease, TransitionFails
<1>8. CASE Tick
  BY Zenon, <1>8 DEF Tick
<1> QED
  BY Zenon, <1>1, <1>2, <1>3, <1>4, <1>5, <1>6, <1>7, <1>8 DEF MNext

(* The queue adds no behaviour to the projection: leases, retries, lost    *)
(* answers, crashes and commits that take effect late are all behaviours   *)
(* of Serving, so every theorem above holds of the composed system         *)
(* (maintenance/runner.go:118-139, store/surreal/lifecycle.go:66-136).     *)
THEOREM QueueImplementsServing == MSpec => Spec
<1>1. MInit => Init
  BY Zenon DEF MInit
<1> QED
  BY <1>1, QueueStepServes, PTL DEF MSpec, Spec

(* A superseded source is not the latest document any more.                *)
LEMMA SupersededStep ==
  SInv /\ [MNext]_mvars => \A j \in Jobs : Superseded(j) => decided'[j] = decided[j]
<1> SUFFICES ASSUME SInv, [MNext]_mvars, NEW j \in Jobs, Superseded(j)
             PROVE  decided'[j] = decided[j]
  BY Zenon
<1>1. [Next]_vars
  BY Zenon, QueueStepServes
<1>2. ASSUME NEW k \in Jobs, Commit(k) PROVE decided'[j] = decided[j]
  <2>1. k # j
    <3> SUFFICES ASSUME k = j PROVE FALSE
      BY Zenon
    <3>1. SourceCurrent(job[j]) /\ \A d \in documents : d.epoch \in Nat
      BY Zenon, <1>2, CommitEffects DEF SInv, TypeOK, Document
    <3> QED
      BY <3>1 DEF SourceCurrent, IsLatest, Superseded, DocumentsOf
  <2> QED
    BY Zenon, <1>2, <2>1 DEF Commit, SInv, TypeOK
<1> QED
  BY Zenon, <1>1, <1>2 DEF Next, Publish, NewLifecyclePayload, vars, lifecycleVars

(* A job whose source document has been superseded never decides anything, *)
(* for any number of workers and however late its commit is                *)
(* (store/surreal/lifecycle.go:86-96).                                     *)
THEOREM SupersededJobsAreInert == MSpec => SupersededNeverDecides
<1>1. SInv /\ [MNext]_mvars =>
        [\A j \in Jobs : Superseded(j) => decided'[j] = decided[j]]_mvars
  BY Zenon, SupersededStep
<1>2. MSpec => []SInv
  BY QueueImplementsServing, ServingInvariant, PTL
<1> QED
  BY <1>1, <1>2, PTL DEF MSpec, SupersededNeverDecides

-----------------------------------------------------------------------------
(* The queue's own invariant.  A lease being worked on has a fencing token *)
(* its row has issued, no two of one job share a token, what is on its way *)
(* to the database is queued, and success is reported after a decision.    *)
JobRow == [state : {"absent", "pending", "leased", "completed", "dead_letter"},
           owner : Owners \cup {None}, fencing : Nat, expires : 0..LeaseDuration,
           available : 0..(MaximumBackoff + MaxSkew), attempts : Nat]
Phases == {"none", "handle", "sent", "handled", "failed"}
Work == [phase : Phases, fencing : Nat, attempt : Nat]

QueueTypes ==
  /\ row \in [Jobs -> JobRow]
  /\ work \in [Processes -> [Jobs -> Work]]
  /\ failing \in [Processes -> BOOLEAN]
  /\ committing \subseteq Jobs
  /\ faults \in 0..MaxFaults

TokensIssued ==
  \A p \in Processes, j \in Jobs : work[p][j] # NoWork =>
    /\ row[j].state # "absent" /\ work[p][j].fencing <= row[j].fencing
    /\ work[p][j].attempt > 0

TokensUnique ==
  \A j \in Jobs, p, q \in Processes :
    work[p][j] # NoWork /\ work[q][j] # NoWork /\ p # q => work[p][j].fencing # work[q][j].fencing

CommitsQueued == \A j \in committing : row[j].state # "absent"

ReportsDecided ==
  \A p \in Processes, j \in Jobs : work[p][j].phase = "handled" => decided[j] # 0

QInv ==
  /\ QueueTypes /\ TokensIssued /\ TokensUnique /\ CommitsQueued
  /\ ReportsDecided /\ CompletedDecided

(* What Moves changes, seen from one process and one job.                  *)
LEMMA MovesPointwise ==
  ASSUME QueueTypes, NEW p \in Processes, NEW j \in Jobs, NEW phase \in Phases, Moves(p, j, phase)
  PROVE  /\ work' \in [Processes -> [Jobs -> Work]]
         /\ \A q \in Processes, k \in Jobs :
              work'[q][k] = IF q = p /\ k = j THEN [work[p][j] EXCEPT !.phase = phase] ELSE work[q][k]
<1> DEFINE new == [work[p][j] EXCEPT !.phase = phase]
<1>1. work \in [Processes -> [Jobs -> Work]] /\ work[p][j] \in Work
  BY Zenon DEF QueueTypes
<1>2. new \in Work
  BY Zenon, <1>1 DEF Work
<1>3. work' = [work EXCEPT ![p] = [work[p] EXCEPT ![j] = new]]
  BY Zenon DEF Moves
<1> HIDE DEF new
<1>4. [work[p] EXCEPT ![j] = new] \in [Jobs -> Work]
  BY Zenon, <1>1, <1>2
<1>5. work' \in [Processes -> [Jobs -> Work]]
  BY Zenon, <1>1, <1>3, <1>4
<1>6. \A q \in Processes, k \in Jobs : work'[q][k] = IF q = p /\ k = j THEN new ELSE work[q][k]
  BY Zenon, <1>1, <1>3, <1>4
<1> QED
  BY Zenon, <1>5, <1>6 DEF new

(* What Ends changes, seen from one process and one job.                   *)
LEMMA EndsPointwise ==
  ASSUME QueueTypes, NEW p \in Processes, NEW j \in Jobs, Ends(p, j)
  PROVE  /\ work' \in [Processes -> [Jobs -> Work]]
         /\ \A q \in Processes, k \in Jobs :
              work'[q][k] = IF q = p /\ k = j THEN NoWork ELSE work[q][k]
<1>1. work \in [Processes -> [Jobs -> Work]] /\ NoWork \in Work
  BY Zenon DEF QueueTypes, NoWork, Work, Phases
<1>2. work' = [work EXCEPT ![p] = [work[p] EXCEPT ![j] = NoWork]]
  BY Zenon DEF Ends
<1>3. [work[p] EXCEPT ![j] = NoWork] \in [Jobs -> Work]
  BY Zenon, <1>1
<1> QED
  BY Zenon, <1>1, <1>2, <1>3

(* A counted fault stays within its bound.                                 *)
LEMMA QueueFault == ASSUME QueueTypes, Fault PROVE faults' \in 0..MaxFaults
  BY MaintenanceAssumption DEF QueueTypes, Fault

(* What the runner reports of a lease it ended is of the type of its       *)
(* answers.                                                                *)
LEMMA AnswerTypes ==
  ASSUME QueueTypes, NEW p \in Processes, AnswerOrLost(p)
  PROVE  failing' \in [Processes -> BOOLEAN] /\ faults' \in 0..MaxFaults
  BY Zenon, QueueFault DEF QueueTypes, AnswerOrLost, Errs

(* A released row keeps its token and is due again within the longest      *)
(* delay that backoff and skew allow.                                      *)
LEMMA ReleasedRow ==
  ASSUME QueueTypes, NEW j \in Jobs, NEW state \in {"pending", "completed", "dead_letter"},
         NEW available \in 0..(MaximumBackoff + MaxSkew)
  PROVE  /\ Released(j, state, available) \in JobRow
         /\ Released(j, state, available).state = state
         /\ Released(j, state, available).fencing = row[j].fencing
<1>1. row[j] \in JobRow /\ 0 \in 0..LeaseDuration
  BY MaintenanceAssumption DEF QueueTypes
<1> QED
  BY Zenon, <1>1 DEF Released, JobRow

(* The retry time of a failed job is a number of ticks within the backoff  *)
(* and the clock skew.                                                     *)
LEMMA RetryInRange ==
  ASSUME NEW attempt \in Nat \ {0}, NEW dead \in BOOLEAN,
         NEW t \in RetryAt(IF dead THEN 0 ELSE Backoff(attempt))
  PROVE  t \in 0..(MaximumBackoff + MaxSkew)
<1> DEFINE shift == IF attempt - 1 < 20 THEN attempt - 1 ELSE 20
           delay == IF dead THEN 0 ELSE Backoff(attempt)
<1>1. shift \in Nat
  OBVIOUS
<1>2. Backoff(attempt) = IF 2^shift < MaximumBackoff THEN 2^shift ELSE MaximumBackoff
  BY Zenon DEF Backoff
<1> HIDE DEF shift
<1>3. 2^shift \in Int
  BY <1>1
<1>4. delay \in Int /\ delay <= MaximumBackoff
  BY <1>2, <1>3, MaintenanceAssumption
<1>5. t \in 0..(delay + MaxSkew)
  BY Zenon DEF RetryAt
<1> HIDE DEF delay
<1> QED
  BY <1>4, <1>5, MaintenanceAssumption

(* Fail releases the row: pending again at a later time, or dead.          *)
LEMMA FailReleases ==
  ASSUME NEW p \in Processes, NEW j \in Jobs, Fail(p, j)
  PROVE  \E state \in {"pending", "dead_letter"}, available \in Nat :
           row' = [row EXCEPT ![j] = Released(j, state, available)]
<1> DEFINE dead == work[p][j].attempt >= MaximumAttempts
           state == IF dead THEN "dead_letter" ELSE "pending"
           delay == IF dead THEN 0 ELSE Backoff(work[p][j].attempt)
<1>1. PICK available \in RetryAt(delay) : row' = [row EXCEPT ![j] = Released(j, state, available)]
  BY Zenon DEF Fail
<1>2. available \in Nat
  BY DEF RetryAt
<1>3. state \in {"pending", "dead_letter"}
  BY Zenon
<1> HIDE DEF state, delay
<1> QED
  BY Zenon, <1>1, <1>2, <1>3

(* Every action of the queue keeps its variables in their types.           *)
LEMMA QueueTypeStep == QInv /\ [MNext]_mvars => QueueTypes'
<1> SUFFICES ASSUME QInv, [MNext]_mvars PROVE QueueTypes'
  BY Zenon
<1>0. QueueTypes
  BY Zenon DEF QInv
<1>a. \A k \in Jobs : row[k] \in JobRow
  BY Zenon, <1>0 DEF QueueTypes
<1>b. \A q \in Processes, k \in Jobs : work[q][k] \in Work
  BY Zenon, <1>0 DEF QueueTypes
<1>c. "sent" \in Phases /\ "failed" \in Phases /\ "handled" \in Phases /\ NoWork \in Work
  BY Zenon DEF Phases, NoWork, Work
<1>1. ASSUME Publishes \/ UNCHANGED mvars PROVE QueueTypes'
  BY Zenon, <1>0, <1>1 DEF QueueTypes, Publishes, mvars, queueVars
<1>2. ASSUME NEW j \in Jobs, Enqueue(j) PROVE QueueTypes'
  <2>1. [NoRow EXCEPT !.state = "pending"] \in JobRow
    BY MaintenanceAssumption DEF NoRow, JobRow
  <2> QED
    BY Zenon, <1>0, <1>2, <2>1 DEF QueueTypes, Enqueue
<1>3. ASSUME NEW j \in Jobs, DatabaseCommits(j) PROVE QueueTypes'
  BY Zenon, <1>0, <1>3 DEF QueueTypes, DatabaseCommits
<1>4. ASSUME NEW p \in Processes, Claim(p) PROVE QueueTypes'
  <2>1. PICK batch :
          /\ row' = [j \in Jobs |-> IF j \notin batch THEN row[j] ELSE
               [row[j] EXCEPT !.state = "leased", !.owner = WorkerID[p], !.fencing = @ + 1,
                              !.expires = LeaseDuration, !.attempts = @ + 1]]
          /\ work' = [work EXCEPT ![p] = [j \in Jobs |-> IF j \notin batch THEN NoWork ELSE
               [phase |-> "handle", fencing |-> row[j].fencing + 1, attempt |-> row[j].attempts + 1]]]
    BY Zenon, <1>4 DEF Claim
  <2>2. ASSUME NEW j \in Jobs
        PROVE  /\ [row[j] EXCEPT !.state = "leased", !.owner = WorkerID[p], !.fencing = @ + 1,
                                 !.expires = LeaseDuration, !.attempts = @ + 1] \in JobRow
               /\ [phase |-> "handle", fencing |-> row[j].fencing + 1, attempt |-> row[j].attempts + 1]
                    \in Work
    <3>1. row[j].fencing + 1 \in Nat /\ row[j].attempts + 1 \in Nat
      BY <1>a DEF JobRow
    <3>2. WorkerID[p] \in Owners \cup {None} /\ LeaseDuration \in 0..LeaseDuration
      BY MaintenanceAssumption
    <3> QED
      BY Zenon, <1>a, <3>1, <3>2 DEF JobRow, Work, Phases
  <2>3. row' \in [Jobs -> JobRow]
    BY Zenon, <1>a, <2>1, <2>2
  <2>4. work' \in [Processes -> [Jobs -> Work]]
    <3> DEFINE new == [j \in Jobs |-> IF j \notin batch THEN NoWork ELSE
               [phase |-> "handle", fencing |-> row[j].fencing + 1, attempt |-> row[j].attempts + 1]]
    <3>1. new \in [Jobs -> Work]
      BY Zenon, <1>c, <2>2
    <3>2. work' = [work EXCEPT ![p] = new]
      BY Zenon, <2>1
    <3> HIDE DEF new
    <3> QED
      BY Zenon, <1>0, <3>1, <3>2 DEF QueueTypes
  <2> QED
    BY Zenon, <1>0, <1>4, <2>3, <2>4 DEF QueueTypes, Claim
<1>5. ASSUME NEW p \in Processes, Exit(p) PROVE QueueTypes'
  BY Zenon, <1>0, <1>5 DEF QueueTypes, Exit
<1>6. ASSUME NEW p \in Processes, Crash(p) PROVE QueueTypes'
  BY Zenon, <1>0, <1>c, <1>6, QueueFault DEF QueueTypes, Crash
<1>7. ASSUME NEW p \in Processes, NEW j \in Jobs, Handle(p, j) PROVE QueueTypes'
  <2>1. /\ Moves(p, j, "sent") \/ Moves(p, j, "failed")
        /\ committing' \subseteq committing \cup {j} /\ UNCHANGED <<row, failing, faults>>
    BY Zenon, <1>7 DEF Handle
  <2>2. work' \in [Processes -> [Jobs -> Work]]
    BY Zenon, <1>0, <1>c, <2>1, MovesPointwise
  <2> QED
    BY Zenon, <1>0, <2>1, <2>2 DEF QueueTypes
<1>8. ASSUME NEW p \in Processes, NEW j \in Jobs,
             HandlerSucceeds(p, j) \/ HandlerConflicts(p, j) \/ HandlerErrs(p, j)
      PROVE  QueueTypes'
  BY Zenon, <1>0, <1>c, <1>8, MovesPointwise, QueueFault
     DEF QueueTypes, HandlerSucceeds, HandlerConflicts, HandlerErrs
<1>9. ASSUME NEW p \in Processes, NEW j \in Jobs, Complete(p, j) PROVE QueueTypes'
  <2>1. row[j].available \in 0..(MaximumBackoff + MaxSkew)
    BY Zenon, <1>a DEF JobRow
  <2>2. row' \in [Jobs -> JobRow]
    BY Zenon, <1>0, <1>9, <2>1, ReleasedRow DEF Complete, QueueTypes
  <2> QED
    BY Zenon, <1>0, <1>9, <2>2, EndsPointwise, AnswerTypes DEF QueueTypes, Complete
<1>10. ASSUME NEW p \in Processes, NEW j \in Jobs, Fail(p, j) PROVE QueueTypes'
  <2> DEFINE dead == work[p][j].attempt >= MaximumAttempts
             state == IF dead THEN "dead_letter" ELSE "pending"
             delay == IF dead THEN 0 ELSE Backoff(work[p][j].attempt)
  <2>1. work[p][j].attempt \in Nat \ {0} /\ dead \in BOOLEAN /\ state \in {"pending", "completed", "dead_letter"}
    <3>1. work[p][j] # NoWork
      BY <1>10 DEF Fail, NoWork
    <3> QED
      BY <1>b, <3>1 DEF QInv, TokensIssued, Work
  <2>2. PICK available \in RetryAt(delay) : row' = [row EXCEPT ![j] = Released(j, state, available)]
    BY Zenon, <1>10 DEF Fail
  <2>3. available \in 0..(MaximumBackoff + MaxSkew)
    BY Zenon, <2>1, RetryInRange
  <2> HIDE DEF dead, state, delay
  <2>4. Released(j, state, available) \in JobRow
    BY Zenon, <1>0, <2>1, <2>3, ReleasedRow
  <2>5. row' \in [Jobs -> JobRow]
    BY Zenon, <1>0, <2>2, <2>4 DEF QueueTypes
  <2> QED
    BY Zenon, <1>0, <1>10, <2>5, EndsPointwise, AnswerTypes DEF QueueTypes, Fail
<1>11. ASSUME NEW p \in Processes, NEW j \in Jobs, StaleLease(p, j) \/ TransitionFails(p, j)
       PROVE  QueueTypes'
  BY Zenon, <1>0, <1>11, EndsPointwise, QueueFault DEF QueueTypes, StaleLease, TransitionFails, Errs
<1>12. ASSUME Tick PROVE QueueTypes'
  <2>1. ASSUME NEW k \in Jobs
        PROVE  [row[k] EXCEPT !.expires = Before(@), !.available = Before(@)] \in JobRow
    <3>1. /\ Before(row[k].expires) \in 0..LeaseDuration
          /\ Before(row[k].available) \in 0..(MaximumBackoff + MaxSkew)
      BY <1>a, MaintenanceAssumption DEF JobRow, Before
    <3> QED
      BY Zenon, <1>a, <3>1 DEF JobRow
  <2>2. row' \in [Jobs -> JobRow]
    BY Zenon, <1>12, <2>1 DEF Tick
  <2> QED
    BY Zenon, <1>0, <1>12, <2>2, QueueFault DEF QueueTypes, Tick
<1> QED
  BY Zenon, <1>1, <1>2, <1>3, <1>4, <1>5, <1>6, <1>7, <1>8, <1>9, <1>10, <1>11, <1>12
     DEF MNext, processLease

(* A step that issues no token keeps the invariant when each lease still   *)
(* worked on keeps its token, and completion follows a decision.           *)
Quiet ==
  /\ \A k \in Jobs : /\ row'[k].fencing = row[k].fencing
                     /\ row[k].state # "absent" => row'[k].state # "absent"
                     /\ row'[k].state = "completed" => decided'[k] # 0
  /\ \A q \in Processes, k \in Jobs :
       /\ work'[q][k] # NoWork =>
            /\ work[q][k] # NoWork /\ work'[q][k].fencing = work[q][k].fencing
            /\ work'[q][k].attempt = work[q][k].attempt
       /\ work'[q][k].phase = "handled" => decided'[k] # 0
  /\ \A k \in committing' : k \in Jobs /\ (k \in committing \/ \E q \in Processes : work[q][k] # NoWork)

(* A step that issues no token and queues no new job keeps the invariant   *)
(* of the queue.                                                           *)
LEMMA QuietStep == QInv /\ QueueTypes' /\ Quiet => QInv'
<1> SUFFICES ASSUME QInv, QueueTypes', Quiet PROVE QInv'
  BY Zenon
<1>1. TokensIssued'
  BY Zenon DEF QInv, TokensIssued, Quiet
<1>2. TokensUnique'
  BY DEF QInv, TokensUnique, Quiet
<1>3. CommitsQueued'
  BY Zenon DEF QInv, CommitsQueued, TokensIssued, Quiet
<1>4. ReportsDecided' /\ CompletedDecided'
  BY Zenon DEF ReportsDecided, CompletedDecided, Quiet
<1> QED
  BY Zenon, <1>1, <1>2, <1>3, <1>4 DEF QInv

(* Decisions are kept: no step takes one back.                             *)
LEMMA DecisionsKept ==
  ASSUME SInv, [MNext]_mvars
  PROVE  \A k \in Jobs : decided[k] # 0 => decided'[k] # 0
<1>1. [Next]_vars
  BY Zenon, QueueStepServes
<1>2. ASSUME NEW j \in Jobs, Commit(j) PROVE \A k \in Jobs : decided[k] # 0 => decided'[k] # 0
  <2>1. decided[j] = 0 /\ \A k \in Jobs : k # j => decided'[k] = decided[k]
    BY Zenon, <1>2 DEF Commit, SInv, TypeOK
  <2> QED
    BY Zenon, <2>1
<1> QED
  BY Zenon, <1>1, <1>2 DEF Next, Publish, NewLifecyclePayload, vars, lifecycleVars

(* Each action keeps the invariant.  Claiming is the one that issues a     *)
(* token: it is larger than every token in use.                            *)
LEMMA QueueStep == SInv /\ QInv /\ [MNext]_mvars => QInv'
<1> SUFFICES ASSUME SInv, QInv, [MNext]_mvars PROVE QInv'
  BY Zenon
<1>0. QueueTypes /\ QueueTypes'
  BY Zenon, QueueTypeStep DEF QInv
<1>a. \A k \in Jobs : row[k] \in JobRow
  BY Zenon, <1>0 DEF QueueTypes
<1>b. \A q \in Processes, k \in Jobs : work[q][k] \in Work
  BY Zenon, <1>0 DEF QueueTypes
<1>c. /\ \A k \in Jobs : row[k].state = "completed" => decided'[k] # 0
      /\ \A q \in Processes, k \in Jobs : work[q][k].phase = "handled" => decided'[k] # 0
  BY Zenon, DecisionsKept DEF QInv, CompletedDecided, ReportsDecided
<1>d. committing \subseteq Jobs /\ NoWork.phase = "none"
  BY Zenon, <1>0 DEF QueueTypes, NoWork
<1>1. ASSUME row' = row, work' = work, committing' \subseteq committing PROVE QInv'
  <2>1. Quiet
    BY Zenon, <1>1, <1>c, <1>d DEF Quiet
  <2> QED
    BY Zenon, <1>0, <2>1, QuietStep
<1>2. ASSUME Publishes \/ UNCHANGED mvars PROVE QInv'
  BY Zenon, <1>1, <1>2 DEF Publishes, mvars, queueVars
<1>3. ASSUME NEW j \in Jobs, Enqueue(j) PROVE QInv'
  <2>1. /\ row'[j].state = "pending" /\ row'[j].fencing = row[j].fencing
        /\ \A k \in Jobs : k # j => row'[k] = row[k]
    BY Zenon, <1>0, <1>3 DEF Enqueue, QueueTypes, NoRow
  <2>2. UNCHANGED <<work, committing>>
    BY Zenon, <1>3 DEF Enqueue
  <2>3. Quiet
    BY Zenon, <1>c, <1>d, <2>1, <2>2 DEF Quiet
  <2> QED
    BY Zenon, <1>0, <2>3, QuietStep
<1>4. ASSUME NEW j \in Jobs, DatabaseCommits(j) PROVE QInv'
  BY Zenon, <1>1, <1>4 DEF DatabaseCommits
<1>5. ASSUME NEW p \in Processes, Claim(p) PROVE QInv'
  <2> DEFINE ready == {j \in Jobs : Claimable(j)}
  <2>1. PICK batch \in SUBSET ready :
          /\ row' = [j \in Jobs |-> IF j \notin batch THEN row[j] ELSE
               [row[j] EXCEPT !.state = "leased", !.owner = WorkerID[p], !.fencing = @ + 1,
                              !.expires = LeaseDuration, !.attempts = @ + 1]]
          /\ work' = [work EXCEPT ![p] = [j \in Jobs |-> IF j \notin batch THEN NoWork ELSE
               [phase |-> "handle", fencing |-> row[j].fencing + 1, attempt |-> row[j].attempts + 1]]]
    BY Zenon, <1>5 DEF Claim
  <2>2. UNCHANGED <<decided, committing>>
    BY Zenon, <1>5 DEF Claim, vars, lifecycleVars
  <2>3. ASSUME NEW k \in Jobs
        PROVE  /\ row'[k].fencing = IF k \in batch THEN row[k].fencing + 1 ELSE row[k].fencing
               /\ row'[k].state = IF k \in batch THEN "leased" ELSE row[k].state
    BY Zenon, <1>a, <2>1 DEF JobRow
  <2>4. ASSUME NEW k \in Jobs
        PROVE  /\ k \notin batch => work'[p][k] = NoWork
               /\ k \in batch => /\ work'[p][k].fencing = row[k].fencing + 1
                                 /\ work'[p][k].attempt = row[k].attempts + 1
                                 /\ work'[p][k].phase = "handle"
    BY Zenon, <1>0, <2>1 DEF QueueTypes
  <2>5. ASSUME NEW q \in Processes, q # p, NEW k \in Jobs
        PROVE  work'[q][k] = work[q][k]
    BY Zenon, <1>0, <2>1, <2>5 DEF QueueTypes
  <2>6. \A k \in Jobs : k \in batch => row[k].state # "absent"
    BY Zenon DEF Claimable
  <2>7. ASSUME NEW q \in Processes, NEW k \in Jobs, q # p, work[q][k] # NoWork
        PROVE  /\ work[q][k].fencing < row[k].fencing + 1 /\ row[k].state # "absent"
               /\ work[q][k].attempt > 0
    <3>1. /\ row[k].state # "absent" /\ work[q][k].fencing <= row[k].fencing
          /\ work[q][k].attempt > 0
      BY Zenon, <2>7 DEF QInv, TokensIssued
    <3>2. work[q][k].fencing \in Nat /\ row[k].fencing \in Nat
      BY Zenon, <1>a, <1>b DEF JobRow, Work
    <3> QED
      BY <3>1, <3>2
  <2>8. \A k \in Jobs : row[k].fencing \in Nat /\ row[k].attempts \in Nat
    BY Zenon, <1>a DEF JobRow
  <2> HIDE DEF ready
  <2>9. TokensIssued'
    <3> SUFFICES ASSUME NEW q \in Processes, NEW k \in Jobs, work'[q][k] # NoWork
                 PROVE  /\ row'[k].state # "absent" /\ work'[q][k].fencing <= row'[k].fencing
                        /\ work'[q][k].attempt > 0
      BY Zenon DEF TokensIssued
    <3>1. CASE q = p
      BY <3>1, <2>3, <2>4, <2>8
    <3>2. CASE q # p
      <4>1. work[q][k].fencing \in Nat
        BY Zenon, <1>b DEF Work
      <4> QED
        BY <3>2, <4>1, <2>3, <2>5, <2>7, <2>8 DEF QInv, TokensIssued
    <3> QED
      BY Zenon, <3>1, <3>2
  <2>10. TokensUnique'
    <3> SUFFICES ASSUME NEW k \in Jobs, NEW q \in Processes, NEW r \in Processes, q # r,
                        work'[q][k] # NoWork, work'[r][k] # NoWork
                 PROVE  work'[q][k].fencing # work'[r][k].fencing
      BY Zenon DEF TokensUnique
    <3>0. work[q][k].fencing \in Nat /\ work[r][k].fencing \in Nat
      BY Zenon, <1>b DEF Work
    <3>1. CASE q = p
      BY <3>0, <3>1, <2>4, <2>5, <2>7, <2>8
    <3>2. CASE r = p
      BY <3>0, <3>2, <2>4, <2>5, <2>7, <2>8
    <3>3. CASE q # p /\ r # p
      BY <3>3, <2>5 DEF QInv, TokensUnique
    <3> QED
      BY Zenon, <3>1, <3>2, <3>3
  <2>11. CommitsQueued'
    BY Zenon, <1>d, <2>2, <2>3 DEF QInv, CommitsQueued
  <2>12. ReportsDecided'
    <3> SUFFICES ASSUME NEW q \in Processes, NEW k \in Jobs, work'[q][k].phase = "handled"
                 PROVE  decided'[k] # 0
      BY Zenon DEF ReportsDecided
    <3> QED
      BY Zenon, <1>c, <1>d, <2>4, <2>5
  <2>13. CompletedDecided'
    BY Zenon, <2>2, <2>3 DEF QInv, CompletedDecided
  <2> QED
    BY Zenon, <1>0, <2>9, <2>10, <2>11, <2>12, <2>13 DEF QInv
<1>6. ASSUME NEW p \in Processes, Exit(p) PROVE QInv'
  BY Zenon, <1>1, <1>6 DEF Exit
<1>7. ASSUME NEW p \in Processes, Crash(p) PROVE QInv'
  <2>1. \A q \in Processes, k \in Jobs : work'[q][k] = IF q = p THEN NoWork ELSE work[q][k]
    BY Zenon, <1>0, <1>7 DEF Crash, QueueTypes
  <2>2. UNCHANGED <<row, committing>>
    BY Zenon, <1>7 DEF Crash
  <2>3. Quiet
    BY Zenon, <1>c, <1>d, <2>1, <2>2 DEF Quiet
  <2> QED
    BY Zenon, <1>0, <2>3, QuietStep
<1>8. ASSUME NEW p \in Processes, NEW j \in Jobs, NEW phase \in Phases,
             Moves(p, j, phase), work[p][j].phase # "none", phase = "handled" => decided'[j] # 0,
             row' = row, committing' \subseteq committing \cup {j}
      PROVE  QInv'
  <2>1. \A q \in Processes, k \in Jobs :
          work'[q][k] = IF q = p /\ k = j THEN [work[p][j] EXCEPT !.phase = phase] ELSE work[q][k]
    BY <1>0, <1>8, MovesPointwise
  <2>2. [work[p][j] EXCEPT !.phase = phase] =
          [phase |-> phase, fencing |-> work[p][j].fencing, attempt |-> work[p][j].attempt]
    BY <1>b DEF Work
  <2>3. work[p][j] # NoWork
    BY Zenon, <1>8, <1>d
  <2>4. Quiet
    BY <1>8, <1>c, <1>d, <2>1, <2>2, <2>3 DEF Quiet
  <2> QED
    BY Zenon, <1>0, <2>4, QuietStep
<1>9. ASSUME NEW p \in Processes, NEW j \in Jobs,
             Handle(p, j) \/ HandlerSucceeds(p, j) \/ HandlerConflicts(p, j) \/ HandlerErrs(p, j)
      PROVE  QInv'
  <2>1. PICK phase \in Phases :
          /\ Moves(p, j, phase) /\ work[p][j].phase # "none"
          /\ phase = "handled" => decided[j] # 0
          /\ row' = row /\ committing' \subseteq committing \cup {j}
    <3>1. "sent" \in Phases /\ "handled" \in Phases /\ "failed" \in Phases
      BY Zenon DEF Phases
    <3>2. CASE Handle(p, j)
      BY Zenon, <3>1, <3>2 DEF Handle
    <3>3. CASE HandlerSucceeds(p, j)
      BY Zenon, <3>1, <3>3 DEF HandlerSucceeds
    <3>4. CASE HandlerConflicts(p, j) \/ HandlerErrs(p, j)
      BY Zenon, <3>1, <3>4 DEF HandlerConflicts, HandlerErrs
    <3> QED
      BY Zenon, <1>9, <3>2, <3>3, <3>4
  <2>2. phase = "handled" => decided'[j] # 0
    BY Zenon, <2>1, DecisionsKept
  <2> QED
    BY Zenon, <1>8, <2>1, <2>2
<1>10. ASSUME NEW p \in Processes, NEW j \in Jobs, Ends(p, j), committing' = committing,
              \A k \in Jobs : /\ row'[k].fencing = row[k].fencing
                              /\ \/ row'[k].state = row[k].state
                                 \/ row'[k].state \in {"pending", "dead_letter"}
                                 \/ row'[k].state = "completed" /\ decided'[k] # 0
       PROVE  QInv'
  <2>1. \A q \in Processes, k \in Jobs :
          work'[q][k] = IF q = p /\ k = j THEN NoWork ELSE work[q][k]
    BY <1>0, <1>10, EndsPointwise
  <2>2. Quiet
    BY <1>10, <1>c, <1>d, <2>1 DEF Quiet
  <2> QED
    BY Zenon, <1>0, <2>2, QuietStep
<1>11. ASSUME NEW p \in Processes, NEW j \in Jobs, Complete(p, j) PROVE QInv'
  <2>1. row[j].available \in 0..(MaximumBackoff + MaxSkew)
    BY Zenon, <1>a DEF JobRow
  <2>2. /\ Released(j, "completed", row[j].available).state = "completed"
        /\ Released(j, "completed", row[j].available).fencing = row[j].fencing
    BY Zenon, <1>0, <2>1, ReleasedRow
  <2>3. \A k \in Jobs : /\ row'[k].fencing = row[k].fencing
                        /\ row'[k].state = row[k].state \/ (k = j /\ row'[k].state = "completed")
    BY Zenon, <1>0, <1>11, <2>2 DEF Complete, QueueTypes
  <2>4. decided'[j] # 0
    BY Zenon, <1>c, <1>11 DEF Complete
  <2> QED
    BY Zenon, <1>10, <1>11, <2>3, <2>4 DEF Complete
<1>12. ASSUME NEW p \in Processes, NEW j \in Jobs, Fail(p, j) PROVE QInv'
  <2>1. PICK state \in {"pending", "dead_letter"}, available \in Nat :
          row' = [row EXCEPT ![j] = Released(j, state, available)]
    BY Zenon, <1>12, FailReleases
  <2> DEFINE new == Released(j, state, available)
  <2>2. new.state = state /\ new.fencing = row[j].fencing
    BY Zenon, <1>a DEF Released, JobRow
  <2> HIDE DEF new
  <2>3. \A k \in Jobs : row'[k] = row[k] \/ (k = j /\ row'[k] = new)
    BY Zenon, <1>0, <2>1 DEF QueueTypes, new
  <2>4. \A k \in Jobs : /\ row'[k].fencing = row[k].fencing
                        /\ row'[k].state = row[k].state \/ row'[k].state \in {"pending", "dead_letter"}
    BY Zenon, <2>1, <2>2, <2>3
  <2> QED
    BY Zenon, <1>10, <1>12, <2>4 DEF Fail
<1>13. ASSUME NEW p \in Processes, NEW j \in Jobs, StaleLease(p, j) \/ TransitionFails(p, j)
       PROVE  QInv'
  BY Zenon, <1>10, <1>13 DEF StaleLease, TransitionFails
<1>14. ASSUME Tick PROVE QInv'
  <2>1. \A k \in Jobs : row'[k].fencing = row[k].fencing /\ row'[k].state = row[k].state
    BY Zenon, <1>14, <1>a DEF Tick, JobRow
  <2>2. UNCHANGED <<work, committing>>
    BY Zenon, <1>14 DEF Tick
  <2>3. Quiet
    BY Zenon, <1>c, <1>d, <2>1, <2>2 DEF Quiet
  <2> QED
    BY Zenon, <1>0, <2>3, QuietStep
<1> QED
  BY Zenon, <1>2, <1>3, <1>4, <1>5, <1>6, <1>7, <1>9, <1>11, <1>12, <1>13, <1>14 DEF MNext, processLease

(* An empty queue satisfies the invariant.                                 *)
LEMMA QueueStarts == MInit => QInv
<1> SUFFICES ASSUME MInit PROVE QInv
  BY Zenon
<1>1. NoRow \in JobRow /\ NoRow.state = "absent"
  BY MaintenanceAssumption DEF NoRow, JobRow
<1>2. NoWork \in Work /\ NoWork.phase = "none"
  BY Zenon DEF NoWork, Work, Phases
<1>3. QueueTypes
  BY <1>1, <1>2, MaintenanceAssumption DEF MInit, QueueTypes
<1>4. TokensIssued /\ TokensUnique /\ CommitsQueued /\ ReportsDecided /\ CompletedDecided
  BY Zenon, <1>1, <1>2 DEF MInit, TokensIssued, TokensUnique, CommitsQueued, ReportsDecided, CompletedDecided
<1> QED
  BY Zenon, <1>3, <1>4 DEF QInv

(* Every state of the queue over the projection satisfies both inductive   *)
(* invariants, whatever leases expire, workers crash and commits take      *)
(* effect late (maintenance/runner.go:70-139,                              *)
(* store/surreal/maintenance.go:84-177, 318-365).                          *)
THEOREM QueueInvariant == MSpec => [](SInv /\ QInv)
<1>1. MInit => SInv /\ QInv
  BY Zenon, QueueStarts, ServingStarts DEF MInit
<1>2. SInv /\ QInv /\ [MNext]_mvars => (SInv /\ QInv)'
  BY Zenon, QueueStep, QueueStepServes, ServingStep
<1> QED
  BY <1>1, <1>2, PTL DEF MSpec

(* Every variable of queue and projection keeps its type.                  *)
THEOREM MaintenanceTypes == MSpec => []MTypeOK
<1>1. SInv /\ QInv => MTypeOK
  BY Zenon DEF SInv, QInv, QueueTypes, MTypeOK, JobRow, Work, Phases
<1> QED
  BY <1>1, QueueInvariant, PTL

(* "completion from the old worker must fail with stale maintenance job    *)
(* lease": for any number of workers under any IDs, at most one can finish *)
(* a job (store/surreal/maintenance.go:318-365).                           *)
THEOREM OneWorkerFinishes == MSpec => []OneFinisher
<1>1. QInv => OneFinisher
  <2> SUFFICES ASSUME QInv, NEW j \in Jobs, NEW p \in Processes, NEW q \in Processes,
                      work[p][j] # NoWork, work[q][j] # NoWork, Authorised(p, j), Authorised(q, j)
               PROVE  p = q
    BY Zenon DEF OneFinisher
  <2>1. row[j].fencing = work[p][j].fencing /\ row[j].fencing = work[q][j].fencing
    BY Zenon DEF Authorised
  <2> QED
    BY Zenon, <2>1 DEF QInv, TokensUnique
<1> QED
  BY <1>1, QueueInvariant, PTL

(* A job is completed only when its decision is stored                     *)
(* (maintenance/runner.go:118-126).                                        *)
THEOREM CompletionIsDecision == MSpec => []CompletedDecided
<1>1. QInv => CompletedDecided
  BY Zenon DEF QInv
<1> QED
  BY <1>1, QueueInvariant, PTL
-----------------------------------------------------------------------------
(* A step that leaves every row open, or settled as it was, and decides    *)
(* nothing is a stutter of Delivery.                                       *)
LEMMA SameStatus ==
  ASSUME \A k \in Jobs : Status(row'[k].state) = Status(row[k].state), decided' = decided
  PROVE  UNCHANGED D!dvars
  BY Zenon DEF D!dvars

(* The status of the rows after one row is written.                        *)
LEMMA StatusUpdate ==
  ASSUME NEW j \in Jobs, NEW s, Status(row'[j].state) = s, \A k \in Jobs : k # j => row'[k] = row[k]
  PROVE  [k \in Jobs |-> Status(row'[k].state)] = [[k \in Jobs |-> Status(row[k].state)] EXCEPT ![j] = s]
  BY Zenon

(* Each step of the queue is a step of Delivery or leaves it unchanged: a  *)
(* decision that reaches the database is the acceptance of the job.        *)
LEMMA DeliveryStep == SInv /\ QInv /\ [MNext]_mvars => [D!DNext]_(D!dvars)
<1> SUFFICES ASSUME SInv, QInv, [MNext]_mvars PROVE [D!DNext]_(D!dvars)
  BY Zenon
<1>0. QueueTypes
  BY Zenon DEF QInv
<1>a. \A k \in Jobs : row[k] \in JobRow
  BY Zenon, <1>0 DEF QueueTypes
<1>1. ASSUME row' = row, decided' = decided PROVE UNCHANGED D!dvars
  BY Zenon, <1>1, SameStatus
<1>2. ASSUME Publishes \/ UNCHANGED mvars PROVE UNCHANGED D!dvars
  BY Zenon, <1>1, <1>2 DEF Publishes, Publish, NewLifecyclePayload, mvars, vars, queueVars, lifecycleVars
<1>3. ASSUME NEW j \in Jobs, Enqueue(j) PROVE D!Record(j)
  <2>1. /\ row'[j].state = "pending" /\ row[j].state = "absent"
        /\ \A k \in Jobs : k # j => row'[k] = row[k]
    BY <1>0, <1>3 DEF Enqueue, QueueTypes, NoRow
  <2>2. Status(row[j].state) = "absent" /\ Status(row'[j].state) = "open"
    BY Zenon, <2>1 DEF Status
  <2>3. decided' = decided
    BY Zenon, <1>3 DEF Enqueue, vars, lifecycleVars
  <2> QED
    BY Zenon, <2>1, <2>2, <2>3, StatusUpdate DEF D!Record
<1>4. ASSUME NEW j \in Jobs, DatabaseCommits(j) PROVE [D!DNext]_(D!dvars)
  <2>1. row' = row /\ row[j].state # "absent"
    BY Zenon, <1>4 DEF DatabaseCommits, QInv, CommitsQueued
  <2>2. CASE UNCHANGED vars
    BY Zenon, <1>1, <2>1, <2>2 DEF vars, lifecycleVars
  <2>3. CASE Commit(j)
    <3>1. PICK e \in Nat \ {0} : decided' = [decided EXCEPT ![j] = e]
      BY Zenon, <2>3, CommitEffects
    <3>2. {k \in Jobs : decided'[k] # 0} = {k \in Jobs : decided[k] # 0} \cup {j}
      BY Zenon, <3>1 DEF SInv, TypeOK
    <3>3. Status(row[j].state) # "absent"
      BY Zenon, <1>a, <2>1 DEF Status, JobRow
    <3>4. D!Accept(j)
      BY Zenon, <2>1, <3>2, <3>3 DEF D!Accept
    <3> QED
      BY Zenon, <3>4 DEF D!DNext
  <2> QED
    BY Zenon, <1>4, <2>2, <2>3 DEF DatabaseCommits
<1>5. ASSUME NEW p \in Processes, Claim(p) PROVE UNCHANGED D!dvars
  <2>1. PICK batch \in SUBSET {j \in Jobs : Claimable(j)} :
          row' = [j \in Jobs |-> IF j \notin batch THEN row[j] ELSE
               [row[j] EXCEPT !.state = "leased", !.owner = WorkerID[p], !.fencing = @ + 1,
                              !.expires = LeaseDuration, !.attempts = @ + 1]]
    BY Zenon, <1>5 DEF Claim
  <2>2. ASSUME NEW k \in Jobs PROVE Status(row'[k].state) = Status(row[k].state)
    <3>1. CASE k \in batch
      <4>1. row[k].state \in {"pending", "leased"}
        BY Zenon, <3>1 DEF Claimable
      <4>2. row'[k].state = "leased"
        BY Zenon, <2>1, <3>1, <1>a DEF JobRow
      <4> QED
        BY Zenon, <4>1, <4>2 DEF Status
    <3>2. CASE k \notin batch
      BY Zenon, <2>1, <3>2
    <3> QED
      BY Zenon, <3>1, <3>2
  <2>3. decided' = decided
    BY Zenon, <1>5 DEF Claim, vars, lifecycleVars
  <2> QED
    BY Zenon, <2>2, <2>3, SameStatus
<1>6. ASSUME NEW p \in Processes, NEW j \in Jobs, Complete(p, j) PROVE D!Settle(j)
  <2>1. /\ decided[j] # 0 /\ decided' = decided /\ row[j].state = "leased"
        /\ row' = [row EXCEPT ![j] = Released(j, "completed", row[j].available)]
    BY Zenon, <1>6 DEF QInv, ReportsDecided, Complete, Authorised, vars, lifecycleVars
  <2>2. row'[j].state = "completed" /\ \A k \in Jobs : k # j => row'[k] = row[k]
    BY Zenon, <1>0, <1>a, <2>1 DEF Released, QueueTypes, JobRow
  <2>3. Status(row[j].state) = "open" /\ Status(row'[j].state) = "delivered"
    BY Zenon, <2>1, <2>2 DEF Status
  <2> QED
    BY Zenon, <2>1, <2>2, <2>3, StatusUpdate DEF D!Settle
<1>7. ASSUME NEW p \in Processes, NEW j \in Jobs, Fail(p, j) PROVE [D!DNext]_(D!dvars)
  <2>1. PICK state \in {"pending", "dead_letter"}, available \in Nat :
          row' = [row EXCEPT ![j] = Released(j, state, available)]
    BY Zenon, <1>7, FailReleases
  <2>2. row[j].state = "leased" /\ decided' = decided
    BY Zenon, <1>7 DEF Fail, Authorised, vars, lifecycleVars
  <2>3. row'[j].state = state /\ \A k \in Jobs : k # j => row'[k] = row[k]
    <3>1. Released(j, state, available).state = state
      BY Zenon, <1>a DEF Released, JobRow
    <3> QED
      BY Zenon, <1>0, <2>1, <3>1 DEF QueueTypes
  <2>4. CASE state = "pending"
    <3>1. \A k \in Jobs : Status(row'[k].state) = Status(row[k].state)
      BY Zenon, <2>2, <2>3, <2>4 DEF Status
    <3> QED
      BY Zenon, <2>2, <3>1, SameStatus
  <2>5. CASE state = "dead_letter"
    <3>1. Status(row[j].state) = "open" /\ Status(row'[j].state) = "abandoned"
      BY Zenon, <2>2, <2>3, <2>5 DEF Status
    <3>2. D!Settle(j)
      BY Zenon, <2>2, <2>3, <3>1, StatusUpdate DEF D!Settle
    <3> QED
      BY Zenon, <3>2 DEF D!DNext
  <2> QED
    BY Zenon, <2>1, <2>4, <2>5
<1>8. ASSUME Tick PROVE UNCHANGED D!dvars
  <2>1. \A k \in Jobs : row'[k].state = row[k].state
    BY Zenon, <1>8, <1>a DEF Tick, JobRow
  <2> QED
    BY Zenon, <1>8, <2>1, SameStatus DEF Tick, vars, lifecycleVars
<1>9. ASSUME NEW p \in Processes, Exit(p) \/ Crash(p) PROVE UNCHANGED D!dvars
  BY Zenon, <1>1, <1>9 DEF Exit, Crash, vars, lifecycleVars
<1>10. ASSUME NEW p \in Processes, NEW j \in Jobs,
              \/ Handle(p, j) \/ HandlerSucceeds(p, j) \/ HandlerConflicts(p, j) \/ HandlerErrs(p, j)
              \/ StaleLease(p, j) \/ TransitionFails(p, j)
       PROVE  UNCHANGED D!dvars
  BY Zenon, <1>1, <1>10 DEF Handle, HandlerSucceeds, HandlerConflicts, HandlerErrs, StaleLease, TransitionFails,
                     vars, lifecycleVars
<1> QED
  BY Zenon, <1>2, <1>3, <1>4, <1>5, <1>6, <1>7, <1>8, <1>9, <1>10 DEF MNext, processLease, D!DNext

(* The maintenance queue, for every value of its constants, implements     *)
(* Delivery: one record, one settlement, completed only if decided.        *)
THEOREM QueueImplementsDelivery == MSpec => Delivers
<1>1. MInit => D!DInit
  BY DEF MInit, Init, D!DInit, NoRow, Status
<1> QED
  BY <1>1, QueueInvariant, DeliveryStep, PTL DEF MSpec, Delivers, D!DSpec
=============================================================================
