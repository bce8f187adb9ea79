-------------------------- MODULE RetrievalProofs --------------------------
(***************************************************************************)
(* What the retrieval path promises, for any number of callers, run ids,   *)
(* configurations and versions: its transactions implement the decision    *)
(* ledger, an answer is committed before it leaves the service and is an   *)
(* answer to the question that was asked.                                  *)
(***************************************************************************)
EXTENDS Retrieval, TLAPS

-----------------------------------------------------------------------------
(* The decision ledger.                                                    *)

(* Nothing is in either ledger when the process starts.                    *)
LEMMA DecisionsStartEmpty == Init => OneDecisionPerRequest
BY Zenon DEF Init, OneDecisionPerRequest

(* Each ledger operation keeps one row per run id and per plan identity    *)
(* (memory/retrieval_run.go:25-99, memory/selection.go:36-75).             *)
LEMMA DecisionStep == OneDecisionPerRequest /\ [Next]_ledger => OneDecisionPerRequest'
<1> SUFFICES ASSUME OneDecisionPerRequest, [Next]_ledger
             PROVE OneDecisionPerRequest'
  BY Zenon
<1>1. ASSUME NEW c \in Configs, ActivateServingConfig(c)
      PROVE OneDecisionPerRequest'
  BY Zenon, <1>1 DEF ActivateServingConfig, OneDecisionPerRequest
<1>2. ASSUME NEW r \in runs', SaveRun(r)
      PROVE OneDecisionPerRequest'
  <2>1. \A q \in runs : q.id # r.id
    BY Zenon, <1>2 DEF SaveRun, RunAt
  <2>2. \A p, q \in runs' : p.id = q.id => p = q
    BY Zenon, <1>2, <2>1 DEF SaveRun, OneDecisionPerRequest
  <2> QED
    BY Zenon, <1>2, <2>2 DEF SaveRun, OneDecisionPerRequest
<1>3. ASSUME NEW s \in selections', CommitSelection(s)
      PROVE OneDecisionPerRequest'
  <2>1. \A t \in selections : t.run # s.run /\ t.key # s.key
    BY Zenon, <1>3 DEF CommitSelection, ByKey, ByRun
  <2>2. \A t, u \in selections' : t.run = u.run \/ t.key = u.key => t = u
    BY Zenon, <1>3, <2>1 DEF CommitSelection, OneDecisionPerRequest
  <2> QED
    BY Zenon, <1>3, <2>2 DEF CommitSelection, OneDecisionPerRequest
<1>4. CASE Expire
  BY Zenon, <1>4 DEF Expire, OneDecisionPerRequest
<1>5. CASE Pass
  BY Zenon, <1>5 DEF Pass, OneDecisionPerRequest
<1>6. CASE UNCHANGED ledger
  BY Zenon, <1>6 DEF ledger, OneDecisionPerRequest
<1> QED
  BY Zenon, <1>1, <1>2, <1>3, <1>4, <1>5, <1>6 DEF Next

(* A request has at most one run and one plan, and every run cites a       *)
(* configuration that was activated, in every reachable state.             *)
THEOREM OneDecision == Spec => []OneDecisionPerRequest
<1>1. Init => OneDecisionPerRequest
  BY Zenon, DecisionsStartEmpty
<1>2. OneDecisionPerRequest /\ [Next]_ledger => OneDecisionPerRequest'
  BY Zenon, DecisionStep
<1> QED
  BY <1>1, <1>2, PTL DEF Spec

(* A row leaves either ledger only when its retention is over, and never   *)
(* to be rewritten.                                                        *)
THEOREM KeptUntilExpiry == Spec => DecisionsAreKept
<1> DEFINE Kept == /\ \A r \in runs : r \notin runs' => r.expires <= clock
                   /\ \A s \in selections : s \notin selections' => s.expires <= clock
<1>1. ASSUME [Next]_ledger PROVE [Kept]_ledger
  <2>1. ASSUME NEW c \in Configs, ActivateServingConfig(c) PROVE Kept
    BY Zenon, <2>1 DEF ActivateServingConfig
  <2>2. ASSUME NEW r \in runs', SaveRun(r) PROVE Kept
    BY Zenon, <2>2 DEF SaveRun
  <2>3. ASSUME NEW s \in selections', CommitSelection(s) PROVE Kept
    BY Zenon, <2>3 DEF CommitSelection
  <2>4. CASE Expire
    BY Zenon, <2>4 DEF Expire
  <2>5. CASE Pass
    BY Zenon, <2>5 DEF Pass
  <2> QED
    BY Zenon, <1>1, <2>1, <2>2, <2>3, <2>4, <2>5 DEF Next
<1> QED
  BY <1>1, PTL DEF Spec, DecisionsAreKept
-----------------------------------------------------------------------------
(* The rows of the ledgers, and what a request has in hand at each of its  *)
(* phases.                                                                 *)

Dispositions == {"selected", "abstained", "failed"}
RunFits(r) == /\ r.id \in RunIds /\ r.config \in configs /\ r.disp \in Dispositions
              /\ r.expires \in Nat /\ r.expires <= clock + TTL
              /\ Range(r.ranked) \subseteq DOMAIN r.gates
PlanFits(s) == s.run \in RunIds /\ s.expires \in Nat
RunKept(r)  == r \in runs \/ r.expires <= clock
PlanKept(s) == s \in selections \/ s.expires <= clock

Young(since) == since \in Nat /\ since <= clock /\ clock <= since + RequestTimeout
Decided(v, since) == /\ {"phase", "query", "run"} \subseteq DOMAIN v
                     /\ RunFits(v.run) /\ v.run.query = v.query
                     /\ v.run.expires >= since + TTL
Planned(v) == /\ {"phase", "query", "run", "replayed"} \subseteq DOMAIN v
              /\ RunFits(v.run) /\ RunKept(v.run)
              /\ v.run.disp = "selected" /\ v.run.query = v.query
Served(v)  == /\ RunKept(v.run) /\ v.run.query = v.query /\ v.run.expires \in Nat
              /\ v.candidates = Replayed(v.run)
              /\ v.plan # None => /\ PlanKept(v.plan) /\ v.plan.expires \in Nat
                                 /\ v.plan.draft.query = v.run.query
                                 /\ v.plan.draft.epoch = v.run.epoch
              /\ v.run.disp = "selected" <=> v.plan # None

(* A request v that began at since, by phase.                              *)
CallFits(v, since) ==
    \/ v.phase = "idle"
    \/ v.phase = "snapshot" /\ v.id \in RunIds /\ Young(since)
    \/ v.phase = "decide" /\ v.id \in RunIds /\ v.config \in configs /\ Young(since)
    \/ v.phase = "invalid" /\ Young(since)
    \/ v.phase = "save" /\ Decided(v, since) /\ Young(since)
    \/ v.phase = "winner" /\ v.run.id \in RunIds /\ Young(since)
    \/ /\ v.phase = "reread" /\ Decided(v, since) /\ Young(since)
       /\ RunKept(v.run) /\ v.run.disp = "selected"
    \/ v.phase \in {"plan", "issue", "settle"} /\ Planned(v) /\ Young(since)
    \/ /\ v.phase = "insert" /\ Planned(v) /\ Young(since)
       /\ "now" \in DOMAIN v /\ v.now \in Nat /\ v.now <= clock
    \/ v.phase = "done" /\ Served(v)

LedgerFits == /\ clock \in Nat /\ OneDecisionPerRequest
              /\ active = None \/ active \in configs
              /\ \A r \in runs : RunFits(r)
              /\ \A s \in selections : PlanFits(s)
RetrievalInv ==
    /\ LedgerFits
    /\ DOMAIN call = Callers /\ started \in [Callers -> Nat]
    /\ \A c \in Callers : CallFits(call[c], started[c])

(* A step that leaves the clock alone, forgets no configuration and        *)
(* removes no row before its time leaves what other requests have in hand  *)
(* as good as it was.                                                      *)
Keeps == /\ clock' = clock /\ configs \subseteq configs'
         /\ \A r : RunKept(r) => RunKept(r)'
         /\ \A s : PlanKept(s) => PlanKept(s)'

(* What a request has in hand survives such a step.                        *)
LEMMA CallKept ==
    ASSUME NEW v, NEW since, CallFits(v, since), Keeps
    PROVE  CallFits(v, since)'
<1>1. ASSUME NEW r, RunFits(r) PROVE RunFits(r)'
  BY Zenon, <1>1 DEF RunFits, Keeps
<1>2. Young(since) => Young(since)'
  BY Zenon DEF Young, Keeps
<1>3. Decided(v, since) => Decided(v, since)'
  BY Zenon, <1>1 DEF Decided
<1>4. \A r : RunKept(r) => RunKept(r)'
  BY Zenon DEF Keeps
<1>5. Planned(v) => Planned(v)'
  BY Zenon, <1>1, <1>4 DEF Planned
<1>6. Served(v) => Served(v)'
  <2>1. \A s : PlanKept(s) => PlanKept(s)'
    BY Zenon DEF Keeps
  <2> QED  BY Zenon, <1>4, <2>1 DEF Served
<1>7. clock' = clock /\ configs \subseteq configs'
  BY Zenon DEF Keeps
<1> QED
  BY Zenon, <1>2, <1>3, <1>4, <1>5, <1>6, <1>7 DEF CallFits

(* A request that moves to a good state in such a step keeps the whole     *)
(* invariant, if the ledgers stay well formed.                             *)
LEMMA CallWritten ==
    ASSUME RetrievalInv, Keeps, LedgerFits',
           NEW c \in Callers, NEW next, NEW since \in Nat,
           To(c, next), started' = [started EXCEPT ![c] = since],
           CallFits(next, since)'
    PROVE  RetrievalInv'
<1>1. DOMAIN call' = Callers /\ started' \in [Callers -> Nat]
  BY Zenon DEF RetrievalInv, To
<1>2. ASSUME NEW d \in Callers, d # c PROVE CallFits(call[d], started[d])'
  <2>1. call'[d] = call[d] /\ started'[d] = started[d]
    BY Zenon, <1>2 DEF RetrievalInv, To
  <2>2. PICK v, t : v = call[d] /\ t = started[d]
    BY Zenon
  <2>3. CallFits(v, t)
    BY Zenon, <2>2 DEF RetrievalInv
  <2>4. CallFits(v, t)'
    BY Zenon, <2>3, CallKept
  <2> QED  BY Zenon, <2>1, <2>2, <2>4
<1>3. CallFits(call[c], started[c])'
  <2>1. call'[c] = next /\ started'[c] = since
    BY Zenon DEF RetrievalInv, To
  <2> QED  BY Zenon, <2>1
<1> QED  BY Zenon, <1>1, <1>2, <1>3 DEF RetrievalInv

(* A request that moves while the ledgers stay as they are.                *)
LEMMA CallMoved ==
    ASSUME RetrievalInv, UNCHANGED DB,
           NEW c \in Callers, NEW next, NEW since \in Nat,
           To(c, next), started' = [started EXCEPT ![c] = since],
           CallFits(next, since)
    PROVE  RetrievalInv'
<1>1. Keeps
  BY Zenon DEF Keeps, DB, RunKept, PlanKept
<1>2. LedgerFits'
  BY Zenon DEF RetrievalInv, LedgerFits, DB, OneDecisionPerRequest, RunFits, PlanFits
<1>3. CallFits(next, since)'
  BY Zenon, <1>1, CallKept
<1> QED  BY Zenon, <1>1, <1>2, <1>3, CallWritten

(* The same within a request, whose start does not change.                 *)
LEMMA CallSteps ==
    ASSUME RetrievalInv, UNCHANGED DB, UNCHANGED started,
           NEW c \in Callers, NEW next, To(c, next), CallFits(next, started[c])
    PROVE  RetrievalInv'
<1>1. PICK since : since = started[c]
  BY Zenon
<1>2. since \in Nat /\ started' = [started EXCEPT ![c] = since]
  BY Zenon, <1>1 DEF RetrievalInv
<1> QED  BY Zenon, <1>1, <1>2, CallMoved

(* A failed request has nothing in hand.                                   *)
LEMMA CallFails ==
    ASSUME RetrievalInv, UNCHANGED DB, UNCHANGED started, NEW c \in Callers, Fail(c)
    PROVE  RetrievalInv'
<1>1. CallFits(Idle, started[c])
  BY Zenon DEF CallFits, Idle
<1> QED  BY Zenon, <1>1, CallSteps DEF Fail

(* The candidates of the first answer are the ones every replay shows      *)
(* (service.go:389-450).                                                   *)
LEMMA FreshIsReplayed == ASSUME NEW r, RunFits(r) PROVE Fresh(r) = Replayed(r)
<1> DEFINE fresh    == {v \in Range(r.ranked) : r.gates[v] = "advisory" \/ v \in Range(r.selected)}
           replayed == Range(r.selected) \union {v \in DOMAIN r.gates : r.gates[v] = "advisory"}
<1>1. ASSUME NEW i \in DOMAIN r.ranked PROVE r.ranked[i] \in fresh <=> r.ranked[i] \in replayed
  BY Zenon DEF RunFits, Range
<1> HIDE DEF fresh, replayed
<1>2. {i \in DOMAIN r.ranked : r.ranked[i] \in fresh}
       = {i \in DOMAIN r.ranked : r.ranked[i] \in replayed}
  BY Zenon, <1>1
<1>3. InOrderOf(r.ranked, fresh) = InOrderOf(r.ranked, replayed)
  BY Zenon, <1>2 DEF InOrderOf
<1> QED  BY Zenon, <1>3 DEF Fresh, Replayed, fresh, replayed

(* An answer made of a committed run and, exactly when the run selects, of *)
(* a committed plan (service.go:389-496).                                  *)
LEMMA AnswerFits ==
    ASSUME NEW query, NEW run, NEW candidates, NEW plan, NEW since,
           RunKept(run), run.expires \in Nat, run.query = query,
           candidates = Replayed(run),
           plan # None => /\ PlanKept(plan) /\ plan.expires \in Nat
                          /\ plan.draft.query = run.query /\ plan.draft.epoch = run.epoch,
           run.disp = "selected" <=> plan # None
    PROVE  CallFits([phase |-> "done", query |-> query, run |-> run,
                     candidates |-> candidates, plan |-> plan], since)
<1> DEFINE v == [phase |-> "done", query |-> query, run |-> run,
                 candidates |-> candidates, plan |-> plan]
<1>1. /\ v.phase = "done" /\ v.run = run /\ v.plan = plan /\ v.query = query
      /\ v.candidates = candidates
  BY Zenon
<1> HIDE DEF v
<1>2. v.candidates = Replayed(v.run)
  BY Zenon, <1>1
<1>3. Served(v)
  BY Zenon, <1>1, <1>2 DEF Served
<1>4. CallFits(v, since)
  BY Zenon, <1>1, <1>3 DEF CallFits
<1> QED  BY Zenon, <1>4 DEF v

(* A request that has a committed run which selects, and now wants its     *)
(* plan (service.go:410-440).                                              *)
LEMMA PlanningFits ==
    ASSUME NEW query, NEW run, NEW replayed, NEW since, NEW phase \in {"plan", "issue"},
           RunFits(run), RunKept(run), run.disp = "selected", run.query = query,
           Young(since)
    PROVE  CallFits([phase |-> phase, query |-> query, run |-> run, replayed |-> replayed],
                    since)
<1> DEFINE v == [phase |-> phase, query |-> query, run |-> run, replayed |-> replayed]
<1>1. /\ DOMAIN v = {"phase", "query", "run", "replayed"}
      /\ v.phase = phase /\ v.run = run /\ v.query = query
  BY Zenon
<1> HIDE DEF v
<1>2. CallFits(v, since)
  BY Zenon, <1>1 DEF CallFits, Planned
<1> QED  BY Zenon, <1>2 DEF v

(* A run found under the identity of the request (service.go:195-205).     *)
LEMMA RunResolved ==
    ASSUME RetrievalInv, UNCHANGED DB,
           NEW c \in Callers, NEW query, NEW run \in runs, NEW since \in Nat,
           started' = [started EXCEPT ![c] = since], Young(since),
           Resolve(c, query, run)
    PROVE  RetrievalInv'
<1>1. RunFits(run) /\ RunKept(run)
  BY Zenon DEF RetrievalInv, LedgerFits, RunKept
<1>2. CASE Fail(c)
  <2>1. CallFits(Idle, since)
    BY Zenon DEF CallFits, Idle
  <2> QED  BY Zenon, <1>2, <2>1, CallMoved DEF Fail
<1>3. CASE /\ run.query = query /\ run.disp = "abstained"
           /\ Answer(c, query, run, Replayed(run), None)
  <2>1. PICK candidates : candidates = Replayed(run)
    BY Zenon
  <2>2. run.expires \in Nat
    BY Zenon, <1>1 DEF RunFits
  <2>3. CallFits([phase |-> "done", query |-> query, run |-> run,
                  candidates |-> candidates, plan |-> None], since)
    BY Zenon, <1>1, <1>3, <2>1, <2>2, AnswerFits
  <2> QED  BY Zenon, <1>3, <2>1, <2>3, CallMoved DEF Answer
<1>4. CASE /\ run.query = query /\ run.disp \notin {"failed", "abstained"}
           /\ Within(c, query, run, TRUE, "plan")
  <2>1. run.disp = "selected"
    BY Zenon, <1>1, <1>4 DEF RunFits, Dispositions
  <2>2. CallFits([phase |-> "plan", query |-> query, run |-> run, replayed |-> TRUE], since)
    BY Zenon, <1>1, <1>4, <2>1, PlanningFits
  <2> QED  BY Zenon, <1>4, <2>2, CallMoved DEF Within
<1> QED
  BY Zenon, <1>2, <1>3, <1>4 DEF Resolve, responseFromRun

(* Retrieve begins a request, or answers it from an earlier run.           *)
LEMMA RetrieveStep ==
    ASSUME RetrievalInv, NEW c \in Callers, NEW id \in RunIds, NEW q \in Queries,
           Retrieve(c, id, q)
    PROVE  RetrievalInv'
<1>1. UNCHANGED DB /\ clock \in Nat /\ started' = [started EXCEPT ![c] = clock]
  BY Zenon DEF Retrieve, RetrievalInv, LedgerFits
<1>2. PICK since \in Nat : since = clock
  BY Zenon, <1>1
<1>3. Young(since)
  BY <1>2, TimeoutAssumption DEF Young
<1>4. CASE Fail(c)
  <2>1. CallFits(Idle, since)
    BY Zenon DEF CallFits, Idle
  <2> QED  BY Zenon, <1>1, <1>2, <1>4, <2>1, CallMoved DEF Fail
<1>5. CASE To(c, [phase |-> "snapshot", query |-> q, id |-> id, by |-> calls])
  <2>1. PICK next : next = [phase |-> "snapshot", query |-> q, id |-> id, by |-> calls]
    BY Zenon
  <2>2. next.phase = "snapshot" /\ next.id = id
    BY Zenon, <2>1
  <2>3. CallFits(next, since)
    BY Zenon, <1>3, <2>2 DEF CallFits
  <2> QED  BY Zenon, <1>1, <1>2, <1>5, <2>1, <2>3, CallMoved
<1>6. ASSUME NEW run \in RunAt(id), Resolve(c, q, run) PROVE RetrievalInv'
  <2>1. run \in runs
    BY Zenon, <1>6 DEF RunAt
  <2> QED  BY Zenon, <1>1, <1>2, <1>3, <1>6, <2>1, RunResolved
<1> QED
  BY Zenon, <1>4, <1>5, <1>6 DEF Retrieve

(* The snapshot's configuration is one the tenant has activated.           *)
LEMMA SnapshotStep ==
    ASSUME RetrievalInv, NEW c \in Callers, AcquireServingSnapshot(c)
    PROVE  RetrievalInv'
<1>1. UNCHANGED DB /\ UNCHANGED started
  BY Zenon DEF AcquireServingSnapshot
<1>2. CASE Fail(c)
  BY Zenon, <1>1, <1>2, CallFails
<1>3. CASE /\ active # None
           /\ To(c, [phase |-> "decide", query |-> call[c].query, id |-> call[c].id,
                     by |-> call[c].by, config |-> active, epoch |-> epoch])
  <2>1. PICK next : next = [phase |-> "decide", query |-> call[c].query, id |-> call[c].id,
                            by |-> call[c].by, config |-> active, epoch |-> epoch]
    BY Zenon
  <2>2. next.phase = "decide" /\ next.id = call[c].id /\ next.config = active
    BY Zenon, <2>1
  <2>3. call[c].phase = "snapshot" /\ CallFits(call[c], started[c])
    BY Zenon DEF AcquireServingSnapshot, RetrievalInv
  <2>4. call[c].id \in RunIds /\ Young(started[c])
    BY Zenon, <2>3 DEF CallFits
  <2>5. active \in configs
    BY Zenon, <1>3 DEF RetrievalInv, LedgerFits
  <2>6. CallFits(next, started[c])
    BY Zenon, <2>2, <2>4, <2>5 DEF CallFits
  <2> QED  BY Zenon, <1>1, <1>3, <2>1, <2>6, CallSteps
<1> QED
  BY Zenon, <1>2, <1>3 DEF AcquireServingSnapshot

(* Whatever the channels and the judge answer, the run is of the request's *)
(* identity, query and configuration, and kept for the retention from now  *)
(* (run.go:160-250, service.go:500-536).                                   *)
LEMMA DecidedRunFits ==
    ASSUME NEW k, NEW f, NEW lost, NEW judged, NEW run \in DecidedRuns(k, f, lost, judged)
    PROVE  /\ run.id = k.id /\ run.query = k.query /\ run.config = k.config /\ run.epoch = k.epoch
           /\ run.expires = clock + TTL /\ run.disp \in Dispositions /\ run.by = k.by
<1>1. ASSUME NEW found, NEW disp \in Dispositions, NEW code, NEW gates, NEW ranked, NEW selected,
             run = buildRun(k, found, disp, code, gates, ranked, selected)
      PROVE  /\ run.id = k.id /\ run.query = k.query /\ run.config = k.config
             /\ run.epoch = k.epoch /\ run.expires = clock + TTL
             /\ run.disp \in Dispositions /\ run.by = k.by
  BY Zenon, <1>1 DEF buildRun
<1>2. {"failed", "abstained", "selected"} \subseteq Dispositions
  BY Zenon DEF Dispositions
<1>3. \/ \E found, code, gates, ranked, selected : \E disp \in {"failed", "abstained"} :
           run = buildRun(k, found, disp, code, gates, ranked, selected)
      \/ \E found, gates, ranked, selected : run = RankedRun(k, found, gates, ranked, selected)
  BY Zenon DEF DecidedRuns
<1> QED  BY Zenon, <1>1, <1>2, <1>3 DEF RankedRun

(* The decision keeps the request's identity and query.                    *)
LEMMA DecideStep ==
    ASSUME RetrievalInv, NEW c \in Callers, Decide(c)
    PROVE  RetrievalInv'
<1>1. UNCHANGED DB /\ UNCHANGED started /\ clock \in Nat /\ TTL \in Nat /\ started[c] \in Nat
  BY Zenon, LedgerAssumption DEF Decide, RetrievalInv, LedgerFits
<1>2. call[c].phase = "decide" /\ CallFits(call[c], started[c])
  BY Zenon DEF Decide, RetrievalInv
<1>3. call[c].id \in RunIds /\ call[c].config \in configs /\ Young(started[c])
  BY Zenon, <1>2 DEF CallFits
<1>4. PICK f \in ChannelResponses(call[c].config, call[c].epoch), lost \in BOOLEAN,
           judged \in BOOLEAN : \E run \in DecidedRuns(call[c], f, lost, judged) :
         To(c, [phase |-> IF ValidateRun(run) THEN "save" ELSE "invalid",
                query |-> call[c].query, run |-> run])
  BY Zenon DEF Decide
<1>4a. PICK run \in DecidedRuns(call[c], f, lost, judged) :
         To(c, [phase |-> IF ValidateRun(run) THEN "save" ELSE "invalid",
                query |-> call[c].query, run |-> run])
  BY Zenon, <1>4
<1>6. /\ run.id = call[c].id /\ run.query = call[c].query /\ run.config = call[c].config
      /\ run.expires = clock + TTL /\ run.disp \in Dispositions
  BY <1>4a, DecidedRunFits
<1>7. CASE ~ValidateRun(run)
  <2>1. PICK next : next = [phase |-> "invalid", query |-> call[c].query, run |-> run]
    BY Zenon
  <2>2. next.phase = "invalid"
    BY Zenon, <2>1
  <2>3. CallFits(next, started[c])
    BY Zenon, <1>3, <2>2 DEF CallFits
  <2>4. To(c, next)
    BY Zenon, <1>4a, <1>7, <2>1
  <2> QED  BY Zenon, <1>1, <2>3, <2>4, CallSteps
<1>8. CASE ValidateRun(run)
  <2>1. PICK next : next = [phase |-> "save", query |-> call[c].query, run |-> run]
    BY Zenon
  <2>2. /\ DOMAIN next = {"phase", "query", "run"}
        /\ next.phase = "save" /\ next.run = run /\ next.query = call[c].query
    BY Zenon, <2>1
  <2>3. Range(run.ranked) \subseteq DOMAIN run.gates
    BY Zenon, <1>8 DEF ValidateRun
  <2>4. RunFits(run) /\ run.expires >= started[c] + TTL
    BY <1>1, <1>3, <1>6, <2>3 DEF RunFits, Young
  <2>5. Decided(next, started[c])
    BY Zenon, <1>6, <2>2, <2>4 DEF Decided
  <2>6. CallFits(next, started[c])
    BY Zenon, <1>3, <2>2, <2>5 DEF CallFits
  <2>7. To(c, next)
    BY Zenon, <1>4a, <1>8, <2>1
  <2> QED  BY Zenon, <1>1, <2>6, <2>7, CallSteps
<1> QED  BY Zenon, <1>7, <1>8

(* A good run that is added under a free id leaves the ledgers well        *)
(* formed, and takes nothing from the other requests.                      *)
LEMMA RunPersisted ==
    ASSUME RetrievalInv, NEW run, RunFits(run), RunAt(run.id) = {}, Persist(run),
           UNCHANGED <<configs, active, selections, clock>>
    PROVE  Keeps /\ LedgerFits' /\ RunFits(run)' /\ RunKept(run)' /\ SaveRun(run) /\ run \in runs'
<1>1. Keeps /\ RunFits(run)' /\ RunKept(run)' /\ run \in runs'
  BY Zenon DEF Keeps, RunKept, PlanKept, Persist, RunFits
<1>2. SaveRun(run)
  BY Zenon DEF SaveRun, RunFits, Persist
<1>3. OneDecisionPerRequest'
  BY Zenon, <1>1, <1>2, DecisionStep DEF Next, RetrievalInv, LedgerFits
<1>4. \A r \in runs' : RunFits(r)'
  BY Zenon, <1>1 DEF RetrievalInv, LedgerFits, Persist, RunFits
<1> QED
  BY Zenon, <1>1, <1>2, <1>3, <1>4 DEF LedgerFits, RetrievalInv, PlanFits

(* A request with a run in hand that goes on to read the winner's.         *)
LEMMA ToWinner ==
    ASSUME NEW v, NEW since, Decided(v, since), Young(since)
    PROVE  CallFits([v EXCEPT !.phase = "winner"], since)
<1>1. /\ [v EXCEPT !.phase = "winner"].phase = "winner"
      /\ [v EXCEPT !.phase = "winner"].run = v.run
  BY Zenon DEF Decided
<1>2. v.run.id \in RunIds
  BY Zenon DEF Decided, RunFits
<1> QED  BY Zenon, <1>1, <1>2 DEF CallFits

(* SaveRetrievalRun writes the run once, and its caller answers only after *)
(* the write (retrieval_run.go:191-288, service.go:475-496).               *)
LEMMA SaveStep ==
    ASSUME RetrievalInv, NEW c \in Callers, SaveRetrievalRun(c)
    PROVE  RetrievalInv' /\ [Next]_ledger
<1>1. /\ UNCHANGED <<configs, active, selections, clock>> /\ UNCHANGED started
      /\ call[c].phase = "save" /\ CallFits(call[c], started[c])
      /\ started[c] \in Nat
  BY Zenon DEF SaveRetrievalRun, RetrievalInv
<1>2. PICK v, since, run : v = call[c] /\ since = started[c] /\ run = v.run
  BY Zenon
<1>3. Decided(v, since) /\ Young(since) /\ v.phase = "save"
  BY Zenon, <1>1, <1>2 DEF CallFits
<1>4. since \in Nat /\ started' = [started EXCEPT ![c] = since]
  BY Zenon, <1>1, <1>2 DEF RetrievalInv
<1>5. RunFits(run) /\ run.query = v.query /\ run.expires \in Nat
  BY Zenon, <1>2, <1>3 DEF Decided, RunFits
<1>6. CASE UNCHANGED runs /\ Move(c, "winner")
  <2>1. UNCHANGED DB /\ UNCHANGED ledger
    BY Zenon, <1>1, <1>6 DEF DB, ledger
  <2>2. To(c, [v EXCEPT !.phase = "winner"])
    BY Zenon, <1>2, <1>6 DEF Move
  <2>3. CallFits([v EXCEPT !.phase = "winner"], since)
    BY Zenon, <1>3, ToWinner
  <2> QED  BY Zenon, <1>4, <2>1, <2>2, <2>3, CallMoved
<1>7. ASSUME RunAt(run.id) = {}, Persist(run), NEW next, To(c, next), CallFits(next, since)'
      PROVE  RetrievalInv' /\ [Next]_ledger
  <2>1. Keeps /\ LedgerFits' /\ SaveRun(run) /\ run \in runs'
    BY Zenon, <1>1, <1>5, <1>7, RunPersisted
  <2>2. RetrievalInv'
    BY Zenon, <1>4, <1>7, <2>1, CallWritten
  <2> QED  BY Zenon, <2>1, <2>2 DEF Next
<1>8. ASSUME RunAt(run.id) = {}, Persist(run), NEW next, CallFits(next, since)
      PROVE  CallFits(next, since)'
  BY Zenon, <1>1, <1>5, <1>8, RunPersisted, CallKept
<1>9. ASSUME RunAt(run.id) = {}, Persist(run)
      PROVE  RunKept(run)'
  BY Zenon, <1>9 DEF Persist, RunKept
<1>10. CASE RunAt(run.id) = {} /\ Persist(run) /\ Move(c, "winner")
  <2>1. PICK next : next = [v EXCEPT !.phase = "winner"]
    BY Zenon
  <2>2. To(c, next)
    BY Zenon, <1>2, <1>10, <2>1 DEF Move
  <2>3. CallFits(next, since)
    BY Zenon, <1>3, <2>1, ToWinner
  <2>4. CallFits(next, since)'
    BY Zenon, <1>8, <1>10, <2>3
  <2> QED  BY Zenon, <1>7, <1>10, <2>2, <2>4
<1>11. CASE RunAt(run.id) = {} /\ Persist(run) /\ Fail(c)
  <2>1. CallFits(Idle, since)'
    BY Zenon DEF CallFits, Idle
  <2> QED  BY Zenon, <1>7, <1>11, <2>1 DEF Fail
<1>12. CASE /\ RunAt(run.id) = {} /\ Persist(run) /\ run.disp = "abstained"
            /\ Answer(c, v.query, run, Fresh(run), None)
  <2>1. PICK next : next = [phase |-> "done", query |-> v.query, run |-> run,
                            candidates |-> Fresh(run), plan |-> None]
    BY Zenon
  <2>2. /\ next.phase = "done" /\ next.query = v.query /\ next.run = run /\ next.plan = None
        /\ next.candidates = Replayed(run)
    BY Zenon, <1>5, <2>1, FreshIsReplayed
  <2>3. CallFits(next, since)'
    BY Zenon, <1>5, <1>9, <1>12, <2>2 DEF CallFits, Served
  <2> QED  BY Zenon, <1>7, <1>12, <2>1, <2>3 DEF Answer
<1>13. CASE /\ RunAt(run.id) = {} /\ Persist(run) /\ run.disp \notin {"failed", "abstained"}
            /\ Move(c, "reread")
  <2>1. PICK next : next = [v EXCEPT !.phase = "reread"]
    BY Zenon
  <2>2. To(c, next)
    BY Zenon, <1>2, <1>13, <2>1 DEF Move
  <2>3. /\ DOMAIN next = DOMAIN v
        /\ next.phase = "reread" /\ next.run = run /\ next.query = v.query
    BY Zenon, <1>2, <1>3, <2>1 DEF Decided
  <2>4. Decided(next, since)
    BY Zenon, <1>2, <1>3, <2>3 DEF Decided
  <2>5. run.disp = "selected"
    BY Zenon, <1>5, <1>13 DEF RunFits, Dispositions
  <2>6. RunFits(run)'
    BY Zenon, <1>1, <1>5, <1>13, RunPersisted
  <2>7. Decided(next, since)' /\ Young(since)'
    BY Zenon, <1>1, <1>3, <2>3, <2>4, <2>6 DEF Decided, Young
  <2>8. CallFits(next, since)'
    BY Zenon, <1>9, <1>13, <2>3, <2>5, <2>7 DEF CallFits
  <2> QED  BY Zenon, <1>7, <1>13, <2>2, <2>8
<1> QED
  BY Zenon, <1>2, <1>6, <1>10, <1>11, <1>12, <1>13 DEF SaveRetrievalRun

(* The loser of a save, or a caller whose save was not confirmed, is       *)
(* served by the run that holds the identity (service.go:475-496).         *)
LEMMA WinnerStep ==
    ASSUME RetrievalInv, NEW c \in Callers, persistedWinner(c)
    PROVE  RetrievalInv'
<1>1. UNCHANGED DB /\ UNCHANGED started
  BY Zenon DEF persistedWinner
<1>2. call[c].phase = "winner" /\ CallFits(call[c], started[c]) /\ started[c] \in Nat
  BY Zenon DEF persistedWinner, RetrievalInv
<1>3. Young(started[c])
  BY Zenon, <1>2 DEF CallFits
<1>4. PICK since \in Nat : since = started[c]
  BY Zenon, <1>2
<1>5. started' = [started EXCEPT ![c] = since]
  BY Zenon, <1>1, <1>4 DEF RetrievalInv
<1>6. CASE Fail(c)
  BY Zenon, <1>1, <1>6, CallFails
<1>7. ASSUME NEW run \in RunAt(call[c].run.id), Resolve(c, call[c].query, run)
      PROVE  RetrievalInv'
  <2>1. run \in runs
    BY Zenon DEF RunAt
  <2> QED  BY Zenon, <1>1, <1>3, <1>4, <1>5, <1>7, <2>1, RunResolved
<1> QED
  BY Zenon, <1>6, <1>7 DEF persistedWinner

(* A run saved by a request that is still running has not expired, so the  *)
(* row that is read back is the one that was saved (service.go:333-345).   *)
LEMMA RereadStep ==
    ASSUME RetrievalInv, NEW c \in Callers, Reread(c)
    PROVE  RetrievalInv'
<1>1. UNCHANGED DB /\ UNCHANGED started
  BY Zenon DEF Reread
<1>2. PICK v, since, mine : v = call[c] /\ since = started[c] /\ mine = v.run
  BY Zenon
<1>3. v.phase = "reread" /\ CallFits(v, since) /\ since \in Nat
  BY Zenon, <1>2 DEF Reread, RetrievalInv
<1>4. /\ RunFits(mine) /\ mine.query = v.query /\ mine.expires >= since + TTL
      /\ Young(since) /\ RunKept(mine) /\ mine.disp = "selected"
  BY Zenon, <1>2, <1>3 DEF CallFits, Decided
<1>5. clock \in Nat /\ TTL \in Nat /\ mine.expires \in Nat
  BY Zenon, <1>4, LedgerAssumption DEF RetrievalInv, LedgerFits, RunFits
<1>6. mine \in runs
  BY <1>3, <1>4, <1>5, TimeoutAssumption DEF RunKept, Young
<1>7. CASE Fail(c)
  BY Zenon, <1>1, <1>7, CallFails
<1>8. ASSUME NEW run \in RunAt(mine.id), Within(c, v.query, run, FALSE, "plan")
      PROVE  RetrievalInv'
  <2>1. run = mine
    BY Zenon, <1>6 DEF RunAt, RetrievalInv, LedgerFits, OneDecisionPerRequest
  <2>2. CallFits([phase |-> "plan", query |-> v.query, run |-> run, replayed |-> FALSE], since)
    BY Zenon, <1>4, <2>1, PlanningFits
  <2> QED  BY Zenon, <1>1, <1>2, <1>8, <2>2, CallSteps DEF Within
<1> QED
  BY Zenon, <1>2, <1>7, <1>8 DEF Reread

(* What a request that wants a plan has in hand.                           *)
LEMMA WantsPlan ==
    ASSUME NEW v, NEW since, CallFits(v, since), v.phase \in {"plan", "issue", "insert", "settle"}
    PROVE  Planned(v) /\ Young(since)
BY Zenon DEF CallFits

(* A plan in the ledger that fits the run is attached to the answer, in a  *)
(* step that leaves the ledgers alone (service.go:452-465).                *)
LEMMA PlanAttached ==
    ASSUME RetrievalInv, UNCHANGED DB, UNCHANGED started, NEW c \in Callers,
           NEW s \in selections, NEW replayed,
           Planned(call[c]), Attach(c, call[c].run, s, replayed)
    PROVE  RetrievalInv'
<1>1. PICK v, since, run : v = call[c] /\ since = started[c] /\ run = v.run
  BY Zenon
<1>2. /\ RunFits(run) /\ RunKept(run) /\ run.disp = "selected" /\ run.query = v.query
      /\ run.expires \in Nat
  BY Zenon, <1>1 DEF Planned, RunFits
<1>3. s # None /\ PlanKept(s) /\ s.expires \in Nat
  BY Zenon, NoPlanAssumption DEF RetrievalInv, LedgerFits, PlanFits, PlanKept
<1>4. CASE Fail(c)
  BY Zenon, <1>4, CallFails
<1>5. ASSUME NEW candidates, Answer(c, v.query, run, candidates, s),
             candidates = Replayed(run),
             s.draft.query = run.query, s.draft.epoch = run.epoch
      PROVE  RetrievalInv'
  <2>1. CallFits([phase |-> "done", query |-> v.query, run |-> run,
                  candidates |-> candidates, plan |-> s], since)
    BY <1>2, <1>3, <1>5, AnswerFits
  <2> QED  BY Zenon, <1>1, <1>5, <2>1, CallSteps DEF Answer
<1>6. Fresh(run) = Replayed(run)
  BY Zenon, <1>2, FreshIsReplayed
<1> QED
  BY Zenon, <1>1, <1>4, <1>5, <1>6 DEF Attach

(* A request that wants a plan changes its phase and nothing else.         *)
LEMMA PlanningMoves ==
    ASSUME NEW v, NEW since, NEW phase \in {"issue", "settle"}, Planned(v), Young(since)
    PROVE  CallFits([v EXCEPT !.phase = phase], since)
<1>1. PICK next : next = [v EXCEPT !.phase = phase]
  BY Zenon
<1>2. /\ DOMAIN next = DOMAIN v
      /\ next.phase = phase /\ next.run = v.run /\ next.query = v.query
  BY Zenon, <1>1 DEF Planned
<1>3. CallFits(next, since)
  BY Zenon, <1>2 DEF Planned, CallFits
<1> QED  BY Zenon, <1>1, <1>3

(* FindByRetrievalRunID, and what attachPlan does with its result.         *)
LEMMA FindPlanStep ==
    ASSUME RetrievalInv, NEW c \in Callers, FindPlan(c)
    PROVE  RetrievalInv'
<1>1. UNCHANGED DB /\ UNCHANGED started /\ call[c].phase = "plan"
  BY Zenon DEF FindPlan
<1>2. Planned(call[c]) /\ Young(started[c])
  BY Zenon, <1>1, WantsPlan DEF RetrievalInv
<1>3. CASE Fail(c)
  BY Zenon, <1>1, <1>3, CallFails
<1>4. CASE Move(c, "issue")
  <2>1. PICK next : next = [call[c] EXCEPT !.phase = "issue"]
    BY Zenon
  <2>2. CallFits(next, started[c])
    BY Zenon, <1>2, <2>1, PlanningMoves
  <2> QED  BY Zenon, <1>1, <1>4, <2>1, <2>2, CallSteps DEF Move
<1>5. ASSUME NEW s \in ByRun(call[c].run.id), Attach(c, call[c].run, s, call[c].replayed)
      PROVE  RetrievalInv'
  <2>1. s \in selections
    BY Zenon DEF ByRun
  <2> QED  BY Zenon, <1>1, <1>2, <1>5, <2>1, PlanAttached
<1> QED
  BY Zenon, <1>3, <1>4, <1>5 DEF FindPlan

(* A row that holds the identity settles the request, one way or another   *)
(* (selection.go:156-190).                                                 *)
LEMMA SelectionResolved ==
    ASSUME RetrievalInv, UNCHANGED DB, UNCHANGED started, NEW c \in Callers,
           NEW s \in selections, Planned(call[c]), resolveSelection(c, call[c].run, s)
    PROVE  RetrievalInv'
BY Zenon, PlanAttached, CallFails DEF resolveSelection

(* commitOnce, as far as the transaction that inserts the plan.            *)
LEMMA CommitStep ==
    ASSUME RetrievalInv, NEW c \in Callers, commitOnce(c)
    PROVE  RetrievalInv'
<1>1. /\ UNCHANGED DB /\ UNCHANGED started /\ call[c].phase = "issue"
      /\ clock \in Nat
  BY Zenon DEF commitOnce, RetrievalInv, LedgerFits
<1>2. Planned(call[c]) /\ Young(started[c])
  BY Zenon, <1>1, WantsPlan DEF RetrievalInv
<1>3. CASE Fail(c)
  BY Zenon, <1>1, <1>3, CallFails
<1>4. ASSUME NEW s \in ByKey(IdentityOf[call[c].run.id]) \union ByRun(call[c].run.id),
             resolveSelection(c, call[c].run, s)
      PROVE  RetrievalInv'
  <2>1. s \in selections
    BY Zenon DEF ByRun, ByKey
  <2> QED  BY Zenon, <1>1, <1>2, <1>4, <2>1, SelectionResolved
<1>5. CASE To(c, [phase |-> "insert", query |-> call[c].query, run |-> call[c].run,
                  replayed |-> call[c].replayed, now |-> clock])
  <2>1. PICK next : next = [phase |-> "insert", query |-> call[c].query, run |-> call[c].run,
                            replayed |-> call[c].replayed, now |-> clock]
    BY Zenon
  <2>2. /\ DOMAIN next = {"phase", "query", "run", "replayed", "now"}
        /\ next.phase = "insert" /\ next.run = call[c].run /\ next.query = call[c].query
        /\ next.now = clock
    BY Zenon, <2>1
  <2>3. Planned(next)
    BY Zenon, <1>2, <2>2 DEF Planned
  <2>4. CallFits(next, started[c])
    BY <1>1, <1>2, <2>2, <2>3 DEF CallFits
  <2> QED  BY Zenon, <1>1, <1>5, <2>1, <2>4, CallSteps
<1> QED
  BY Zenon, <1>3, <1>4, <1>5 DEF commitOnce

(* The plan that is inserted is of a good run, under its own identity, and *)
(* kept for the retention from when it was issued (selection.go:66-120).   *)
LEMMA PlanInserted ==
    ASSUME RetrievalInv, NEW run, RunFits(run), NEW now \in Nat, now <= clock, Free(run),
           selections' = selections \union {Record(run, now)},
           UNCHANGED <<configs, active, runs, clock>>
    PROVE  LET s == Record(run, now)
           IN /\ Keeps /\ LedgerFits' /\ CommitSelection(s) /\ s \in selections'
              /\ PlanFits(s) /\ s # None
<1>1. PICK s : s = Record(run, now)
  BY Zenon
<1>2. s.run = run.id /\ s.key = IdentityOf[run.id] /\ s.expires = now + TTL
  BY Zenon, <1>1 DEF Record
<1>3. TTL \in Nat /\ clock \in Nat
  BY Zenon, LedgerAssumption DEF RetrievalInv, LedgerFits
<1>4. PlanFits(s) /\ s # None
  BY <1>2, <1>3, NoPlanAssumption DEF PlanFits, RunFits
<1>5. CommitSelection(s)
  BY <1>1, <1>2, <1>3 DEF CommitSelection, Free, RunFits
<1>6. s \in selections' /\ Keeps
  BY Zenon, <1>1 DEF Keeps, RunKept, PlanKept
<1>7. OneDecisionPerRequest'
  BY Zenon, <1>5, <1>6, DecisionStep DEF Next, RetrievalInv, LedgerFits
<1>8. \A t \in selections' : PlanFits(t)'
  BY Zenon, <1>1, <1>4 DEF RetrievalInv, LedgerFits, PlanFits
<1>9. LedgerFits'
  BY Zenon, <1>7, <1>8 DEF RetrievalInv, LedgerFits, RunFits
<1> QED
  BY Zenon, <1>1, <1>4, <1>5, <1>6, <1>9

(* The transaction that inserts the plan, answered, refused or lost        *)
(* (selection.go:66-120, issuer.go:60-110).                                *)
LEMMA InsertStep ==
    ASSUME RetrievalInv, NEW c \in Callers, Insert(c)
    PROVE  RetrievalInv' /\ [Next]_ledger
<1>1. /\ UNCHANGED <<configs, active, runs, clock>> /\ UNCHANGED started
      /\ call[c].phase = "insert" /\ CallFits(call[c], started[c]) /\ started[c] \in Nat
  BY Zenon DEF Insert, RetrievalInv
<1>2. PICK v, since, run : v = call[c] /\ since = started[c] /\ run = v.run
  BY Zenon
<1>3. /\ Planned(v) /\ Young(since) /\ v.phase = "insert"
      /\ "now" \in DOMAIN v /\ v.now \in Nat /\ v.now <= clock
  BY Zenon, <1>1, <1>2 DEF CallFits
<1>4. since \in Nat /\ started' = [started EXCEPT ![c] = since]
  BY Zenon, <1>1, <1>2 DEF RetrievalInv
<1>5. /\ RunFits(run) /\ RunKept(run) /\ run.disp = "selected" /\ run.query = v.query
      /\ run.expires \in Nat
  BY Zenon, <1>2, <1>3 DEF Planned, RunFits
<1>6. PICK s : s = Record(run, v.now)
  BY Zenon
<1>7. CASE UNCHANGED selections /\ Move(c, "settle")
  <2>1. UNCHANGED DB /\ UNCHANGED ledger
    BY Zenon, <1>1, <1>7 DEF DB, ledger
  <2>2. CallFits([v EXCEPT !.phase = "settle"], since)
    BY Zenon, <1>3, PlanningMoves
  <2>3. To(c, [v EXCEPT !.phase = "settle"])
    BY Zenon, <1>2, <1>7 DEF Move
  <2> QED  BY Zenon, <1>4, <2>1, <2>2, <2>3, CallMoved
<1>8. CASE UNCHANGED selections /\ To(c, [v EXCEPT !.phase = "settle", !.now = Conflict])
  <2>1. UNCHANGED DB /\ UNCHANGED ledger
    BY Zenon, <1>1, <1>8 DEF DB, ledger
  <2>2. PICK next : next = [v EXCEPT !.phase = "settle", !.now = Conflict]
    BY Zenon
  <2>3. /\ DOMAIN next = DOMAIN v
        /\ next.phase = "settle" /\ next.run = v.run /\ next.query = v.query
    BY Zenon, <1>3, <2>2 DEF Planned
  <2>4. CallFits(next, since)
    BY Zenon, <1>3, <2>3 DEF Planned, CallFits
  <2> QED  BY Zenon, <1>4, <1>8, <2>1, <2>2, <2>4, CallMoved
<1>9. CASE Free(run) /\ selections' = selections \union {s}
  <2>1. /\ Keeps /\ LedgerFits' /\ CommitSelection(s) /\ s \in selections'
        /\ PlanFits(s) /\ s # None
    BY Zenon, <1>1, <1>3, <1>5, <1>6, <1>9, PlanInserted
  <2>2. [Next]_ledger
    BY Zenon, <2>1 DEF Next
  <2>3. ASSUME NEW next, To(c, next), CallFits(next, since)
        PROVE  RetrievalInv'
    <3>1. CallFits(next, since)'
      BY Zenon, <2>1, <2>3, CallKept
    <3> QED  BY Zenon, <1>4, <2>1, <2>3, <3>1, CallWritten
  <2>4. CASE Move(c, "settle")
    <3>1. CallFits([v EXCEPT !.phase = "settle"], since)
      BY Zenon, <1>3, PlanningMoves
    <3>2. To(c, [v EXCEPT !.phase = "settle"])
      BY Zenon, <1>2, <2>4 DEF Move
    <3> QED  BY Zenon, <2>2, <2>3, <3>1, <3>2
  <2>5. CASE Fail(c)
    <3>1. CallFits(Idle, since)
      BY Zenon DEF CallFits, Idle
    <3> QED  BY Zenon, <2>2, <2>3, <2>5, <3>1 DEF Fail
  <2>6. ASSUME NEW candidates, Answer(c, v.query, run, candidates, s),
               candidates = Replayed(run),
               s.draft.query = run.query, s.draft.epoch = run.epoch
        PROVE  RetrievalInv'
    <3>1. PICK next : next = [phase |-> "done", query |-> v.query, run |-> run,
                              candidates |-> candidates, plan |-> s]
      BY Zenon
    <3>2. /\ next.phase = "done" /\ next.query = v.query /\ next.run = run /\ next.plan = s
          /\ next.candidates = candidates
      BY Zenon, <3>1
    <3>3. RunKept(run)' /\ PlanKept(s)' /\ s.expires \in Nat
      BY Zenon, <1>5, <2>1 DEF Keeps, PlanKept, PlanFits
    <3>4. CallFits(next, since)'
      BY Zenon, <1>5, <2>1, <2>6, <3>2, <3>3 DEF CallFits, Served
    <3> QED  BY Zenon, <1>4, <2>1, <2>6, <3>1, <3>4, CallWritten DEF Answer
  <2>7. ASSUME Attach(c, run, s, v.replayed) PROVE RetrievalInv'
    <3>1. Fresh(run) = Replayed(run)
      BY Zenon, <1>5, FreshIsReplayed
    <3> QED  BY Zenon, <1>2, <2>5, <2>6, <2>7, <3>1 DEF Attach
  <2> QED  BY Zenon, <1>2, <1>6, <1>9, <2>2, <2>4, <2>7 DEF Insert
<1> QED
  BY Zenon, <1>2, <1>6, <1>7, <1>8, <1>9 DEF Insert

(* The loser of the insert, or a writer that was not answered, is served   *)
(* by the row that holds the identity, or tries again.                     *)
LEMMA SettleStep ==
    ASSUME RetrievalInv, NEW c \in Callers, Settle(c)
    PROVE  RetrievalInv'
<1>1. UNCHANGED DB /\ UNCHANGED started /\ call[c].phase = "settle"
  BY Zenon DEF Settle
<1>2. Planned(call[c]) /\ Young(started[c])
  BY Zenon, <1>1, WantsPlan DEF RetrievalInv
<1>3. CASE Fail(c)
  BY Zenon, <1>1, <1>3, CallFails
<1>4. ASSUME NEW s \in ByKey(IdentityOf[call[c].run.id]), resolveSelection(c, call[c].run, s)
      PROVE  RetrievalInv'
  <2>1. s \in selections
    BY Zenon DEF ByKey
  <2> QED  BY Zenon, <1>1, <1>2, <1>4, <2>1, SelectionResolved
<1>5. CASE Within(c, call[c].query, call[c].run, call[c].replayed, "issue")
  <2>1. CallFits([phase |-> "issue", query |-> call[c].query, run |-> call[c].run,
                  replayed |-> call[c].replayed], started[c])
    BY Zenon, <1>2, PlanningFits DEF Planned
  <2> QED  BY Zenon, <1>1, <1>5, <2>1, CallSteps DEF Within
<1> QED
  BY Zenon, <1>3, <1>4, <1>5 DEF Settle

(* What a request has in hand when time passes: a request past its         *)
(* deadline has failed, and one that has not is still within it.           *)
LEMMA TickStep ==
    ASSUME RetrievalInv, Tick
    PROVE  RetrievalInv'
<1>1. /\ clock \in Nat /\ clock' = clock + 1 /\ TTL \in Nat /\ RequestTimeout \in Nat
      /\ UNCHANGED <<configs, active, runs, selections>>
  BY Zenon, LedgerAssumption, TimeoutAssumption DEF Tick, RetrievalInv, LedgerFits
<1>2. ASSUME NEW r, RunFits(r) PROVE RunFits(r)'
  BY <1>1, <1>2 DEF RunFits
<1>3. LedgerFits'
  BY <1>1, <1>2 DEF RetrievalInv, LedgerFits, OneDecisionPerRequest, PlanFits
<1>4. DOMAIN call' = Callers /\ started' \in [Callers -> Nat]
  BY <1>1 DEF Tick, RetrievalInv
<1>5. ASSUME NEW r, r.expires \in Nat, RunKept(r) PROVE RunKept(r)'
  BY <1>1, <1>5 DEF RunKept
<1>6. ASSUME NEW s, s.expires \in Nat, PlanKept(s) PROVE PlanKept(s)'
  BY <1>1, <1>6 DEF PlanKept
<1>7. ASSUME NEW c \in Callers PROVE CallFits(call[c], started[c])'
  <2>1. PICK v, since : v = call[c] /\ since = started[c]
    BY Zenon
  <2>2. CallFits(v, since) /\ since \in Nat
    BY Zenon, <2>1 DEF RetrievalInv
  <2>3. CASE v.phase # "done" /\ clock + 1 > since + RequestTimeout
    <3>1. call'[c] = Idle
      BY Zenon, <2>1, <2>3 DEF Tick
    <3> QED  BY <3>1 DEF CallFits, Idle
  <2>4. CASE v.phase = "done"
    <3>1. call'[c] = v
      BY Zenon, <2>1, <2>4 DEF Tick
    <3>2. Served(v)
      BY Zenon, <2>2, <2>4 DEF CallFits
    <3>3. Served(v)'
      BY Zenon, <3>2, <1>5, <1>6 DEF Served
    <3> QED  BY Zenon, <2>4, <3>1, <3>3 DEF CallFits
  <2>5. CASE v.phase = "idle" /\ clock + 1 <= since + RequestTimeout
    <3>1. call'[c] = v
      BY <1>1, <2>1, <2>2, <2>5 DEF Tick
    <3> QED  BY Zenon, <2>5, <3>1 DEF CallFits
  <2>6. CASE v.phase \notin {"idle", "done"} /\ clock + 1 <= since + RequestTimeout
    <3>1. call'[c] = v /\ started'[c] = since
      BY <1>1, <2>1, <2>2, <2>6 DEF Tick
    <3>2. Young(since)'
      BY <1>1, <2>2, <2>6 DEF Young, CallFits
    <3>3. Decided(v, since) => Decided(v, since)'
      BY Zenon, <1>2 DEF Decided
    <3>4. Planned(v) => Planned(v)'
      BY Zenon, <1>2, <1>5 DEF Planned, RunFits
    <3>5. Decided(v, since) /\ RunKept(v.run) => RunKept(v.run)'
      BY Zenon, <1>5 DEF Decided, RunFits
    <3>6. v.now \in Nat /\ v.now <= clock => v.now <= clock'
      BY <1>1
    <3>7. CallFits(v, since)'
      BY Zenon, <1>1, <2>2, <2>6, <3>2, <3>3, <3>4, <3>5, <3>6 DEF CallFits
    <3> QED  BY Zenon, <3>1, <3>7
  <2> QED
    BY <1>1, <2>2, <2>3, <2>4, <2>5, <2>6
<1> QED  BY Zenon, <1>3, <1>4, <1>7 DEF RetrievalInv

(* Expiry takes rows whose time is over.                                   *)
LEMMA ExpireStep ==
    ASSUME RetrievalInv, NEW cutoff \in 0..clock, ExpireTransient(cutoff)
    PROVE  RetrievalInv' /\ Expire
<1>1. PICK S \in SUBSET {s \in selections : s.expires <= cutoff},
           R \in SUBSET {r \in runs : r.expires <= cutoff} :
         selections' = selections \ S /\ runs' = runs \ R
  BY Zenon DEF ExpireTransient
<1>2. /\ UNCHANGED <<configs, active, clock>> /\ UNCHANGED <<call, started>>
      /\ clock \in Nat /\ cutoff \in Nat /\ cutoff <= clock
  BY DEF ExpireTransient, RetrievalInv, LedgerFits
<1>3. (\A r \in R : r.expires <= clock) /\ (\A s \in S : s.expires <= clock)
  <2>1. ASSUME NEW r \in R PROVE r.expires <= clock
    BY <1>2 DEF RetrievalInv, LedgerFits, RunFits
  <2>2. ASSUME NEW s \in S PROVE s.expires <= clock
    BY <1>2 DEF RetrievalInv, LedgerFits, PlanFits
  <2> QED  BY Zenon, <2>1, <2>2
<1>4. Expire
  BY Zenon, <1>1, <1>2, <1>3 DEF Expire
<1>5. Keeps
  BY Zenon, <1>1, <1>2, <1>3 DEF Keeps, RunKept, PlanKept
<1>6. OneDecisionPerRequest'
  BY Zenon, <1>4, DecisionStep DEF Next, RetrievalInv, LedgerFits
<1>7. LedgerFits'
  BY Zenon, <1>1, <1>2, <1>6 DEF RetrievalInv, LedgerFits, RunFits, PlanFits
<1>8. ASSUME NEW c \in Callers PROVE CallFits(call[c], started[c])'
  <2>1. PICK v, since : v = call[c] /\ since = started[c]
    BY Zenon
  <2>2. CallFits(v, since)
    BY Zenon, <2>1 DEF RetrievalInv
  <2>3. CallFits(v, since)'
    BY Zenon, <1>5, <2>2, CallKept
  <2> QED  BY Zenon, <1>2, <2>1, <2>3
<1> QED
  BY Zenon, <1>2, <1>4, <1>7, <1>8 DEF RetrievalInv

(* Activation only adds a configuration, which becomes the head.           *)
LEMMA ActivateStep ==
    ASSUME RetrievalInv, NEW cfg \in Configs, Activate(cfg)
    PROVE  RetrievalInv'
<1>1. /\ configs' = configs \union {cfg} /\ active' = cfg
      /\ UNCHANGED <<runs, selections, clock>> /\ UNCHANGED <<call, started>>
  BY Zenon DEF Activate, ActivateServingConfig
<1>2. Keeps
  BY Zenon, <1>1 DEF Keeps, RunKept, PlanKept
<1>3. LedgerFits'
  BY Zenon, <1>1 DEF RetrievalInv, LedgerFits, OneDecisionPerRequest, RunFits, PlanFits
<1>4. ASSUME NEW c \in Callers PROVE CallFits(call[c], started[c])'
  <2>1. PICK v, since : v = call[c] /\ since = started[c]
    BY Zenon
  <2>2. CallFits(v, since)
    BY Zenon, <2>1 DEF RetrievalInv
  <2>3. CallFits(v, since)'
    BY Zenon, <1>2, <2>2, CallKept
  <2> QED  BY Zenon, <1>1, <2>1, <2>3
<1> QED
  BY Zenon, <1>1, <1>3, <1>4 DEF RetrievalInv

(* A step that touches neither the ledgers nor a request.                  *)
LEMMA NothingMoves ==
    ASSUME RetrievalInv, UNCHANGED <<DB, call, started>>
    PROVE  RetrievalInv'
BY DEF RetrievalInv, LedgerFits, OneDecisionPerRequest, RunFits, PlanFits, DB,
       CallFits, Young, Decided, Planned, Served, RunKept, PlanKept

(* Every step keeps the invariant, and is a step of the ledger or leaves   *)
(* it as it was.                                                           *)
LEMMA RetrievalStep ==
    ASSUME RetrievalInv, [RNext]_vars
    PROVE  RetrievalInv' /\ [Next]_ledger
<1>1. ASSUME NEW c \in Callers, NEW id \in RunIds, NEW q \in Queries, Retrieve(c, id, q)
      PROVE  RetrievalInv' /\ [Next]_ledger
  BY Zenon, <1>1, RetrieveStep DEF Retrieve, DB, ledger
<1>2. ASSUME NEW c \in Callers, AcquireServingSnapshot(c) PROVE RetrievalInv' /\ [Next]_ledger
  BY Zenon, <1>2, SnapshotStep DEF AcquireServingSnapshot, DB, ledger
<1>3. ASSUME NEW c \in Callers, Decide(c) PROVE RetrievalInv' /\ [Next]_ledger
  <2>1. RetrievalInv'
    BY Zenon, <1>3, DecideStep
  <2>2. UNCHANGED ledger
    BY Zenon, <1>3 DEF Decide, DB, ledger
  <2> QED  BY Zenon, <2>1, <2>2
<1>4. ASSUME NEW c \in Callers, SaveRetrievalRun(c) PROVE RetrievalInv' /\ [Next]_ledger
  BY Zenon, <1>4, SaveStep
<1>5. ASSUME NEW c \in Callers, persistedWinner(c) PROVE RetrievalInv' /\ [Next]_ledger
  BY Zenon, <1>5, WinnerStep DEF persistedWinner, DB, ledger
<1>6. ASSUME NEW c \in Callers, Reread(c) PROVE RetrievalInv' /\ [Next]_ledger
  BY Zenon, <1>6, RereadStep DEF Reread, DB, ledger
<1>7. ASSUME NEW c \in Callers, FindPlan(c) PROVE RetrievalInv' /\ [Next]_ledger
  BY Zenon, <1>7, FindPlanStep DEF FindPlan, DB, ledger
<1>8. ASSUME NEW c \in Callers, commitOnce(c) PROVE RetrievalInv' /\ [Next]_ledger
  BY Zenon, <1>8, CommitStep DEF commitOnce, DB, ledger
<1>9. ASSUME NEW c \in Callers, Insert(c) PROVE RetrievalInv' /\ [Next]_ledger
  BY Zenon, <1>9, InsertStep
<1>10. ASSUME NEW c \in Callers, Settle(c) PROVE RetrievalInv' /\ [Next]_ledger
  BY Zenon, <1>10, SettleStep DEF Settle, DB, ledger
<1>11. ASSUME NEW c \in Callers, Crash(c) PROVE RetrievalInv' /\ [Next]_ledger
  BY Zenon, <1>11, CallFails DEF Crash, DB, ledger
<1>12. ASSUME NEW cfg \in Configs, Activate(cfg) PROVE RetrievalInv' /\ [Next]_ledger
  BY Zenon, <1>12, ActivateStep DEF Activate, Next
<1>13. ASSUME NEW v \in Revised, NEW life \in Lifecycles, Publish(v, life)
       PROVE  RetrievalInv' /\ [Next]_ledger
  <2>1. UNCHANGED <<DB, call, started>> /\ UNCHANGED ledger
    BY Zenon, <1>13 DEF Publish, DB, ledger
  <2> QED  BY Zenon, <2>1, NothingMoves
<1>14. ASSUME NEW cutoff \in 0..clock, ExpireTransient(cutoff)
       PROVE  RetrievalInv' /\ [Next]_ledger
  BY Zenon, <1>14, ExpireStep DEF Next
<1>15. CASE Tick
  <2>1. clock \in Nat
    BY Zenon DEF RetrievalInv, LedgerFits
  <2>2. Pass
    BY <1>15, <2>1 DEF Tick, Pass
  <2> QED  BY Zenon, <1>15, <2>2, TickStep DEF Next
<1>16. CASE UNCHANGED vars
  <2>1. UNCHANGED <<DB, call, started>> /\ UNCHANGED ledger
    BY Zenon, <1>16 DEF vars, DB, ledger
  <2> QED  BY Zenon, <2>1, NothingMoves
<1> QED
  BY Zenon, <1>1, <1>2, <1>3, <1>4, <1>5, <1>6, <1>7, <1>8, <1>9, <1>10, <1>11, <1>12,
     <1>13, <1>14, <1>15, <1>16 DEF RNext, Step

(* The service starts with empty ledgers and without a request.            *)
LEMMA RetrievalStarts == RInit => RetrievalInv
<1> SUFFICES ASSUME RInit PROVE RetrievalInv
  BY Zenon
<1>1. LedgerFits
  BY Zenon DEF RInit, Init, LedgerFits, OneDecisionPerRequest
<1>2. \A c \in Callers : CallFits(call[c], started[c])
  BY Zenon DEF RInit, CallFits, Idle
<1> QED
  BY Zenon, <1>1, <1>2 DEF RInit, RetrievalInv

(* The inductive invariant of the retrieval path: what the ledgers hold    *)
(* and what each request has in hand at each of its phases.                *)
THEOREM RetrievalInvariant == RSpec => []RetrievalInv
BY RetrievalStarts, RetrievalStep, PTL DEF RSpec

(* No answer leaves the service before its run, and its plan if it has     *)
(* one, are committed (service.go:333-345, 475-496).                       *)
THEOREM AnswersCommitted == RSpec => []AnswersAreCommitted
<1>1. RetrievalInv => AnswersAreCommitted
  BY Zenon DEF RetrievalInv, CallFits, Served, AnswersAreCommitted, Answered, RunKept, PlanKept
<1> QED  BY <1>1, RetrievalInvariant, PTL

(* Two answers about one run row show the same candidates, and a caller is *)
(* answered from a run of the query it asked (service.go:195, 389-479).    *)
THEOREM AnswersAgree == RSpec => [](AnswersOwnQuestion /\ ReplayAgrees)
<1>1. ASSUME RetrievalInv, NEW c \in Answered
      PROVE  Served(call[c])
  BY Zenon, <1>1 DEF RetrievalInv, CallFits, Answered
<1>2. RetrievalInv => AnswersOwnQuestion /\ ReplayAgrees
  BY Zenon, <1>1 DEF Served, AnswersOwnQuestion, ReplayAgrees
<1> QED  BY <1>2, RetrievalInvariant, PTL

(* The SurrealDB transactions, with their lost answers, their conflicts    *)
(* and the expiry beside them, implement the atomic decision ledger        *)
(* (retrieval_run.go:191-288, selection.go:66-120).                        *)
THEOREM RetrievalImplementsLedger == RSpec => ImplementsDecisionLedger
<1>1. RInit => Init
  BY Zenon DEF RInit
<1>2. RetrievalInv /\ [RNext]_vars => [Next]_ledger
  BY Zenon, RetrievalStep
<1> QED
  BY <1>1, <1>2, RetrievalInvariant, PTL DEF RSpec, Spec, ImplementsDecisionLedger
-----------------------------------------------------------------------------
(* Which request made a run.  Every run and every plan that is stored or   *)
(* in hand carries the number of the request that built it; a number       *)
(* belongs to one run, and a request that has built no run yet has a       *)
(* number that no run and no plan carries.                                 *)

HasRun  == {"save", "invalid", "winner", "reread", "plan", "issue", "insert", "settle", "done"}
Waiting == {c \in Callers : call[c].phase \in {"snapshot", "decide"}}
KnownRuns  == runs \union {call[c].run : c \in {d \in Callers : call[d].phase \in HasRun}}
KnownPlans == selections \union
              {call[c].plan : c \in {d \in Answered : call[d].plan # None}}
Numbered(n) == n \in Nat /\ n < calls /\ \A c \in Waiting : call[c].by # n
PlanIsOf(s) == Numbered(s.by) /\ \A r \in KnownRuns : s.by = r.by => s.draft = Draft(r)
Provenance ==
    /\ calls \in Nat /\ DOMAIN call = Callers
    /\ \A r \in KnownRuns : Numbered(r.by)
    /\ \A r, q \in KnownRuns : r.by = q.by => r = q
    /\ \A s \in KnownPlans : PlanIsOf(s)
    /\ \A c \in Waiting : call[c].by \in Nat /\ call[c].by < calls
    /\ \A c, d \in Waiting : call[c].by = call[d].by => c = d

(* What a caller may move to without a new run: what it has in hand is     *)
(* known already, and a request still without a run keeps its number.      *)
Derived(c, next) ==
    /\ next.phase \in HasRun => next.run \in KnownRuns
    /\ next.phase = "done" /\ next.plan # None => PlanIsOf(next.plan)
    /\ next.phase \in {"snapshot", "decide"} => c \in Waiting /\ next.by = call[c].by

(* Such a move keeps the provenance of every run and plan.                 *)
LEMMA ProvenanceMoves ==
    ASSUME Provenance, NEW c \in Callers, NEW next, To(c, next), Derived(c, next),
           runs' \subseteq KnownRuns, \A s \in selections' : PlanIsOf(s), calls' = calls
    PROVE  Provenance'
<1>1. DOMAIN call' = Callers /\ call'[c] = next /\ \A d \in Callers \ {c} : call'[d] = call[d]
  BY Zenon DEF Provenance, To
<1>2. KnownRuns' \subseteq KnownRuns
  BY Zenon, <1>1 DEF KnownRuns, Derived
<1>3. \A d \in Waiting' : d \in Waiting /\ call'[d].by = call[d].by
  BY Zenon, <1>1 DEF Waiting, Derived
<1>4. \A n : Numbered(n) => Numbered(n)'
  BY Zenon, <1>3 DEF Numbered
<1>5. \A s : PlanIsOf(s) => PlanIsOf(s)'
  BY Zenon, <1>2, <1>4 DEF PlanIsOf
<1>6. \A s \in KnownPlans' : PlanIsOf(s)
  <2>1. ASSUME NEW d \in Callers, call'[d].phase = "done", call'[d].plan # None
        PROVE  PlanIsOf(call'[d].plan)
    <3>1. CASE d = c
      BY Zenon, <1>1, <2>1, <3>1 DEF Derived
    <3>2. CASE d # c
      BY Zenon, <1>1, <2>1, <3>2 DEF Provenance, KnownPlans, Answered
    <3> QED  BY Zenon, <3>1, <3>2
  <2> QED  BY Zenon, <2>1 DEF KnownPlans, Answered
<1> QED
  BY Zenon, <1>1, <1>2, <1>3, <1>4, <1>5, <1>6 DEF Provenance

(* The same when the rows that are left were there before.                 *)
LEMMA ProvenanceSteps ==
    ASSUME Provenance, NEW c \in Callers, NEW next, To(c, next), Derived(c, next),
           runs' \subseteq KnownRuns, selections' \subseteq selections, calls' = calls
    PROVE  Provenance'
<1>1. \A s \in selections' : PlanIsOf(s)
  BY Zenon DEF Provenance, KnownPlans
<1> QED  BY Zenon, <1>1, ProvenanceMoves

(* A failed request has nothing in hand.                                   *)
LEMMA IdleIsDerived == ASSUME NEW c PROVE Derived(c, Idle)
BY Zenon DEF Derived, Idle, HasRun

(* An answer from a known run, with a plan that is of it if it is of that  *)
(* very row.                                                               *)
LEMMA AnswerIsDerived ==
    ASSUME NEW c, NEW query, NEW run \in KnownRuns, NEW candidates, NEW plan,
           plan = None \/ PlanIsOf(plan)
    PROVE  Derived(c, [phase |-> "done", query |-> query, run |-> run,
                       candidates |-> candidates, plan |-> plan])
BY Zenon DEF Derived

(* A request that wants a plan for a known run.                            *)
LEMMA WithinIsDerived ==
    ASSUME NEW c, NEW query, NEW run \in KnownRuns, NEW replayed, NEW phase \in {"plan", "issue"}
    PROVE  Derived(c, [phase |-> phase, query |-> query, run |-> run, replayed |-> replayed])
BY Zenon DEF Derived

(* A request that changes its phase and keeps its run.                     *)
LEMMA MoveIsDerived ==
    ASSUME NEW c \in Callers, NEW phase \in HasRun \ {"done"}, call[c].phase \in HasRun,
           {"phase", "run"} \subseteq DOMAIN call[c]
    PROVE  Derived(c, [call[c] EXCEPT !.phase = phase])
<1>1. PICK next : next = [call[c] EXCEPT !.phase = phase]
  BY Zenon
<1>2. next.phase = phase /\ next.run = call[c].run
  BY Zenon, <1>1
<1>3. call[c].run \in KnownRuns
  BY Zenon DEF KnownRuns
<1>4. Derived(c, next)
  BY Zenon, <1>2, <1>3 DEF Derived, HasRun
<1> QED  BY Zenon, <1>1, <1>4

(* A run found in the ledger is known.                                     *)
LEMMA ResolveIsDerived ==
    ASSUME NEW c \in Callers, NEW query, NEW run \in runs, Resolve(c, query, run)
    PROVE  \E next : To(c, next) /\ Derived(c, next)
<1>1. run \in KnownRuns
  BY Zenon DEF KnownRuns
<1>2. CASE Fail(c)
  BY Zenon, <1>2, IdleIsDerived DEF Fail
<1>3. CASE Answer(c, query, run, Replayed(run), None)
  BY Zenon, <1>1, <1>3, AnswerIsDerived DEF Answer
<1>4. CASE Within(c, query, run, TRUE, "plan")
  BY Zenon, <1>1, <1>4, WithinIsDerived DEF Within
<1> QED
  BY Zenon, <1>2, <1>3, <1>4 DEF Resolve, responseFromRun

(* A plan in the ledger is of a run that is known, or of one that is gone. *)
LEMMA AttachIsDerived ==
    ASSUME NEW c \in Callers, NEW run \in KnownRuns, NEW s, PlanIsOf(s),
           NEW replayed, Attach(c, run, s, replayed)
    PROVE  \E next : To(c, next) /\ Derived(c, next)
<1>1. CASE Fail(c)
  BY Zenon, <1>1, IdleIsDerived DEF Fail
<1>2. ASSUME NEW candidates, Answer(c, call[c].query, run, candidates, s)
      PROVE  \E next : To(c, next) /\ Derived(c, next)
  BY Zenon, <1>2, AnswerIsDerived DEF Answer
<1> QED
  BY Zenon, <1>1, <1>2 DEF Attach

(* A new request has a number that nothing carries yet.                    *)
LEMMA ProvenanceRetrieve ==
    ASSUME Provenance, NEW c \in Callers, NEW id \in RunIds, NEW q \in Queries,
           Retrieve(c, id, q)
    PROVE  Provenance'
<1>1. UNCHANGED <<runs, selections>> /\ calls' = calls + 1 /\ calls \in Nat
  BY Zenon DEF Retrieve, DB, Provenance
<1>2. PICK next : /\ To(c, next)
                  /\ next.phase \in HasRun => next.run \in KnownRuns
                  /\ next.phase = "done" /\ next.plan # None => PlanIsOf(next.plan)
                  /\ next.phase \in {"snapshot", "decide"} => next.by = calls
  <2>1. CASE Fail(c)
    BY <2>1 DEF Fail, Idle, HasRun
  <2>2. CASE To(c, [phase |-> "snapshot", query |-> q, id |-> id, by |-> calls])
    BY <2>2 DEF HasRun
  <2>3. ASSUME NEW run \in RunAt(id), Resolve(c, q, run)
        PROVE  \E next : /\ To(c, next)
                         /\ next.phase \in HasRun => next.run \in KnownRuns
                         /\ next.phase = "done" /\ next.plan # None => PlanIsOf(next.plan)
                         /\ next.phase \in {"snapshot", "decide"} => next.by = calls
    <3>1. run \in KnownRuns
      BY Zenon DEF RunAt, KnownRuns
    <3> QED
      BY <2>1, <2>3, <3>1 DEF Resolve, responseFromRun, Answer, Within
  <2> QED  BY Zenon, <2>1, <2>2, <2>3 DEF Retrieve
<1>3. DOMAIN call' = Callers /\ call'[c] = next /\ \A d \in Callers \ {c} : call'[d] = call[d]
  BY Zenon, <1>2 DEF Provenance, To
<1>4. KnownRuns' \subseteq KnownRuns
  BY Zenon, <1>1, <1>2, <1>3 DEF KnownRuns
<1>5. \A d \in Waiting' : \/ d # c /\ d \in Waiting /\ call'[d].by = call[d].by
                          \/ d = c /\ call'[d].by = calls
  BY Zenon, <1>2, <1>3 DEF Waiting
<1>6. \A n : Numbered(n) => Numbered(n)'
  BY <1>1, <1>5 DEF Numbered
<1>7. \A s : PlanIsOf(s) => PlanIsOf(s)'
  BY Zenon, <1>4, <1>6 DEF PlanIsOf
<1>8. \A s \in KnownPlans' : PlanIsOf(s)
  <2>1. ASSUME NEW d \in Callers, call'[d].phase = "done", call'[d].plan # None
        PROVE  PlanIsOf(call'[d].plan)
    <3>1. CASE d = c
      BY Zenon, <1>2, <1>3, <2>1, <3>1
    <3>2. CASE d # c
      BY Zenon, <1>3, <2>1, <3>2 DEF Provenance, KnownPlans, Answered
    <3> QED  BY Zenon, <3>1, <3>2
  <2> QED  BY Zenon, <1>1, <2>1 DEF KnownPlans, Answered, Provenance
<1>9. \A d \in Waiting' : call'[d].by \in Nat /\ call'[d].by < calls'
  BY <1>1, <1>5 DEF Provenance
<1>10. \A d, e \in Waiting' : call'[d].by = call'[e].by => d = e
  BY <1>1, <1>5 DEF Provenance
<1> QED
  BY <1>1, <1>3, <1>4, <1>6, <1>7, <1>8, <1>9, <1>10 DEF Provenance

(* The run that a request builds is the first to carry its number.         *)
LEMMA ProvenanceDecide ==
    ASSUME Provenance, NEW c \in Callers, Decide(c)
    PROVE  Provenance'
<1>1. UNCHANGED <<runs, selections>> /\ calls' = calls /\ c \in Waiting
  BY Zenon DEF Decide, DB, Waiting
<1>2. PICK f \in ChannelResponses(call[c].config, call[c].epoch), lost \in BOOLEAN,
           judged \in BOOLEAN : \E run \in DecidedRuns(call[c], f, lost, judged) :
         To(c, [phase |-> IF ValidateRun(run) THEN "save" ELSE "invalid",
                query |-> call[c].query, run |-> run])
  BY Zenon DEF Decide
<1>2a. PICK run \in DecidedRuns(call[c], f, lost, judged) :
         To(c, [phase |-> IF ValidateRun(run) THEN "save" ELSE "invalid",
                query |-> call[c].query, run |-> run])
  BY Zenon, <1>2
<1>4. run.by = call[c].by
  BY <1>2a, DecidedRunFits
<1>5. PICK next : next = [phase |-> IF ValidateRun(run) THEN "save" ELSE "invalid",
                          query |-> call[c].query, run |-> run]
  BY Zenon
<1>6. next.phase \in {"save", "invalid"} /\ next.run = run
  BY Zenon, <1>5
<1>7. DOMAIN call' = Callers /\ call'[c] = next /\ \A d \in Callers \ {c} : call'[d] = call[d]
  BY Zenon, <1>2a, <1>5 DEF Provenance, To
<1>8. KnownRuns' \subseteq KnownRuns \union {run}
  BY Zenon, <1>1, <1>6, <1>7 DEF KnownRuns
<1>9. \A d \in Waiting' : d # c /\ d \in Waiting /\ call'[d] = call[d]
  BY Zenon, <1>6, <1>7 DEF Waiting
<1>10. KnownPlans' \subseteq KnownPlans
  BY Zenon, <1>1, <1>6, <1>7 DEF KnownPlans, Answered
<1>11. \A n : Numbered(n) => Numbered(n)'
  BY Zenon, <1>1, <1>9 DEF Numbered
<1>12. Numbered(run.by)' /\ \A n : Numbered(n) => n # run.by
  BY Zenon, <1>1, <1>4, <1>9 DEF Numbered, Provenance
<1>13. \A s : PlanIsOf(s) => PlanIsOf(s)'
  BY Zenon, <1>8, <1>11, <1>12 DEF PlanIsOf
<1>14. \A r, q \in KnownRuns' : r.by = q.by => r = q
  BY Zenon, <1>8, <1>12 DEF Provenance
<1> QED
  BY Zenon, <1>1, <1>7, <1>8, <1>9, <1>10, <1>11, <1>12, <1>13, <1>14 DEF Provenance

(* What a request that wants a plan has in hand is a known run.            *)
LEMMA HandIsKnown ==
    ASSUME NEW c \in Callers, call[c].phase \in HasRun
    PROVE  call[c].run \in KnownRuns
BY Zenon DEF KnownRuns

(* The plan issued for a known run is of that run, and of no other that    *)
(* carries its number.                                                     *)
LEMMA RecordIsOf ==
    ASSUME Provenance, NEW run \in KnownRuns, NEW now
    PROVE  PlanIsOf(Record(run, now))
<1>1. Record(run, now).by = run.by /\ Record(run, now).draft = Draft(run)
  BY Zenon DEF Record
<1> QED
  BY Zenon, <1>1 DEF Provenance, PlanIsOf

(* A step that only drops rows and requests keeps the provenance of the    *)
(* rest.                                                                   *)
LEMMA ProvenanceShrinks ==
    ASSUME Provenance, DOMAIN call' = Callers, calls' = calls,
           \A d \in Callers : call'[d] = call[d] \/ call'[d] = Idle,
           runs' \subseteq runs, selections' \subseteq selections
    PROVE  Provenance'
<1>1. Idle.phase \notin HasRun \union {"snapshot", "decide"}
  BY Zenon DEF Idle, HasRun
<1>2. KnownRuns' \subseteq KnownRuns
  BY Zenon, <1>1 DEF KnownRuns
<1>3. KnownPlans' \subseteq KnownPlans
  BY Zenon, <1>1 DEF KnownPlans, Answered, HasRun
<1>4. \A d \in Waiting' : d \in Waiting /\ call'[d].by = call[d].by
  BY Zenon, <1>1 DEF Waiting
<1>5. \A n : Numbered(n) => Numbered(n)'
  BY Zenon, <1>4 DEF Numbered
<1>6. \A s : PlanIsOf(s) => PlanIsOf(s)'
  BY Zenon, <1>2, <1>5 DEF PlanIsOf
<1> QED
  BY Zenon, <1>2, <1>3, <1>4, <1>5, <1>6 DEF Provenance

(* The snapshot leaves the request its number.                             *)
LEMMA ProvenanceSnapshot ==
    ASSUME Provenance, NEW c \in Callers, AcquireServingSnapshot(c)
    PROVE  Provenance'
<1>1. UNCHANGED <<runs, selections>> /\ calls' = calls /\ c \in Waiting
  BY Zenon DEF AcquireServingSnapshot, DB, Waiting
<1>2. runs' \subseteq KnownRuns
  BY Zenon, <1>1 DEF KnownRuns
<1>3. CASE Fail(c)
  BY Zenon, <1>1, <1>2, <1>3, IdleIsDerived, ProvenanceSteps DEF Fail
<1>4. CASE To(c, [phase |-> "decide", query |-> call[c].query, id |-> call[c].id,
                  by |-> call[c].by, config |-> active, epoch |-> epoch])
  <2>1. PICK next : next = [phase |-> "decide", query |-> call[c].query, id |-> call[c].id,
                            by |-> call[c].by, config |-> active, epoch |-> epoch]
    BY Zenon
  <2>2. next.phase = "decide" /\ next.by = call[c].by
    BY Zenon, <2>1
  <2>3. Derived(c, next)
    BY Zenon, <1>1, <2>2 DEF Derived, HasRun
  <2> QED  BY Zenon, <1>1, <1>2, <1>4, <2>1, <2>3, ProvenanceSteps
<1> QED
  BY Zenon, <1>3, <1>4 DEF AcquireServingSnapshot

(* The run that is saved was in hand before.                               *)
LEMMA ProvenanceSave ==
    ASSUME Provenance, RetrievalInv, NEW c \in Callers, SaveRetrievalRun(c)
    PROVE  Provenance'
<1>1. UNCHANGED selections /\ calls' = calls /\ call[c].phase = "save"
  BY Zenon DEF SaveRetrievalRun
<1>2. {"phase", "run"} \subseteq DOMAIN call[c]
  BY Zenon, <1>1 DEF RetrievalInv, CallFits, Decided
<1>3. call[c].run \in KnownRuns /\ call[c].phase \in HasRun
  BY Zenon, <1>1, HandIsKnown DEF HasRun
<1>4. runs' \subseteq KnownRuns
  BY Zenon, <1>3 DEF SaveRetrievalRun, Persist, KnownRuns
<1>5. ASSUME NEW next, To(c, next), Derived(c, next) PROVE Provenance'
  BY Zenon, <1>1, <1>4, <1>5, ProvenanceSteps
<1>6. CASE Fail(c)
  BY Zenon, <1>5, <1>6, IdleIsDerived DEF Fail
<1>7. ASSUME NEW phase \in {"winner", "reread"}, Move(c, phase) PROVE Provenance'
  <2>1. Derived(c, [call[c] EXCEPT !.phase = phase])
    BY Zenon, <1>2, <1>3, MoveIsDerived DEF HasRun
  <2> QED  BY Zenon, <1>5, <1>7, <2>1 DEF Move
<1>8. CASE Answer(c, call[c].query, call[c].run, Fresh(call[c].run), None)
  BY Zenon, <1>3, <1>5, <1>8, AnswerIsDerived DEF Answer
<1> QED
  BY Zenon, <1>6, <1>7, <1>8 DEF SaveRetrievalRun

(* A row that is read is known.                                            *)
LEMMA ProvenanceRead ==
    ASSUME Provenance, NEW c \in Callers, persistedWinner(c) \/ Reread(c)
    PROVE  Provenance'
<1>1. UNCHANGED <<runs, selections>> /\ calls' = calls
  BY Zenon DEF persistedWinner, Reread, DB
<1>2. runs' \subseteq KnownRuns
  BY Zenon, <1>1 DEF KnownRuns
<1>3. ASSUME NEW next, To(c, next), Derived(c, next) PROVE Provenance'
  BY Zenon, <1>1, <1>2, <1>3, ProvenanceSteps
<1>4. CASE Fail(c)
  BY Zenon, <1>3, <1>4, IdleIsDerived DEF Fail
<1>5. ASSUME NEW run \in RunAt(call[c].run.id), Resolve(c, call[c].query, run)
      PROVE  Provenance'
  <2>1. run \in runs
    BY Zenon DEF RunAt
  <2> QED  BY Zenon, <1>3, <1>5, <2>1, ResolveIsDerived
<1>6. ASSUME NEW run \in RunAt(call[c].run.id), Within(c, call[c].query, run, FALSE, "plan")
      PROVE  Provenance'
  <2>1. run \in KnownRuns
    BY Zenon DEF RunAt, KnownRuns
  <2> QED  BY Zenon, <1>3, <1>6, <2>1, WithinIsDerived DEF Within
<1> QED
  BY Zenon, <1>4, <1>5, <1>6 DEF persistedWinner, Reread

(* The plan of an answer is a row of the ledger, or the one just issued.   *)
LEMMA ProvenancePlan ==
    ASSUME Provenance, RetrievalInv, NEW c \in Callers,
           FindPlan(c) \/ commitOnce(c) \/ Insert(c) \/ Settle(c)
    PROVE  Provenance'
<1>1. /\ UNCHANGED runs /\ calls' = calls
      /\ call[c].phase \in {"plan", "issue", "insert", "settle"}
  BY Zenon DEF FindPlan, commitOnce, Insert, Settle, DB
<1>2. {"phase", "run"} \subseteq DOMAIN call[c]
  BY Zenon, <1>1, WantsPlan DEF RetrievalInv, Planned
<1>3. call[c].run \in KnownRuns /\ call[c].phase \in HasRun /\ runs' \subseteq KnownRuns
  BY Zenon, <1>1, HandIsKnown DEF HasRun, KnownRuns
<1>4. PICK run : run = call[c].run
  BY Zenon
<1>5. \A s \in selections : PlanIsOf(s)
  BY Zenon DEF Provenance, KnownPlans
<1>6. \A s \in selections' : PlanIsOf(s)
  <2>1. CASE FindPlan(c) \/ commitOnce(c) \/ Settle(c)
    BY Zenon, <1>5, <2>1 DEF FindPlan, commitOnce, Settle, DB
  <2>2. CASE Insert(c)
    <3>1. PICK now : now = call[c].now
      BY Zenon
    <3>2. PlanIsOf(Record(run, now))
      BY Zenon, <1>3, <1>4, RecordIsOf
    <3>3. selections' \subseteq selections \union {Record(run, now)}
      BY Zenon, <1>4, <2>2, <3>1 DEF Insert
    <3> QED  BY Zenon, <1>5, <3>2, <3>3
  <2> QED  BY Zenon, <2>1, <2>2
<1>7. ASSUME NEW next, To(c, next), Derived(c, next) PROVE Provenance'
  BY Zenon, <1>1, <1>3, <1>6, <1>7, ProvenanceMoves
<1>8. CASE Fail(c)
  BY Zenon, <1>7, <1>8, IdleIsDerived DEF Fail
<1>9. ASSUME NEW phase \in {"issue", "settle"}, Move(c, phase) PROVE Provenance'
  <2>1. Derived(c, [call[c] EXCEPT !.phase = phase])
    BY Zenon, <1>2, <1>3, MoveIsDerived DEF HasRun
  <2> QED  BY Zenon, <1>7, <1>9, <2>1 DEF Move
<1>10. ASSUME NEW s, PlanIsOf(s), NEW replayed, Attach(c, run, s, replayed) PROVE Provenance'
  BY Zenon, <1>3, <1>4, <1>7, <1>10, AttachIsDerived
<1>11. ASSUME NEW s \in selections, resolveSelection(c, run, s) PROVE Provenance'
  BY Zenon, <1>5, <1>8, <1>10, <1>11 DEF resolveSelection
<1>12. CASE FindPlan(c)
  <2>1. ASSUME NEW s \in ByRun(run.id), Attach(c, run, s, call[c].replayed) PROVE Provenance'
    BY Zenon, <1>5, <1>10, <2>1 DEF ByRun
  <2> QED  BY Zenon, <1>4, <1>8, <1>9, <1>12, <2>1 DEF FindPlan
<1>13. CASE commitOnce(c)
  <2>1. ByKey(IdentityOf[run.id]) \subseteq selections /\ ByRun(run.id) \subseteq selections
    BY Zenon DEF ByKey, ByRun
  <2>2. CASE To(c, [phase |-> "insert", query |-> call[c].query, run |-> run,
                    replayed |-> call[c].replayed, now |-> clock])
    <3>1. PICK next : next = [phase |-> "insert", query |-> call[c].query, run |-> run,
                              replayed |-> call[c].replayed, now |-> clock]
      BY Zenon
    <3>2. next.phase = "insert" /\ next.run = run
      BY Zenon, <3>1
    <3>3. Derived(c, next)
      BY Zenon, <1>3, <1>4, <3>2 DEF Derived
    <3> QED  BY Zenon, <1>7, <2>2, <3>1, <3>3
  <2> QED  BY Zenon, <1>4, <1>8, <1>11, <1>13, <2>1, <2>2 DEF commitOnce
<1>14. CASE Insert(c)
  <2>1. PICK now : now = call[c].now
    BY Zenon
  <2>2. PlanIsOf(Record(run, now))
    BY Zenon, <1>3, <1>4, RecordIsOf
  <2>3. CASE To(c, [call[c] EXCEPT !.phase = "settle", !.now = Conflict])
    <3>1. PICK next : next = [call[c] EXCEPT !.phase = "settle", !.now = Conflict]
      BY Zenon
    <3>2. next.phase = "settle" /\ next.run = run
      BY Zenon, <1>2, <1>4, <3>1
    <3>3. Derived(c, next)
      BY Zenon, <1>3, <1>4, <3>2 DEF Derived
    <3> QED  BY Zenon, <1>7, <2>3, <3>1, <3>3
  <2>4. CASE Attach(c, run, Record(run, now), call[c].replayed)
    BY Zenon, <1>10, <2>2, <2>4
  <2> QED  BY Zenon, <1>4, <1>9, <1>14, <2>1, <2>3, <2>4 DEF Insert
<1>15. CASE Settle(c)
  <2>1. ByKey(IdentityOf[run.id]) \subseteq selections
    BY Zenon DEF ByKey
  <2>2. CASE Within(c, call[c].query, run, call[c].replayed, "issue")
    BY Zenon, <1>3, <1>4, <1>7, <2>2, WithinIsDerived DEF Within
  <2> QED  BY Zenon, <1>4, <1>8, <1>11, <1>15, <2>1, <2>2 DEF Settle
<1> QED
  BY Zenon, <1>12, <1>13, <1>14, <1>15

(* Every step keeps the provenance.                                        *)
LEMMA ProvenanceStep ==
    ASSUME Provenance, RetrievalInv, [RNext]_vars
    PROVE  Provenance'
<1>1. DOMAIN call = Callers
  BY Zenon DEF Provenance
<1>2. ASSUME NEW c \in Callers, Crash(c) PROVE Provenance'
  <2>1. runs' \subseteq KnownRuns /\ selections' \subseteq selections /\ calls' = calls
    BY Zenon, <1>2 DEF Crash, DB, KnownRuns
  <2> QED  BY Zenon, <1>2, <2>1, IdleIsDerived, ProvenanceSteps DEF Crash, Fail
<1>3. ASSUME NEW cfg \in Configs, Activate(cfg) PROVE Provenance'
  BY Zenon, <1>1, <1>3, ProvenanceShrinks DEF Activate, ActivateServingConfig
<1>4. ASSUME NEW v \in Revised, NEW life \in Lifecycles, Publish(v, life) PROVE Provenance'
  BY Zenon, <1>1, <1>4, ProvenanceShrinks DEF Publish, DB
<1>5. ASSUME NEW cutoff \in 0..clock, ExpireTransient(cutoff) PROVE Provenance'
  <2>1. runs' \subseteq runs /\ selections' \subseteq selections /\ UNCHANGED <<call, calls>>
    BY Zenon, <1>5 DEF ExpireTransient
  <2> QED  BY Zenon, <1>1, <2>1, ProvenanceShrinks
<1>6. CASE Tick
  <2>1. /\ DOMAIN call' = Callers /\ UNCHANGED <<runs, selections, calls>>
        /\ \A d \in Callers : call'[d] = call[d] \/ call'[d] = Idle
    BY Zenon, <1>6 DEF Tick
  <2> QED  BY Zenon, <2>1, ProvenanceShrinks
<1>7. CASE UNCHANGED vars
  <2>1. UNCHANGED <<runs, selections, call, calls>>
    BY Zenon, <1>7 DEF vars, ledger
  <2> QED  BY Zenon, <1>1, <2>1, ProvenanceShrinks
<1> QED
  BY Zenon, <1>2, <1>3, <1>4, <1>5, <1>6, <1>7, ProvenanceRetrieve, ProvenanceSnapshot,
     ProvenanceDecide, ProvenanceSave, ProvenanceRead, ProvenancePlan DEF RNext, Step

(* The plan in an answer is of the query and the projection epoch of the   *)
(* answer's run, and when it was issued for that very row, of its selected *)
(* versions and its configuration (service.go:452-465).                    *)
THEOREM PlansFitTheirRun == RSpec => []PlanFitsRun
<1>1. RInit => Provenance
  BY DEF RInit, Init, Provenance, KnownRuns, KnownPlans, Waiting, Answered, Idle, HasRun
<1>2. RetrievalInv /\ Provenance /\ [RNext]_vars => Provenance'
  BY Zenon, ProvenanceStep
<1>3. RetrievalInv /\ Provenance => PlanFitsRun
  <2> SUFFICES ASSUME RetrievalInv, Provenance, NEW c \in Answered, call[c].plan # None
               PROVE  LET plan == call[c].plan  run == call[c].run
                      IN /\ plan.draft.query = run.query /\ plan.draft.epoch = run.epoch
                         /\ plan.by = run.by => plan.draft = Draft(run)
    BY Zenon DEF PlanFitsRun
  <2>1. Served(call[c]) /\ c \in Callers /\ call[c].phase = "done"
    BY Zenon DEF RetrievalInv, CallFits, Answered
  <2>2. call[c].run \in KnownRuns /\ call[c].plan \in KnownPlans
    BY Zenon, <2>1 DEF KnownRuns, KnownPlans, HasRun
  <2> QED  BY Zenon, <2>1, <2>2 DEF Served, Provenance, PlanIsOf
<1> QED
  BY <1>1, <1>2, <1>3, RetrievalInvariant, PTL DEF RSpec
-----------------------------------------------------------------------------
(* What the service builds is valid: ranking and selection.                *)

(* A ranking lists eligible versions, each once (fusion.go:70-80).         *)
LEMMA RankingIsAList ==
    ASSUME NEW cfg \in Configs, NEW f, \A v : ChannelsOf(f, v) \in SUBSET Configured,
           NEW eligible \in SUBSET Versions, NEW judged \in BOOLEAN,
           NEW s \in Rankings(cfg, f, eligible, judged)
    PROVE  s \in [1..Cardinality(eligible) -> eligible] /\ IsInjective(s)
<1>1. PICK score : score = [v \in eligible |-> Score(cfg, v, ChannelsOf(f, v), judged)]
  BY Zenon
<1>2. PICK n : n = Cardinality(eligible)
  BY Zenon
<1>3. s \in [1..n -> eligible]
  BY Zenon, <1>2 DEF Rankings
<1>4. \A i, j \in 1..n : i < j =>
         score[s[i]] > score[s[j]] \/ (score[s[i]] = score[s[j]] /\ s[i] < s[j])
  BY Zenon, <1>1, <1>2 DEF Rankings
<1>5. \A v \in eligible : score[v] \in Int /\ v \in Int
  BY <1>1, RankingAssumption
<1>6. ASSUME NEW i \in 1..n, NEW j \in 1..n, s[i] = s[j] PROVE i = j
  BY <1>3, <1>4, <1>5, <1>6
<1>7. IsInjective(s)
  BY Zenon, <1>3, <1>6 DEF IsInjective
<1> QED  BY Zenon, <1>2, <1>3, <1>7

(* The selection is a part of the ranking, in its order                    *)
(* (service.go:309-324).                                                   *)
LEMMA SelectionFollowsRanking ==
    ASSUME NEW cfg, NEW f, NEW gates, NEW ranked, NEW judged,
           NEW selected \in Selections(cfg, f, gates, ranked, judged)
    PROVE  InRankOrder(selected, ranked)
<1>1. PICK fit : fit = {i \in DOMAIN ranked :
                 /\ gates[ranked[i]] # "advisory"
                 /\ Score(cfg, ranked[i], ChannelsOf(f, ranked[i]), judged) >= MinimumScore}
  BY Zenon
<1>2. PICK size : size = IF Cardinality(fit) < MaximumSelections THEN Cardinality(fit)
                                                                 ELSE MaximumSelections
  BY Zenon
<1>3. PICK at \in [1..size -> fit] :
         /\ \A k \in 1..size : \A i \in fit : i < at[k] <=> \E j \in 1..(k - 1) : at[j] = i
         /\ selected = [k \in 1..size |-> ranked[at[k]]]
  BY Zenon, <1>1, <1>2 DEF Selections
<1>4. at \in [DOMAIN selected -> DOMAIN ranked] /\ DOMAIN at = 1..size
  BY Zenon, <1>1, <1>3
<1>5. \A i \in DOMAIN at : selected[i] = ranked[at[i]]
  BY Zenon, <1>3
<1>6. ASSUME NEW i \in DOMAIN at, NEW j \in DOMAIN at, j < i PROVE at[j] < at[i]
  <2>1. j \in 1..(i - 1)
    BY <1>4, <1>6
  <2> QED  BY Zenon, <1>3, <1>4, <2>1
<1> QED  BY Zenon, <1>4, <1>5, <1>6 DEF InRankOrder

(* Channels answer with versions of the projection, through the channels   *)
(* of the deployment.                                                      *)
LEMMA CandidatesAreVersions ==
    ASSUME NEW cfg, NEW e, NEW f \in ChannelResponses(cfg, e), IndexesOf[cfg] \subseteq Configured,
           \A d \in docs : d.version \in Versions
    PROVE  /\ CollectCandidates(f) \in SUBSET Versions
           /\ \A v : ChannelsOf(f, v) \in SUBSET Configured
<1>1. PICK D \in SUBSET IndexesOf[cfg], h \in [IndexesOf[cfg] -> SUBSET Visible(e)] :
         f = [down |-> D, hits |-> h]
  <2>1. PICK D \in SUBSET IndexesOf[cfg],
             h \in {g \in [IndexesOf[cfg] -> SUBSET Visible(e)] :
                     \A ch \in IndexesOf[cfg] \ Approximate : g[ch] = Visible(e)} :
          f = [down |-> D, hits |-> h]
    BY DEF ChannelResponses
  <2> QED  BY Zenon, <2>1
<1>2. f.hits = h /\ DOMAIN h = IndexesOf[cfg]
  BY Zenon, <1>1
<1>3. Visible(e) \subseteq Versions
  BY Zenon DEF Visible
<1>4. Complete(f) \subseteq IndexesOf[cfg]
  BY Zenon, <1>2 DEF Complete
<1>5. \A ch \in Complete(f) : f.hits[ch] \subseteq Versions
  BY Zenon, <1>1, <1>2, <1>3, <1>4
<1>6. CollectCandidates(f) \in SUBSET Versions
  BY Zenon, <1>5 DEF CollectCandidates
<1>7. \A v : ChannelsOf(f, v) \in SUBSET Configured
  BY Zenon, <1>4 DEF ChannelsOf
<1> QED  BY Zenon, <1>6, <1>7

(* An empty list has no places.                                            *)
LEMMA EmptyList == DOMAIN <<>> = {} /\ Range(<<>>) = {} /\ IsInjective(<<>>)
<1>1. DOMAIN <<>> = {}
  OBVIOUS
<1> QED  BY Zenon, <1>1 DEF Range, IsInjective

(* A run without a selection.                                              *)
LEMMA UnselectedIsValid ==
    ASSUME NEW k, NEW found, NEW disp \in {"failed", "abstained"}, NEW code, code # "",
           NEW gates, NEW ranked,
           disp = "abstained" => DOMAIN gates = found,
           IsInjective(ranked),
           \A v \in Range(ranked) : v \in DOMAIN gates \intersect found /\ gates[v] # "rejected"
    PROVE  ValidateRun(buildRun(k, found, disp, code, gates, ranked, <<>>))
<1>1. PICK r : r = buildRun(k, found, disp, code, gates, ranked, <<>>)
  BY Zenon
<1>2. /\ r.disp = disp /\ r.code = code /\ r.gates = gates /\ r.found = found
      /\ r.ranked = ranked /\ r.selected = <<>>
  BY Zenon, <1>1 DEF buildRun
<1>3. DOMAIN r.selected = {}
  BY Zenon, <1>2, EmptyList
<1>4. InRankOrder(r.selected, r.ranked)
  <2> DEFINE at == [i \in {} |-> i]
  <2>1. at \in [DOMAIN r.selected -> DOMAIN r.ranked] /\ DOMAIN at = {}
    BY Zenon, <1>3
  <2> QED  BY Zenon, <2>1 DEF InRankOrder
<1>5. disp # "selected"
  OBVIOUS
<1>6. ValidateRun(r)
  BY Zenon, <1>2, <1>4, <1>5 DEF ValidateRun
<1> QED  BY Zenon, <1>1, <1>6

(* Every run the service builds passes the validation of its ledger, for   *)
(* any answers of the channels and the judge (service.go:226-333 against   *)
(* run.go:253-365).                                                        *)
LEMMA DecidedRunIsValid ==
    ASSUME NEW k, k.config \in Configs, IndexesOf[k.config] \subseteq Configured,
           \A d \in docs : d.version \in Versions,
           NEW f \in ChannelResponses(k.config, k.epoch), NEW lost, NEW judged \in BOOLEAN,
           NEW run \in DecidedRuns(k, f, lost, judged)
    PROVE  ValidateRun(run)
<1> DEFINE found    == CollectCandidates(f)
           gates    == Gates(k.config, k.epoch, found)
           eligible == {v \in DOMAIN gates : gates[v] # "rejected"}
<1>1. \/ \E code \in {"required_channel_unavailable", "candidate_snapshot_missing"} :
            run = buildRun(k, found, "failed", code, NoGates, <<>>, <<>>)
      \/ found = {} /\ run = buildRun(k, found, "abstained", "no_candidates", NoGates, <<>>, <<>>)
      \/ run = buildRun(k, found, "abstained", "no_eligible_candidates", gates, <<>>, <<>>)
      \/ \E ranked \in Rankings(k.config, f, eligible, judged) :
         \E selected \in Selections(k.config, f, gates, ranked, judged) :
            run = RankedRun(k, found, gates, ranked, selected)
  BY Zenon DEF DecidedRuns
<1>2. found \in SUBSET Versions /\ \A v : ChannelsOf(f, v) \in SUBSET Configured
  BY Zenon, CandidatesAreVersions
<1>3. DOMAIN gates = found /\ DOMAIN NoGates = {}
  BY Zenon DEF Gates, NoGates
<1>4. eligible \in SUBSET Versions /\ \A v \in eligible : v \in DOMAIN gates /\ v \in found /\ gates[v] # "rejected"
  BY Zenon, <1>2, <1>3
<1> HIDE DEF found, gates, eligible
<1>5. \A g : \A v \in Range(<<>>) : v \in DOMAIN g \intersect found /\ g[v] # "rejected"
  BY Zenon, EmptyList
<1>6. ASSUME NEW code \in {"required_channel_unavailable", "candidate_snapshot_missing"}
      PROVE  ValidateRun(buildRun(k, found, "failed", code, NoGates, <<>>, <<>>))
  <2>1. code # ""
    OBVIOUS
  <2> QED  BY Zenon, <1>5, <2>1, EmptyList, UnselectedIsValid
<1>7. ASSUME found = {}
      PROVE  ValidateRun(buildRun(k, found, "abstained", "no_candidates", NoGates, <<>>, <<>>))
  BY Zenon, <1>3, <1>5, <1>7, EmptyList, UnselectedIsValid
<1>8. ValidateRun(buildRun(k, found, "abstained", "no_eligible_candidates", gates, <<>>, <<>>))
  BY Zenon, <1>3, <1>5, EmptyList, UnselectedIsValid
<1>9. ASSUME NEW ranked \in Rankings(k.config, f, eligible, judged),
             NEW selected \in Selections(k.config, f, gates, ranked, judged)
      PROVE  ValidateRun(RankedRun(k, found, gates, ranked, selected))
  <2>1. ranked \in [1..Cardinality(eligible) -> eligible] /\ IsInjective(ranked)
    BY Zenon, <1>2, <1>4, RankingIsAList
  <2>2. \A v \in Range(ranked) : v \in DOMAIN gates \intersect found /\ gates[v] # "rejected"
    BY Zenon, <1>4, <2>1 DEF Range
  <2>3. InRankOrder(selected, ranked)
    BY Zenon, SelectionFollowsRanking
  <2>4. CASE selected = <<>>
    <3>1. ValidateRun(buildRun(k, found, "abstained", "below_confidence_threshold", gates,
                               ranked, <<>>))
      BY Zenon, <1>3, <2>1, <2>2, UnselectedIsValid
    <3> QED  BY Zenon, <2>4, <3>1 DEF RankedRun
  <2>5. CASE selected # <<>>
    <3>1. PICK r : r = buildRun(k, found, "selected", "", gates, ranked, selected)
      BY Zenon
    <3>2. /\ r.disp = "selected" /\ r.code = "" /\ r.gates = gates /\ r.found = found
          /\ r.ranked = ranked /\ r.selected = selected
      BY Zenon, <3>1 DEF buildRun
    <3>3. ValidateRun(r)
      BY Zenon, <1>3, <2>1, <2>2, <2>3, <2>5, <3>2 DEF ValidateRun
    <3> QED  BY Zenon, <2>5, <3>1, <3>3 DEF RankedRun
  <2> QED  BY Zenon, <2>4, <2>5
<1> QED  BY Zenon, <1>1, <1>6, <1>7, <1>8, <1>9

-----------------------------------------------------------------------------
(* The ranges that the decision relies on: what a request has read of the  *)
(* serving configuration and the projection, and the bounds of the rest.   *)

HandFits(v) ==
    /\ v.phase # "invalid"
    /\ v.phase = "snapshot" => v.query \in Queries
    /\ v.phase = "decide" => /\ v.query \in Queries /\ v.epoch \in 1..epoch
                             /\ IndexesOf[v.config] \subseteq Configured
    /\ v.phase = "save" => v.run.query \in Queries /\ v.run.epoch \in 1..epoch
RowsFit == /\ \A r \in runs : r.query \in Queries /\ r.epoch \in 1..epoch
           /\ \A s \in selections : s.expires <= MaxTime + TTL
Ranges ==
    /\ configs \subseteq Configs /\ epoch \in 1..MaxEpoch /\ clock <= MaxTime
    /\ \A d \in docs : d.version \in Versions
    /\ RowsFit
    /\ \A c \in Callers : HandFits(call[c])

(* A request that moves while the epoch stays.                             *)
LEMMA HandMoves ==
    ASSUME RetrievalInv, Ranges, UNCHANGED <<epoch, docs, configs, clock>>, RowsFit',
           NEW c \in Callers, NEW next, To(c, next), HandFits(next)
    PROVE  Ranges'
<1>1. \A v : HandFits(v) => HandFits(v)'
  BY Zenon DEF HandFits
<1>2. ASSUME NEW d \in Callers PROVE HandFits(call[d])'
  <2>1. CASE d = c
    <3>1. call'[d] = next
      BY Zenon, <2>1 DEF RetrievalInv, To
    <3> QED  BY Zenon, <1>1, <3>1
  <2>2. CASE d # c
    <3>1. call'[d] = call[d]
      BY Zenon, <2>2 DEF RetrievalInv, To
    <3>2. HandFits(call[d])
      BY Zenon DEF Ranges
    <3> QED  BY Zenon, <1>1, <3>1, <3>2
  <2> QED  BY Zenon, <2>1, <2>2
<1> QED  BY Zenon, <1>2 DEF Ranges

(* Most moves end in a phase that asks for nothing.                        *)
LEMMA HandFree ==
    ASSUME NEW v, v.phase \notin {"invalid", "snapshot", "decide", "save"}
    PROVE  HandFits(v)
BY Zenon DEF HandFits

(* The moves of a request that do not write.                               *)
LEMMA HandSteps ==
    ASSUME NEW c \in Callers, NEW query, NEW run
    PROVE  /\ Fail(c) => \E next : To(c, next) /\ HandFits(next)
           /\ Resolve(c, query, run) => \E next : To(c, next) /\ HandFits(next)
           /\ \A replayed : \A phase \in {"plan", "issue"} :
                 Within(c, query, run, replayed, phase) =>
                    \E next : To(c, next) /\ HandFits(next)
           /\ \A candidates, plan : Answer(c, query, run, candidates, plan) =>
                 \E next : To(c, next) /\ HandFits(next)
<1>1. HandFits(Idle)
  BY Zenon, HandFree DEF Idle
<1>2. Fail(c) => \E next : To(c, next) /\ HandFits(next)
  BY Zenon, <1>1 DEF Fail
<1>3. ASSUME NEW replayed, NEW phase \in {"plan", "issue"}, Within(c, query, run, replayed, phase)
      PROVE  \E next : To(c, next) /\ HandFits(next)
  <2>1. PICK next : next = [phase |-> phase, query |-> query, run |-> run, replayed |-> replayed]
    BY Zenon
  <2>2. next.phase = phase
    BY Zenon, <2>1
  <2>3. HandFits(next)
    BY Zenon, <1>3, <2>2, HandFree
  <2> QED  BY Zenon, <1>3, <2>1, <2>3 DEF Within
<1>4. ASSUME NEW candidates, NEW plan, Answer(c, query, run, candidates, plan)
      PROVE  \E next : To(c, next) /\ HandFits(next)
  <2>1. PICK next : next = [phase |-> "done", query |-> query, run |-> run,
                            candidates |-> candidates, plan |-> plan]
    BY Zenon
  <2>2. next.phase = "done"
    BY Zenon, <2>1
  <2>3. HandFits(next)
    BY Zenon, <2>2, HandFree
  <2> QED  BY Zenon, <1>4, <2>1, <2>3 DEF Answer
<1>5. Resolve(c, query, run) => \E next : To(c, next) /\ HandFits(next)
  BY Zenon, <1>2, <1>3, <1>4 DEF Resolve, responseFromRun
<1> QED  BY Zenon, <1>2, <1>3, <1>4, <1>5

(* Retrieve takes a query it was asked.                                    *)
LEMMA RangesRetrieve ==
    ASSUME RetrievalInv, Ranges, NEW c \in Callers, NEW id \in RunIds, NEW q \in Queries,
           Retrieve(c, id, q)
    PROVE  Ranges'
<1>1. UNCHANGED <<epoch, docs, configs, clock, runs, selections>>
  BY Zenon DEF Retrieve, DB
<1>2. RowsFit'
  BY Zenon, <1>1 DEF Ranges, RowsFit
<1>3. CASE To(c, [phase |-> "snapshot", query |-> q, id |-> id, by |-> calls])
  <2>1. PICK next : next = [phase |-> "snapshot", query |-> q, id |-> id, by |-> calls]
    BY Zenon
  <2>2. next.phase = "snapshot" /\ next.query = q
    BY Zenon, <2>1
  <2>3. HandFits(next)
    BY Zenon, <2>2 DEF HandFits
  <2> QED  BY Zenon, <1>1, <1>2, <1>3, <2>1, <2>3, HandMoves
<1>4. CASE Fail(c) \/ \E run \in RunAt(id) : Resolve(c, q, run)
  BY Zenon, <1>1, <1>2, <1>4, HandSteps, HandMoves
<1> QED  BY Zenon, <1>3, <1>4 DEF Retrieve

(* The snapshot takes a configuration whose channels this deployment has   *)
(* (service.go:348-372).                                                   *)
LEMMA RangesSnapshot ==
    ASSUME RetrievalInv, Ranges, NEW c \in Callers, AcquireServingSnapshot(c)
    PROVE  Ranges'
<1>1. UNCHANGED <<epoch, docs, configs, clock, runs, selections>> /\ call[c].phase = "snapshot"
  BY Zenon DEF AcquireServingSnapshot, DB
<1>2. RowsFit'
  BY Zenon, <1>1 DEF Ranges, RowsFit
<1>3. CASE /\ snapshotChannels(active)
           /\ To(c, [phase |-> "decide", query |-> call[c].query, id |-> call[c].id,
                     by |-> call[c].by, config |-> active, epoch |-> epoch])
  <2>1. PICK next : next = [phase |-> "decide", query |-> call[c].query, id |-> call[c].id,
                            by |-> call[c].by, config |-> active, epoch |-> epoch]
    BY Zenon
  <2>2. /\ next.phase = "decide" /\ next.query = call[c].query /\ next.config = active
        /\ next.epoch = epoch
    BY Zenon, <2>1
  <2>3. call[c].query \in Queries /\ IndexesOf[active] \subseteq Configured
    BY Zenon, <1>1, <1>3 DEF Ranges, HandFits, snapshotChannels
  <2>4. epoch \in 1..epoch
    BY BoundAssumption DEF Ranges
  <2>5. HandFits(next)
    BY Zenon, <2>2, <2>3, <2>4 DEF HandFits
  <2> QED  BY Zenon, <1>1, <1>2, <1>3, <2>1, <2>5, HandMoves
<1>4. CASE Fail(c)
  BY Zenon, <1>1, <1>2, <1>4, HandSteps, HandMoves
<1> QED  BY Zenon, <1>3, <1>4 DEF AcquireServingSnapshot

(* The run that a request builds is valid, of its query and its epoch.     *)
LEMMA RangesDecide ==
    ASSUME RetrievalInv, Ranges, NEW c \in Callers, Decide(c)
    PROVE  Ranges'
<1>1. UNCHANGED <<epoch, docs, configs, clock, runs, selections>> /\ call[c].phase = "decide"
  BY Zenon DEF Decide, DB
<1>2. RowsFit'
  BY Zenon, <1>1 DEF Ranges, RowsFit
<1>3. PICK k : k = call[c]
  BY Zenon
<1>4. PICK f \in ChannelResponses(k.config, k.epoch), lost \in BOOLEAN,
           judged \in BOOLEAN : \E run \in DecidedRuns(k, f, lost, judged) :
         To(c, [phase |-> IF ValidateRun(run) THEN "save" ELSE "invalid",
                query |-> k.query, run |-> run])
  BY Zenon, <1>3 DEF Decide
<1>4a. PICK run \in DecidedRuns(k, f, lost, judged) :
         To(c, [phase |-> IF ValidateRun(run) THEN "save" ELSE "invalid",
                query |-> k.query, run |-> run])
  BY Zenon, <1>4
<1>5. k.config \in Configs
  BY Zenon, <1>1, <1>3 DEF RetrievalInv, CallFits, Ranges
<1>6. k.query \in Queries /\ k.epoch \in 1..epoch /\ IndexesOf[k.config] \subseteq Configured
  BY Zenon, <1>1, <1>3 DEF Ranges, HandFits
<1>7. ValidateRun(run)
  <2>1. \A d \in docs : d.version \in Versions
    BY Zenon DEF Ranges
  <2> QED  BY Zenon, <1>5, <1>6, <2>1, DecidedRunIsValid
<1>9. run.query = k.query /\ run.epoch = k.epoch
  BY <1>4a, DecidedRunFits
<1>10. PICK next : next = [phase |-> "save", query |-> k.query, run |-> run]
  BY Zenon
<1>11. next.phase = "save" /\ next.run = run
  BY Zenon, <1>10
<1>12. HandFits(next)
  BY Zenon, <1>6, <1>9, <1>11 DEF HandFits
<1>13. To(c, next)
  BY Zenon, <1>4a, <1>7, <1>10
<1> QED  BY Zenon, <1>1, <1>2, <1>12, <1>13, HandMoves

(* The run that is saved was built by the request.                         *)
LEMMA RangesSave ==
    ASSUME RetrievalInv, Ranges, NEW c \in Callers, SaveRetrievalRun(c)
    PROVE  Ranges'
<1>1. UNCHANGED <<epoch, docs, configs, clock, selections>> /\ call[c].phase = "save"
  BY Zenon DEF SaveRetrievalRun
<1>2. RowsFit'
  <2>1. call[c].run.query \in Queries /\ call[c].run.epoch \in 1..epoch
    BY Zenon, <1>1 DEF Ranges, HandFits
  <2>2. runs' \subseteq runs \union {call[c].run}
    BY Zenon DEF SaveRetrievalRun, Persist
  <2> QED  BY Zenon, <1>1, <2>1, <2>2 DEF Ranges, RowsFit
<1>3. ASSUME NEW phase \in {"winner", "reread"}, Move(c, phase) PROVE Ranges'
  <2>1. PICK next : next = [call[c] EXCEPT !.phase = phase]
    BY Zenon
  <2>2. "phase" \in DOMAIN call[c]
    BY Zenon, <1>1 DEF RetrievalInv, CallFits, Decided
  <2>3. next.phase = phase
    BY Zenon, <2>1, <2>2
  <2>4. HandFits(next)
    BY Zenon, <1>3, <2>3, HandFree
  <2> QED  BY Zenon, <1>1, <1>2, <1>3, <2>1, <2>4, HandMoves DEF Move
<1>4. CASE Fail(c) \/ Answer(c, call[c].query, call[c].run, Fresh(call[c].run), None)
  BY Zenon, <1>1, <1>2, <1>4, HandSteps, HandMoves
<1> QED  BY Zenon, <1>3, <1>4 DEF SaveRetrievalRun

(* Reading a row changes none.                                             *)
LEMMA RangesRead ==
    ASSUME RetrievalInv, Ranges, NEW c \in Callers, persistedWinner(c) \/ Reread(c)
    PROVE  Ranges'
<1>1. UNCHANGED <<epoch, docs, configs, clock, runs, selections>>
  BY Zenon DEF persistedWinner, Reread, DB
<1>2. RowsFit'
  BY Zenon, <1>1 DEF Ranges, RowsFit
<1>3. \E next : To(c, next) /\ HandFits(next)
  BY Zenon, HandSteps DEF persistedWinner, Reread
<1> QED  BY Zenon, <1>1, <1>2, <1>3, HandMoves

(* A plan is kept for the retention from the time it was issued.           *)
LEMMA RangesPlan ==
    ASSUME RetrievalInv, Ranges, NEW c \in Callers,
           FindPlan(c) \/ commitOnce(c) \/ Insert(c) \/ Settle(c)
    PROVE  Ranges'
<1>1. /\ UNCHANGED <<epoch, docs, configs, clock, runs>>
      /\ call[c].phase \in {"plan", "issue", "insert", "settle"}
  BY Zenon DEF FindPlan, commitOnce, Insert, Settle, DB
<1>2. RowsFit'
  <2>1. CASE FindPlan(c) \/ commitOnce(c) \/ Settle(c)
    BY Zenon, <1>1, <2>1 DEF FindPlan, commitOnce, Settle, DB, Ranges, RowsFit
  <2>2. CASE Insert(c)
    <3>1. PICK now, plan : now = call[c].now /\ plan = Record(call[c].run, now)
      BY Zenon
    <3>2. now \in Nat /\ now <= clock
      BY Zenon, <2>2, <3>1 DEF Insert, RetrievalInv, CallFits
    <3>3. plan.expires = now + TTL
      BY Zenon, <3>1 DEF Record
    <3>4. plan.expires <= MaxTime + TTL
      BY <3>2, <3>3, LedgerAssumption, BoundAssumption DEF Ranges, RetrievalInv, LedgerFits
    <3>5. selections' \subseteq selections \union {plan}
      BY Zenon, <2>2, <3>1 DEF Insert
    <3> QED  BY Zenon, <1>1, <3>4, <3>5 DEF Ranges, RowsFit
  <2> QED  BY Zenon, <2>1, <2>2
<1>3. ASSUME NEW next, To(c, next), HandFits(next) PROVE Ranges'
  BY Zenon, <1>1, <1>2, <1>3, HandMoves
<1>4. CASE Fail(c)
  BY Zenon, <1>3, <1>4, HandSteps
<1>5. "phase" \in DOMAIN call[c]
  BY Zenon, <1>1, WantsPlan DEF RetrievalInv, Planned
<1>6. ASSUME NEW phase \in {"issue", "settle"}, Move(c, phase) PROVE Ranges'
  <2>1. PICK next : next = [call[c] EXCEPT !.phase = phase]
    BY Zenon
  <2>2. next.phase = phase
    BY Zenon, <1>5, <2>1
  <2>3. HandFits(next)
    BY Zenon, <1>6, <2>2, HandFree
  <2> QED  BY Zenon, <1>3, <1>6, <2>1, <2>3 DEF Move
<1>7. ASSUME NEW run, NEW s, NEW replayed, Attach(c, run, s, replayed) PROVE Ranges'
  BY Zenon, <1>3, <1>4, <1>7, HandSteps DEF Attach
<1>8. ASSUME NEW run, NEW s, resolveSelection(c, run, s) PROVE Ranges'
  BY Zenon, <1>4, <1>7, <1>8 DEF resolveSelection
<1>9. CASE FindPlan(c)
  BY Zenon, <1>4, <1>6, <1>7, <1>9 DEF FindPlan
<1>10. CASE commitOnce(c)
  <2>1. CASE To(c, [phase |-> "insert", query |-> call[c].query, run |-> call[c].run,
                    replayed |-> call[c].replayed, now |-> clock])
    <3>1. PICK next : next = [phase |-> "insert", query |-> call[c].query, run |-> call[c].run,
                              replayed |-> call[c].replayed, now |-> clock]
      BY Zenon
    <3>2. next.phase = "insert"
      BY Zenon, <3>1
    <3>3. HandFits(next)
      BY Zenon, <3>2, HandFree
    <3> QED  BY Zenon, <1>3, <2>1, <3>1, <3>3
  <2> QED  BY Zenon, <1>4, <1>8, <1>10, <2>1 DEF commitOnce
<1>11. CASE Insert(c)
  <2>1. CASE To(c, [call[c] EXCEPT !.phase = "settle", !.now = Conflict])
    <3>1. PICK next : next = [call[c] EXCEPT !.phase = "settle", !.now = Conflict]
      BY Zenon
    <3>2. next.phase = "settle"
      BY Zenon, <1>5, <3>1
    <3>3. HandFits(next)
      BY Zenon, <3>2, HandFree
    <3> QED  BY Zenon, <1>3, <2>1, <3>1, <3>3
  <2> QED  BY Zenon, <1>6, <1>7, <1>11, <2>1 DEF Insert
<1>12. CASE Settle(c)
  <2>1. CASE Within(c, call[c].query, call[c].run, call[c].replayed, "issue")
    BY Zenon, <1>3, <2>1, HandSteps
  <2> QED  BY Zenon, <1>4, <1>8, <1>12, <2>1 DEF Settle
<1> QED  BY Zenon, <1>9, <1>10, <1>11, <1>12

(* A step of the environment drops rows and requests, or adds a document   *)
(* at the next epoch.                                                      *)
LEMMA RangesShrink ==
    ASSUME RetrievalInv, Ranges, configs' \subseteq Configs,
           epoch' \in epoch..MaxEpoch, clock' <= MaxTime,
           \A d \in docs' : d.version \in Versions,
           \A c \in Callers : call'[c] = call[c] \/ call'[c] = Idle,
           runs' \subseteq runs, selections' \subseteq selections
    PROVE  Ranges'
<1>1. epoch' \in 1..MaxEpoch /\ \A e \in 1..epoch : e \in 1..epoch'
  BY BoundAssumption DEF Ranges
<1>2. \A v : HandFits(v) => HandFits(v)'
  BY Zenon, <1>1 DEF HandFits
<1>3. HandFits(Idle)
  BY Zenon, HandFree DEF Idle
<1>4. ASSUME NEW c \in Callers PROVE HandFits(call[c])'
  <2>1. PICK v : v = call'[c]
    BY Zenon
  <2>2. HandFits(v)
    BY Zenon, <1>3, <2>1 DEF Ranges
  <2> QED  BY Zenon, <1>2, <2>1, <2>2
<1>5. RowsFit'
  BY Zenon, <1>1 DEF Ranges, RowsFit
<1> QED  BY Zenon, <1>1, <1>4, <1>5 DEF Ranges

(* Every step keeps the ranges.                                            *)
LEMMA RangesStep ==
    ASSUME RetrievalInv, Ranges, [RNext]_vars
    PROVE  Ranges'
<1>1. epoch \in epoch..MaxEpoch
  BY BoundAssumption DEF Ranges
<1>2. ASSUME NEW c \in Callers, Crash(c) PROVE Ranges'
  <2>1. UNCHANGED <<epoch, docs, configs, clock, runs, selections>> /\ Fail(c)
    BY Zenon, <1>2 DEF Crash, DB
  <2>2. RowsFit'
    BY Zenon, <2>1 DEF Ranges, RowsFit
  <2> QED  BY Zenon, <2>1, <2>2, HandSteps, HandMoves
<1>3. ASSUME NEW cfg \in Configs, Activate(cfg) PROVE Ranges'
  <2>1. configs' \subseteq Configs
    BY Zenon, <1>3 DEF Activate, ActivateServingConfig, Ranges
  <2>2. UNCHANGED <<epoch, docs, clock, runs, selections, call>>
    BY Zenon, <1>3 DEF Activate, ActivateServingConfig
  <2> QED  BY Zenon, <1>1, <2>1, <2>2, RangesShrink DEF Ranges
<1>4. ASSUME NEW v \in Revised, NEW life \in Lifecycles, Publish(v, life) PROVE Ranges'
  <2>1. epoch' \in epoch..MaxEpoch
    BY <1>4, BoundAssumption DEF Publish, Ranges
  <2>2. UNCHANGED <<configs, clock, runs, selections, call>>
    BY Zenon, <1>4 DEF Publish, DB
  <2>3. \A d \in docs' : d.version \in Versions
    <3>1. PICK d : d = [version |-> v, at |-> epoch + 1, life |-> life]
      BY Zenon
    <3>2. d.version \in Versions
      BY Zenon, <3>1, RankingAssumption
    <3> QED  BY Zenon, <1>4, <3>1, <3>2 DEF Publish, Ranges
  <2> QED  BY Zenon, <2>1, <2>2, <2>3, RangesShrink DEF Ranges
<1>5. ASSUME NEW cutoff \in 0..clock, ExpireTransient(cutoff) PROVE Ranges'
  <2>1. /\ runs' \subseteq runs /\ selections' \subseteq selections
        /\ UNCHANGED <<epoch, docs, configs, clock, call>>
    BY Zenon, <1>5 DEF ExpireTransient
  <2> QED  BY Zenon, <1>1, <2>1, RangesShrink DEF Ranges
<1>6. CASE Tick
  <2>1. /\ UNCHANGED <<epoch, docs, configs, runs, selections>>
        /\ \A c \in Callers : call'[c] = call[c] \/ call'[c] = Idle
    BY Zenon, <1>6 DEF Tick
  <2>2. clock' <= MaxTime
    BY <1>6, BoundAssumption DEF Tick, RetrievalInv, LedgerFits
  <2> QED  BY Zenon, <1>1, <2>1, <2>2, RangesShrink DEF Ranges
<1>7. CASE UNCHANGED vars
  <2>1. UNCHANGED <<epoch, docs, configs, clock, runs, selections, call>>
    BY Zenon, <1>7 DEF vars, ledger
  <2> QED  BY Zenon, <1>1, <2>1, RangesShrink DEF Ranges
<1> QED
  BY Zenon, <1>2, <1>3, <1>4, <1>5, <1>6, <1>7, RangesRetrieve, RangesSnapshot, RangesDecide,
     RangesSave, RangesRead, RangesPlan DEF RNext, Step

(* The service starts within its ranges.                                   *)
LEMMA RangesStart == RInit => Ranges
<1> SUFFICES ASSUME RInit PROVE Ranges
  OBVIOUS
<1>1. /\ configs = {} /\ epoch = 1 /\ clock = 0 /\ runs = {} /\ selections = {}
      /\ call = [c \in Callers |-> Idle]
      /\ docs = {[version |-> v, at |-> 1, life |-> "active"] : v \in Versions}
  BY Zenon DEF RInit, Init
<1>2. epoch \in 1..MaxEpoch /\ clock <= MaxTime
  BY <1>1, BoundAssumption
<1>3. \A d \in docs : d.version \in Versions
  BY <1>1
<1>4. HandFits(Idle)
  BY Zenon, HandFree DEF Idle
<1> QED  BY Zenon, <1>1, <1>2, <1>3, <1>4 DEF Ranges, RowsFit

(* Every run the service builds passes the validation that its ledger and  *)
(* its issuer apply to it, whatever the channels and the judge answer      *)
(* (run.go:253-365).                                                       *)
THEOREM RunsAreValid == RSpec => []BuiltRunsAreValid
<1>1. RetrievalInv /\ Ranges /\ [RNext]_vars => Ranges'
  BY Zenon, RangesStep
<1>2. Ranges => BuiltRunsAreValid
  BY Zenon DEF Ranges, HandFits, BuiltRunsAreValid
<1> QED  BY <1>1, <1>2, RangesStart, RetrievalInvariant, PTL DEF RSpec

(* Configurations, rows, the epoch and the clock stay in their ranges.     *)
THEOREM RetrievalTypes == RSpec => []TypeOK
<1>1. RetrievalInv /\ Ranges /\ [RNext]_vars => Ranges'
  BY Zenon, RangesStep
<1>2. RetrievalInv /\ Ranges => TypeOK
  <2> SUFFICES ASSUME RetrievalInv, Ranges PROVE TypeOK
    OBVIOUS
  <2>1. clock \in 0..MaxTime
    BY BoundAssumption DEF Ranges, RetrievalInv, LedgerFits
  <2>2. \A r \in runs : r.id \in RunIds
    BY Zenon DEF RetrievalInv, LedgerFits, RunFits
  <2>3. \A s \in selections : s.run \in RunIds
    BY Zenon DEF RetrievalInv, LedgerFits, PlanFits
  <2>4. active \in configs \union {None}
    BY Zenon DEF RetrievalInv, LedgerFits
  <2> QED  BY Zenon, <2>1, <2>2, <2>3, <2>4 DEF Ranges, RowsFit, TypeOK
<1> QED  BY <1>1, <1>2, RangesStart, RetrievalInvariant, PTL DEF RSpec

(* An answer fits what was asked and what was recorded: the caller's own   *)
(* query, a plan of that run, the same candidates whoever replays it, and  *)
(* no run that its ledger or its issuer would refuse (service.go:195,      *)
(* 389-496, run.go:253-365).                                               *)
THEOREM AnswersFit == RSpec => []AnswersFitTheirRun
BY AnswersAgree, PlansFitTheirRun, RunsAreValid, RetrievalTypes, PTL DEF AnswersFitTheirRun
=============================================================================
