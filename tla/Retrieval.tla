----------------------------- MODULE Retrieval -----------------------------
(***************************************************************************)
(* The retrieval path of one tenant: retrieval.Service                     *)
(* (internal/retrieval/service.go, run.go, candidates.go) over the       *)
(* SurrealDB run and plan ledgers (internal/store/surreal/                 *)
(* retrieval_run.go, selection.go), with the plan issuer                   *)
(* (internal/planning/issuer.go), beside the operator who moves the        *)
(* serving head, the worker that publishes projection epochs, and the      *)
(* expiry of transient records.  A query stands for the canonical query    *)
(* and its server-owned request context, which are always compared         *)
(* together.                                                               *)
(***************************************************************************)
EXTENDS DecisionLedger, Integers, Sequences, Functions

CONSTANTS Callers, Queries,
          Versions,             \* naturals: the order of version ids
          Revised, Lifecycles,  \* what the projection publishes meanwhile
          Gate(_, _),           \* config, lifecycle -> eligibility decision
          Score(_, _, _, _),    \* config, version, channels, judged -> score
          Configured, Required, \* this deployment's channels
          IndexesOf,            \* config -> the channels it serves
          Approximate,          \* channels whose hits are not determined
          MinimumScore, MaximumSelections, MaximumRows, RequestTimeout,
          MaxEpoch, MaxTime, MaxFaults, MaxCalls

(* A request ends before the rows it writes can expire: ten seconds        *)
(* against a day in the shipped configuration (config.go:158, 186).        *)
ASSUME TimeoutAssumption == RequestTimeout \in Nat /\ RequestTimeout < TTL
(* Version ids are ordered and scores are integers (fusion.go:36, 70-80).  *)
ASSUME RankingAssumption ==
    /\ Versions \subseteq Nat /\ Revised \subseteq Versions
    /\ \A cfg \in Configs, v \in Versions, channels \in SUBSET Configured, judged \in BOOLEAN :
          Score(cfg, v, channels, judged) \in Int
ASSUME BoundAssumption == MaxEpoch \in Nat \ {0} /\ MaxTime \in Nat

VARIABLES epoch, docs,          \* projection head; document revisions
          call, started,        \* caller -> its request and when it began
          calls, faults

vars == <<ledger, epoch, docs, call, started, calls, faults>>
DB   == <<configs, active, runs, selections, clock>>

Fault  == faults < MaxFaults /\ faults' = faults + 1
Idle   == [phase |-> "idle"]
Conflict == MaxTime + 1    \* marks an insert that met a unique index

(* A document read at an epoch is the latest revision at or before it.     *)
Visible(e) == {d.version : d \in {x \in docs : x.at <= e}}
DocumentAt(v, e) ==
    CHOOSE d \in docs : /\ d.version = v /\ d.at <= e
                        /\ \A x \in docs : x.version = v /\ x.at <= e => x.at <= d.at

RInit == /\ Init
         /\ epoch = 1 /\ docs = {[version |-> v, at |-> 1, life |-> "active"] : v \in Versions}
         /\ call = [c \in Callers |-> Idle] /\ started = [c \in Callers |-> 0]
         /\ calls = 0 /\ faults = 0

To(c, next)    == call' = [call EXCEPT ![c] = next]
Fail(c)        == To(c, Idle)
Move(c, phase) == To(c, [call[c] EXCEPT !.phase = phase])
Within(c, query, run, replayed, phase) ==
    To(c, [phase |-> phase, query |-> query, run |-> run, replayed |-> replayed])
Answer(c, query, run, candidates, plan) ==
    To(c, [phase |-> "done", query |-> query, run |-> run,
           candidates |-> candidates, plan |-> plan])
-----------------------------------------------------------------------------
(* The environment.                                                        *)
Activate(c) == /\ ActivateServingConfig(c)
               /\ UNCHANGED <<epoch, docs, started, call, calls, faults>>
Publish(v, life) ==
    /\ epoch < MaxEpoch /\ epoch' = epoch + 1
    /\ docs' = docs \union {[version |-> v, at |-> epoch + 1, life |-> life]}
    /\ UNCHANGED <<DB, call, started, calls, faults>>
(* A request whose context has expired fails at its next call; for a       *)
(* caller without a request, started follows the clock.                    *)
Tick == /\ clock < MaxTime /\ clock' = clock + 1
        /\ call' = [c \in Callers |->
                IF call[c].phase # "done" /\ clock + 1 > started[c] + RequestTimeout
                THEN Idle ELSE call[c]]
        /\ started' = [c \in Callers |->
                IF call'[c].phase \in {"idle", "done"} THEN clock + 1 ELSE started[c]]
        /\ UNCHANGED <<configs, active, runs, selections, epoch, docs, calls, faults>>

(* One transaction; at most MaximumRows rows of each table at or past the  *)
(* job's cutoff, plans before runs.                                        *)
Bounded(rows, expired) ==
    /\ rows \subseteq expired
    /\ Cardinality(rows) = IF Cardinality(expired) < MaximumRows
                           THEN Cardinality(expired) ELSE MaximumRows
ExpireTransient(cutoff) ==
    LET oldPlans == {s \in selections : s.expires <= cutoff}
        oldRuns  == {r \in runs : r.expires <= cutoff}
    IN /\ oldPlans \union oldRuns # {}
       /\ \E S \in SUBSET oldPlans, R \in SUBSET oldRuns :
            /\ Bounded(S, oldPlans) /\ Bounded(R, oldRuns)
            /\ selections' = selections \ S /\ runs' = runs \ R
       /\ UNCHANGED <<configs, active, clock, epoch, docs, started, call, calls, faults>>
-----------------------------------------------------------------------------
(* The candidates shown: the selected and the advisory ones, in rank       *)
(* order.  The first answer takes them from the decision in hand, a replay *)
(* from the stored gates and ranks.                                        *)
ItemsAt(s, at) ==
    [k \in 1..Cardinality(at) |-> s[CHOOSE i \in at : Cardinality({j \in at : j <= i}) = k]]
InOrderOf(s, keep) == ItemsAt(s, {i \in DOMAIN s : s[i] \in keep})
Fresh(r) == InOrderOf(r.ranked,
    {v \in Range(r.ranked) : r.gates[v] = "advisory" \/ v \in Range(r.selected)})
Replayed(r) == InOrderOf(r.ranked,
    Range(r.selected) \union {v \in DOMAIN r.gates : r.gates[v] = "advisory"})

(* responseFromRun: a stored failure is the failure of every replay; the   *)
(* documents are read at the run's own epoch, which no later step changes. *)
responseFromRun(c, query, run) ==
    IF run.disp = "failed" THEN Fail(c)
    ELSE IF run.disp = "abstained" THEN Answer(c, query, run, Replayed(run), None)
    ELSE Within(c, query, run, TRUE, "plan")
(* A run found under the identity, before the decision or after a lost     *)
(* race to save it, is replayed if it is of the same query.                *)
(* Mutant: a replay does not compare the query it was asked.               *)
ReplayAny(c, query, run) == responseFromRun(c, query, run)
Resolve(c, query, run) ==
    IF run.query # query THEN Fail(c) ELSE responseFromRun(c, query, run)

(* Retrieve, as far as the lookup of an earlier run of the same identity.  *)
Retrieve(c, id, q) ==
    /\ call[c].phase \in {"idle", "done"}
    /\ calls < MaxCalls /\ calls' = calls + 1
    /\ started' = [started EXCEPT ![c] = clock]
    /\ \/ /\ IF RunAt(id) = {}
             THEN To(c, [phase |-> "snapshot", query |-> q, id |-> id, by |-> calls])
             ELSE \E run \in RunAt(id) : Resolve(c, q, run)
          /\ UNCHANGED faults
       \/ Fault /\ Fail(c)
    /\ UNCHANGED <<DB, epoch, docs>>

(* The head, its configuration and the epoch are read in one transaction;  *)
(* every index of the configuration must be a channel of this deployment,  *)
(* and every required channel must be among them.                          *)
snapshotChannels(cfg) == /\ IndexesOf[cfg] # {} /\ IndexesOf[cfg] \subseteq Configured
                         /\ Required \subseteq IndexesOf[cfg]
AcquireServingSnapshot(c) ==
    /\ call[c].phase = "snapshot"
    /\ \/ /\ IF active = None THEN Fail(c)
             ELSE IF ~snapshotChannels(active) THEN Fail(c)
             ELSE To(c, [phase |-> "decide", query |-> call[c].query, id |-> call[c].id,
                         by |-> call[c].by, config |-> active, epoch |-> epoch])
          /\ UNCHANGED faults
       \/ Fault /\ Fail(c)
    /\ UNCHANGED <<DB, epoch, docs, started, calls>>

(* What the channels answer within the timeout: an exact channel the       *)
(* versions its index holds at the epoch, an approximate one any of them,  *)
(* each of them possibly an error or no answer at all.                     *)
ChannelResponses(cfg, e) ==
    {[down |-> D, hits |-> h] : D \in SUBSET IndexesOf[cfg], h \in
        {f \in [IndexesOf[cfg] -> SUBSET Visible(e)] :
            \A ch \in IndexesOf[cfg] \ Approximate : f[ch] = Visible(e)}}
Complete(f) == DOMAIN f.hits \ f.down
ChannelsOf(f, v) == {ch \in Complete(f) : v \in f.hits[ch]}
CollectCandidates(f) == UNION {f.hits[ch] : ch \in Complete(f)}
requiredDegradation(f) == Required \ Complete(f) # {}

(* Gates and ranking over the documents of the snapshot's epoch.  A judge  *)
(* that did not judge every admitted candidate leaves the order as it was. *)
(* The order is total, so there is one ranking and one selection of it.    *)
Gates(cfg, e, found) == [v \in found |-> Gate(cfg, DocumentAt(v, e).life)]
Rankings(cfg, f, eligible, judged) ==
    LET score == [v \in eligible |-> Score(cfg, v, ChannelsOf(f, v), judged)]
        before(v, w) == score[v] > score[w] \/ (score[v] = score[w] /\ v < w)
        ranks == 1..Cardinality(eligible)
    IN {s \in [ranks -> eligible] : \A i, j \in ranks : i < j => before(s[i], s[j])}
(* The loop over the ranking: at[k] is the place of the k-th item taken.   *)
Selections(cfg, f, gates, ranked, judged) ==
    LET fit == {i \in DOMAIN ranked :
                  /\ gates[ranked[i]] # "advisory"
                  /\ Score(cfg, ranked[i], ChannelsOf(f, ranked[i]), judged) >= MinimumScore}
        size == IF Cardinality(fit) < MaximumSelections THEN Cardinality(fit)
                                                        ELSE MaximumSelections
        taken == {at \in [1..size -> fit] : \A k \in 1..size : \A i \in fit :
                    i < at[k] <=> \E j \in 1..(k - 1) : at[j] = i}
    IN {[k \in 1..size |-> ranked[at[k]]] : at \in taken}

buildRun(k, found, disp, code, gates, ranked, selected) ==
    [id |-> k.id, query |-> k.query, by |-> k.by, config |-> k.config, epoch |-> k.epoch,
     found |-> found, disp |-> disp, code |-> code, gates |-> gates, ranked |-> ranked,
     selected |-> selected, expires |-> clock + TTL]
NoGates == [v \in {} |-> ""]
RankedRun(k, found, gates, ranked, selected) ==
    IF selected = <<>>
    THEN buildRun(k, found, "abstained", "below_confidence_threshold", gates, ranked, <<>>)
    ELSE buildRun(k, found, "selected", "", gates, ranked, selected)
DecidedRuns(k, f, lost, judged) ==
    LET found    == CollectCandidates(f)
        gates    == Gates(k.config, k.epoch, found)
        eligible == {v \in DOMAIN gates : gates[v] # "rejected"}
    IN IF requiredDegradation(f)
         THEN {buildRun(k, found, "failed", "required_channel_unavailable", NoGates, <<>>, <<>>)}
       ELSE IF found = {}
         THEN {buildRun(k, found, "abstained", "no_candidates", NoGates, <<>>, <<>>)}
       ELSE IF lost
         THEN {buildRun(k, found, "failed", "candidate_snapshot_missing", NoGates, <<>>, <<>>)}
       ELSE IF eligible = {}
         THEN {buildRun(k, found, "abstained", "no_eligible_candidates", gates, <<>>, <<>>)}
       ELSE UNION {{RankedRun(k, found, gates, ranked, selected) :
                        selected \in Selections(k.config, f, gates, ranked, judged)} :
                    ranked \in Rankings(k.config, f, eligible, judged)}

InRankOrder(selected, ranked) ==
    \E at \in [DOMAIN selected -> DOMAIN ranked] : \A i \in DOMAIN at :
        selected[i] = ranked[at[i]] /\ \A j \in DOMAIN at : j < i => at[j] < at[i]
(* validateCanonicalRun, applied when a run is built, saved and planned.   *)
ValidateRun(r) ==
    /\ IF r.disp = "selected" THEN r.code = "" /\ r.selected # <<>>
                              ELSE r.code # "" /\ r.selected = <<>>
    /\ r.disp # "failed" => DOMAIN r.gates = r.found
    /\ IsInjective(r.ranked)
    /\ \A v \in Range(r.ranked) : v \in DOMAIN r.gates \intersect r.found /\ r.gates[v] # "rejected"
    /\ InRankOrder(r.selected, r.ranked)

Decide(c) ==
    /\ call[c].phase = "decide"
    /\ \E f \in ChannelResponses(call[c].config, call[c].epoch), lost, judged \in BOOLEAN :
         /\ \E run \in DecidedRuns(call[c], f, lost, judged) :
              To(c, [phase |-> IF ValidateRun(run) THEN "save" ELSE "invalid",
                     query |-> call[c].query, run |-> run])
         /\ IF lost \/ f.down # {} THEN Fault ELSE UNCHANGED faults
    /\ UNCHANGED <<DB, epoch, docs, started, calls>>

(* SaveRetrievalRun and what persistRun does with its result.  The write   *)
(* may fail before the commit, or be committed and its answer lost.        *)
(* Mutant: the answer goes out without the write.                          *)
PersistNothing(run) == UNCHANGED runs
Persist(run) == runs' = runs \union {run}
SaveRetrievalRun(c) ==
    LET run == call[c].run
        free == RunAt(run.id) = {} /\ run.config \in configs
    IN /\ call[c].phase = "save"
       /\ \/ /\ ~free /\ Move(c, "winner") /\ UNCHANGED <<runs, faults>>
          \/ /\ free /\ Persist(run) /\ UNCHANGED faults
             /\ IF run.disp = "failed" THEN Fail(c)
                ELSE IF run.disp = "abstained" THEN Answer(c, call[c].query, run, Fresh(run), None)
                ELSE Move(c, "reread")
          \/ Fault /\ Move(c, "winner") /\ UNCHANGED runs
          \/ Fault /\ free /\ Move(c, "winner") /\ Persist(run)
       /\ UNCHANGED <<configs, active, selections, clock, epoch, docs, started, calls>>

(* persistedWinner: up to three reads; an earlier read that finds nothing  *)
(* changes nothing, so the last one stands for them.                       *)
persistedWinner(c) ==
    /\ call[c].phase = "winner"
    /\ IF RunAt(call[c].run.id) = {} THEN Fail(c)
       ELSE \E run \in RunAt(call[c].run.id) : Resolve(c, call[c].query, run)
    /\ UNCHANGED <<DB, epoch, docs, started, calls, faults>>

Reread(c) ==
    /\ call[c].phase = "reread"
    /\ IF RunAt(call[c].run.id) = {} THEN Fail(c)
       ELSE \E run \in RunAt(call[c].run.id) : Within(c, call[c].query, run, FALSE, "plan")
    /\ UNCHANGED <<DB, epoch, docs, started, calls, faults>>
-----------------------------------------------------------------------------
(* attachPlan: the plan of the run, if it has one that has not expired;    *)
(* otherwise the issuer builds one and commits it.                         *)
Draft(run) == [run |-> run.id, query |-> run.query, config |-> run.config,
               epoch |-> run.epoch, nodes |-> run.selected]
(* A row; "by" tells apart the rows that a run id has had in its history.  *)
(* Mutant: the plan is kept a tick too long.                               *)
RecordLate(run, now) == [draft |-> Draft(run), run |-> run.id, key |-> IdentityOf[run.id],
                         by |-> run.by, expires |-> now + TTL + 1]
Record(run, now) == [draft |-> Draft(run), run |-> run.id, key |-> IdentityOf[run.id],
                     by |-> run.by, expires |-> now + TTL]
Live(s) == clock < s.expires

Attach(c, run, plan, replayed) ==
    IF /\ plan.run = run.id /\ plan.draft.query = run.query
       /\ plan.draft.epoch = run.epoch /\ plan.draft.nodes # <<>>
    THEN Answer(c, call[c].query, run, IF replayed THEN Replayed(run) ELSE Fresh(run), plan)
    ELSE Fail(c)

FindPlan(c) ==
    LET run == call[c].run  found == {s \in ByRun(run.id) : Live(s)}
    IN /\ call[c].phase = "plan"
       /\ \/ /\ IF found = {} THEN Move(c, "issue")
                ELSE \E s \in found : Attach(c, run, s, call[c].replayed)
             /\ UNCHANGED faults
          \/ Fault /\ Fail(c)
       /\ UNCHANGED <<DB, epoch, docs, started, calls>>

(* An expired row keeps its run and its identity occupied until it is      *)
(* removed: ErrSelectionExpired.                                           *)
resolveSelection(c, run, s) ==
    IF Live(s) /\ s.draft = Draft(run) THEN Attach(c, run, s, call[c].replayed) ELSE Fail(c)
commitOnce(c) ==
    LET run == call[c].run
        held == IF ByKey(IdentityOf[run.id]) # {} THEN ByKey(IdentityOf[run.id]) ELSE ByRun(run.id)
    IN /\ call[c].phase = "issue"
       /\ IF ~ValidateRun(run) \/ run.disp # "selected" THEN Fail(c)
          ELSE IF held # {} THEN \E s \in held : resolveSelection(c, run, s)
          ELSE To(c, [phase |-> "insert", query |-> call[c].query, run |-> run,
                      replayed |-> call[c].replayed, now |-> clock])
       /\ UNCHANGED <<DB, epoch, docs, started, calls, faults>>

(* The unique indexes on identity and run refuse a second row; then the    *)
(* loser, and a writer whose answer was lost, reads what the identity has. *)
Free(run) == ByKey(IdentityOf[run.id]) = {} /\ ByRun(run.id) = {}
Insert(c) ==
    LET run  == call[c].run
        plan == Record(run, call[c].now)
    IN /\ call[c].phase = "insert"
       /\ \/ /\ Free(run) /\ selections' = selections \union {plan}
             /\ Attach(c, run, plan, call[c].replayed) /\ UNCHANGED faults
          \/ /\ ~Free(run) /\ UNCHANGED <<selections, faults>>
             /\ To(c, [call[c] EXCEPT !.phase = "settle", !.now = Conflict])
          \/ /\ Fault /\ UNCHANGED selections /\ Move(c, "settle")
          \/ /\ Fault /\ Free(run) /\ selections' = selections \union {plan} /\ Move(c, "settle")
       /\ UNCHANGED <<configs, active, runs, clock, epoch, docs, started, calls>>
(* The loser of a conflict, and a writer whose answer was lost, read what  *)
(* the identity has by now; a conflict that has left nothing is retried.   *)
Settle(c) ==
    LET run == call[c].run  held == ByKey(IdentityOf[run.id])
    IN /\ call[c].phase = "settle"
       /\ IF held # {} THEN \E s \in held : resolveSelection(c, run, s)
          ELSE IF call[c].now = Conflict THEN Within(c, call[c].query, run, call[c].replayed, "issue")
          ELSE Fail(c)
       /\ UNCHANGED <<DB, epoch, docs, started, calls, faults>>

(* The process dies, or the caller gives up, between two steps.            *)
Crash(c) == /\ call[c].phase \notin {"idle", "done"} /\ Fault /\ Fail(c)
            /\ UNCHANGED <<DB, epoch, docs, started, calls>>

Step(c) == \/ AcquireServingSnapshot(c) \/ Decide(c) \/ SaveRetrievalRun(c)
           \/ persistedWinner(c) \/ Reread(c)
           \/ FindPlan(c) \/ commitOnce(c) \/ Insert(c) \/ Settle(c)
RNext == \/ \E c \in Callers, id \in RunIds, q \in Queries : Retrieve(c, id, q)
         \/ \E c \in Callers : Step(c) \/ Crash(c)
         \/ \E cfg \in Configs : Activate(cfg)
         \/ \E v \in Revised, life \in Lifecycles : Publish(v, life)
         \/ \E cutoff \in 0..clock : ExpireTransient(cutoff)
         \/ Tick
RSpec == RInit /\ [][RNext]_vars
-----------------------------------------------------------------------------
Answered == {c \in Callers : call[c].phase = "done"}

TypeOK ==
    /\ configs \subseteq Configs /\ active \in configs \union {None}
    /\ epoch \in 1..MaxEpoch /\ clock \in 0..MaxTime
    /\ \A r \in runs : r.id \in RunIds /\ r.query \in Queries /\ r.epoch \in 1..epoch
    /\ \A s \in selections : s.run \in RunIds /\ s.expires <= MaxTime + TTL

(* The SurrealDB ledgers, with their transactions, lost answers and        *)
(* expiry, implement the atomic in-memory ledgers: runs and plans are      *)
(* written once, under their unique keys (retrieval_run.go:191-288,        *)
(* selection.go:66-120).                                                   *)
ImplementsDecisionLedger == Spec

(* No answer leaves the service before its run, and its plan if it has     *)
(* one, are committed: each is in the ledger until its retention is over   *)
(* (service.go:333-345, 475-496; runbooks/retrieval.md:3).                 *)
AnswersAreCommitted ==
    \A c \in Answered :
        /\ call[c].run \in runs \/ call[c].run.expires <= clock
        /\ call[c].plan # None => call[c].plan \in selections \/ call[c].plan.expires <= clock
        /\ call[c].run.disp = "selected" <=> call[c].plan # None

(* A caller is answered from a run of the query it asked, whether it made  *)
(* the run, found it, or lost the race to save it (service.go:195, 479).   *)
AnswersOwnQuestion == \A c \in Answered : call[c].run.query = call[c].query

(* Two answers about one run row show the same candidates, whatever the    *)
(* serving head and the projection did in between (service.go:389-450).    *)
ReplayAgrees ==
    \A c, d \in Answered : call[c].run = call[d].run => call[c].candidates = call[d].candidates

(* The plan in an answer is of the same query and projection epoch as the  *)
(* answer's run, and when it was issued for that very run row, of its      *)
(* selected versions and configuration (service.go:452-465).               *)
PlanFitsRun ==
    \A c \in Answered : call[c].plan # None =>
        LET plan == call[c].plan  run == call[c].run
        IN /\ plan.draft.query = run.query /\ plan.draft.epoch = run.epoch
           /\ plan.by = run.by => plan.draft = Draft(run)

(* Every run the service builds passes the validation that its ledger and  *)
(* its issuer apply to it (run.go:253-365).                                *)
BuiltRunsAreValid == \A c \in Callers : call[c].phase # "invalid"

(* An answer fits what was asked and what was recorded: the caller's own   *)
(* query, a plan of that run, the same candidates whoever replays it, and  *)
(* no run that its ledger or its issuer would refuse (service.go:195,      *)
(* 389-496, run.go:253-365).                                               *)
AnswersFitTheirRun ==
    TypeOK /\ AnswersOwnQuestion /\ ReplayAgrees /\ PlanFitsRun /\ BuiltRunsAreValid
=============================================================================
