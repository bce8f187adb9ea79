------------------------------ MODULE Outcome ------------------------------
(***************************************************************************)
(* Recording outcomes and crediting the plans they name: outcome.Service   *)
(* (internal/outcome/service.go) over the ledger transaction of            *)
(* internal/store/surreal/outcome.go, beside the reservations of module    *)
(* Experiment, whose budget heads it shares, the expiry of transient rows  *)
(* and the exposure audit (internal/store/surreal/maintenance.go).  A      *)
(* content is a canonical outcome: its id stands for its hash.  An outcome *)
(* row stands for itself, its verification results and its conflict audit, *)
(* which the same transaction writes.                                      *)
(***************************************************************************)
EXTENDS Credit, Experiment

CONSTANTS Hashes,              \* idempotency key hashes
          Contents, Traces,    \* canonical outcomes; the ingested traces
          Injections,          \* injection ids, each of one tenant
          TenantOf, Goals, SelectionTTL, Skew, MaximumRows, Purged,
          Audits               \* the [scope, window] pairs audited

VARIABLES selections,          \* injection -> selection record
          receipts,            \* [tenant, hash] -> outcome receipt
          outcomes, jobs,      \* outcome rows; synthesize_outcome jobs
          credits,             \* outcome_credit rows
          audit,               \* the exposure audit under way
          credited, budgeted   \* history: credits written, failures counted

ledger == <<receipts, outcomes, jobs, credits, credited, budgeted>>
vars   == <<clock, faults, experimentVars, selections, ledger, audit>>

OInit == /\ ExperimentInit
         /\ selections = [i \in Injections |-> None]
         /\ receipts = [k \in Tenants \X Hashes |-> None]
         /\ outcomes = {} /\ jobs = {} /\ credits = {}
         /\ audit = Resting
         /\ credited = {} /\ budgeted = {}

Exists(i) == selections[i] \notin {None, Purged}
Live(i)   == Exists(i) /\ clock < selections[i].expires

(* A plan is served for a reserved assignment, or outside any experiment.  *)
Serve(i, link) ==
    /\ selections[i] = None
    /\ link # None => link.tenant = TenantOf[i]
    /\ selections' = [selections EXCEPT ![i] =
           [created |-> clock, expires |-> clock + SelectionTTL, complete |-> TRUE,
            goals |-> Goals, link |-> link]]
    /\ UNCHANGED <<clock, faults, experimentVars, ledger, audit>>

Tick == /\ clock < MaxTime /\ clock' = clock + 1
        /\ UNCHANGED <<faults, experimentVars, selections, ledger, audit>>

(* At most MaximumRows rows of each table, at or past the job's cutoff.    *)
Bounded(rows, expired) ==
    /\ rows \subseteq expired
    /\ Cardinality(rows) = Min({Cardinality(expired), MaximumRows})
ExpireTransient(t, cutoff) ==
    LET oldC == {c \in credits : c.tenant = t /\ c.expires <= cutoff}
        oldS == {i \in Injections : /\ TenantOf[i] = t /\ Exists(i)
                                    /\ selections[i].expires <= cutoff}
        oldA == {a \in assignments : a.tenant = t /\ a.expires <= cutoff}
    IN /\ oldC # {} \/ oldS # {} \/ oldA # {}
       /\ \E C \in SUBSET oldC, S \in SUBSET oldS, A \in SUBSET oldA :
            /\ Bounded(C, oldC) /\ Bounded(S, oldS) /\ Bounded(A, oldA)
            /\ credits' = credits \ C /\ assignments' = assignments \ A
            /\ selections' = [i \in Injections |-> IF i \in S THEN Purged ELSE selections[i]]
       /\ UNCHANGED <<clock, faults, manifestOf, budgets, call, calls, granted, fed,
                      receipts, outcomes, jobs, credited, budgeted, audit>>
-----------------------------------------------------------------------------
resolveExistingOutcome(c, h, o) ==
    LET found == receipts[o.tenant, h] IN
    Set(c, IF found.outcome # o.id THEN Resting
           ELSE [phase |-> "recorded", hash |-> h, content |-> o, receipt |-> found])

(* The assignment a challenger's plan links to, while its row exists.      *)
ChallengerOf(i) ==
    {a \in assignments : Exists(i) /\ a = selections[i].link /\ a.challenger}

(* Mutant: a plan whose credit is taken may be credited again.             *)
AcceptableUnclaimed(o) == o.trace \in Traces
Acceptable(o) ==
    /\ o.trace \in Traces
    /\ o.inj # None =>
           /\ Live(o.inj)                                      \* creditSelectionValid
           /\ \A x \in credits : x.inj = o.inj => x.outcome = o.id  \* claimedCreditOutcome
    /\ o.supersedes # None =>
           \E x \in outcomes : x.id = o.supersedes /\ x.trace = o.trace

CreditsOf(i) == {x \in credited : x.inj = i}
ReadRecord(c, h, o, class, expires) ==
    IF receipts[o.tenant, h] # None THEN resolveExistingOutcome(c, h, o)
    ELSE IF ~Acceptable(o)
    THEN Set(c, [phase |-> "unrecorded", hash |-> h, content |-> o, class |-> class,
                 expires |-> expires, retry |-> FALSE])
    ELSE LET reuse == \E x \in outcomes : x.id = o.id
             start == IF class # "causal_failure" \/ reuse THEN {}
                      ELSE {a.start : a \in ChallengerOf(o.inj)}
         IN Set(c, [phase |-> "record", hash |-> h, content |-> o, class |-> class,
                    expires |-> expires, reuse |-> reuse, start |-> start,
                    rows |-> CreditsOf(o.inj),
                    heads |-> [k \in {o.tenant, Global} \X start |-> budgets[k]]])

(* Record: evaluation and attribution against the plan as found now.       *)
Record(c, h, o) ==
    /\ Begin(c)
    /\ IF o.inj = None THEN ReadRecord(c, h, o, None, None)
       ELSE IF ~Live(o.inj) THEN Set(c, Resting)
       ELSE LET plan  == selections[o.inj]
                state == Evaluate(DefaultPolicy, inferredPredicates(o.facts), o.facts, {})
            IN ReadRecord(c, h, o, AssignCredit(plan, o.facts, state, clock, Skew), plan.expires)
    /\ UNCHANGED <<clock, faults, ledgers, selections, ledger, audit>>

(* Receipt, outcome and injection are unique and heads are as read.  A row *)
(* written since the reads conflicts even if it has been deleted again,    *)
(* hence the comparison of the credits ever written for the injection.     *)
RecordFree(w) ==
    /\ receipts[w.content.tenant, w.hash] = None
    /\ ~w.reuse =>
           /\ \A x \in outcomes : x.id # w.content.id
           /\ CreditsOf(w.content.inj) = w.rows
           /\ \A k \in DOMAIN w.heads : budgets[k] = w.heads[k]

RecordWrites(w) ==
    LET o == w.content
        row == [outcome |-> o.id, inj |-> o.inj, tenant |-> o.tenant, class |-> w.class,
                expires |-> w.expires]
        new == IF w.reuse \/ o.inj = None THEN {} ELSE {row}
    IN /\ receipts' = [receipts EXCEPT ![o.tenant, w.hash] =
              [outcome |-> o.id, class |-> w.class]]
       /\ IF w.reuse THEN UNCHANGED <<outcomes, jobs>>
          ELSE /\ outcomes' = outcomes \union {[id |-> o.id, trace |-> o.trace]}
               /\ jobs' = jobs \union {o.id}
       /\ credits' = credits \union new
       /\ credited' = credited \union {[inj |-> x.inj, outcome |-> x.outcome] : x \in new}
       /\ budgets' = [k \in Heads |-> IF k \in DOMAIN w.heads
                                      THEN [w.heads[k] EXCEPT !.unsafe = @ + 1] ELSE budgets[k]]
       /\ budgeted' = budgeted \union
              {[inj |-> o.inj, tenant |-> o.tenant, start |-> s] : s \in w.start}

Unrecorded(c, retry) ==
    LET w == call[c] IN
    Set(c, [phase |-> "unrecorded", hash |-> w.hash, content |-> w.content, class |-> w.class,
            expires |-> w.expires, retry |-> retry])

CommitOutcome(c) ==
    LET w == call[c] IN
    /\ w.phase = "record"
    /\ \/ /\ RecordFree(w) /\ RecordWrites(w) /\ UNCHANGED faults
          /\ Set(c, [phase |-> "recorded", hash |-> w.hash, content |-> w.content,
                     receipt |-> [outcome |-> w.content.id, class |-> w.class]])
       \/ /\ ~RecordFree(w) /\ Unrecorded(c, TRUE)
          /\ UNCHANGED <<ledger, budgets, faults>>
       \/ /\ Fault /\ Unrecorded(c, FALSE)
          /\ \/ RecordFree(w) /\ RecordWrites(w)      \* the answer is lost
             \/ UNCHANGED <<ledger, budgets>>
    /\ UNCHANGED <<clock, manifestOf, assignments, granted, fed, calls,
                   selections, audit>>

(* After any error: the receipt stored meanwhile under the key, another    *)
(* attempt after a transaction conflict, or the error.                     *)
ResolveRecord(c) ==
    LET w == call[c] IN
    /\ w.phase = "unrecorded"
    /\ \/ /\ receipts[w.content.tenant, w.hash] # None
          /\ resolveExistingOutcome(c, w.hash, w.content) /\ UNCHANGED faults
       \/ /\ receipts[w.content.tenant, w.hash] = None /\ w.retry
          /\ ReadRecord(c, w.hash, w.content, w.class, w.expires) /\ UNCHANGED faults
       \/ /\ \/ receipts[w.content.tenant, w.hash] = None /\ ~w.retry /\ UNCHANGED faults
             \/ Fault
          /\ Set(c, Resting)
    /\ UNCHANGED <<clock, ledgers, calls, selections, ledger, audit>>
-----------------------------------------------------------------------------
(* VerifyExposureBudgets: four reads outside any transaction, the counts   *)
(* before the heads.  Each count is compared with its own head only, so    *)
(* the tenant's pair and the global pair are two audits of one scope.      *)
countCausalChallengerFailures(tenants, start) ==
    Cardinality({x \in credits :
        /\ x.tenant \in tenants /\ x.class = "causal_failure"
        /\ \E a \in ChallengerOf(x.inj) : a.start = start})
TenantsIn(scope) == IF scope = Global THEN Tenants ELSE {scope}

CountFailures(scope, start) ==
    /\ audit = Resting
    /\ audit' = [phase |-> "counted", scope |-> scope, start |-> start,
                 count |-> countCausalChallengerFailures(TenantsIn(scope), start)]
CompareHead ==
    /\ audit.phase = "counted"
    /\ audit' = IF budgets[audit.scope, audit.start].unsafe < audit.count
                THEN [phase |-> "conflict"] ELSE Resting
VerifyExposureBudgets ==
    /\ CompareHead \/ \E x \in Audits : CountFailures(x[1], x[2])
    /\ UNCHANGED <<clock, faults, experimentVars, selections, ledger>>

ONext ==
    \/ /\ ExperimentNext
       /\ UNCHANGED <<selections, ledger, audit>>
    \/ \E i \in Injections, link \in assignments \union {None} : Serve(i, link)
    \/ \E c \in Callers : \/ \E h \in Hashes, o \in Contents : Record(c, h, o)
                            \/ CommitOutcome(c) \/ ResolveRecord(c)
    \/ \E t \in Tenants : ExpireTransient(t, clock)
    \/ VerifyExposureBudgets
    \/ Tick

OSpec == OInit /\ [][ONext]_vars
-----------------------------------------------------------------------------
TypeOK ==
    /\ clock \in 0..MaxTime /\ faults \in 0..MaxFaults
    /\ budgets \in [Heads -> [exposure : Nat, unsafe : Nat]]
    /\ \A a \in assignments : a.start \in Starts /\ a.at < a.expires
    /\ \A x \in credits : x.class \in Classes /\ x.inj \in Injections
    /\ outcomes \subseteq {[id |-> o.id, trace |-> o.trace] : o \in Contents}

(* One plan gives credit once, however its outcomes race, are retried,     *)
(* corrected, or arrive after the credit row has expired                   *)
(* (outcome.go:99-106, 154-157; credit/assign.go:61 gives the row the      *)
(* plan's own expiry).                                                     *)
CreditedOnce == \A x, y \in credited : x.inj = y.inj => x = y

(* A record call that was answered has the stored receipt of its own       *)
(* content, and every receipt has its outcome row and its synthesis job    *)
(* (outcome.go:127-176, 255-261).                                          *)
ReceiptsAreBacked ==
    /\ \A c \in Callers : LET w == call[c] IN w.phase = "recorded" =>
           /\ receipts[w.content.tenant, w.hash] = w.receipt
           /\ w.receipt.outcome = w.content.id
    /\ \A k \in DOMAIN receipts : receipts[k] # None =>
           /\ \E x \in outcomes : x.id = receipts[k].outcome
           /\ receipts[k].outcome \in jobs

(* The unsafe heads have counted each budgeted failure exactly once, above *)
(* what a caller fed in: retries, lost answers and reservations that write *)
(* the same heads neither lose a count nor repeat one (outcome.go:158-166, *)
(* experiment.go:122-148).                                                 *)
UnsafeCountedOnce ==
    \A s \in Starts, c \in Scopes :
        LET n == Cardinality({x \in budgeted : x.start = s /\ c \in {x.tenant, Global}}) IN
        /\ budgets[c, s].unsafe >= n
        /\ budgets[c, s].unsafe <= n + fed[s]

(* The audit, whose reads interleave with everything else, never reports a *)
(* tenant whose budgets are right (maintenance.go:261-292: "proves that    *)
(* synchronous safety heads have not under-counted them").                 *)
AuditAgrees == audit.phase # "conflict"

(* What recording an outcome promises, retries and races included: credit  *)
(* once, and an answer that stands in the store with its job               *)
(* (outcome.go:99-176, 255-261).                                           *)
OutcomesAreRecordedOnce == TypeOK /\ CreditedOnce /\ ReceiptsAreBacked

=============================================================================
