----------------------------- MODULE Experiment -----------------------------
(***************************************************************************)
(* Challenger exploration under shared budgets: experiment.Assign          *)
(* (internal/experiment/assign.go) and the reservation transaction of      *)
(* internal/store/surreal/experiment.go.  Each tenant has one experiment   *)
(* epoch of one procedure; a manifest is a record with its limits, and all *)
(* share one window length.  A request's concurrent and unsafe counts come *)
(* from the caller, and the latter may run ahead of the stored heads; its  *)
(* exposure counts are zero.  A transaction is two steps:                  *)
(* its reads, and a commit that succeeds only if the rows it creates are   *)
(* still free and the heads it writes are still as read.                   *)
(***************************************************************************)
EXTENDS Naturals, FiniteSets, FiniteSetsExt

CONSTANTS Tenants, Manifests, Requests, Callers, None,
          WindowLength, AssignmentTTL, MaxTime, MaxFaults, MaxCalls

VARIABLES clock, faults,
          manifestOf,     \* tenant -> the manifest stored for its epoch
          assignments,    \* experiment_assignment rows
          budgets,        \* [scope, window start] -> budget head
          call, calls,    \* caller -> its request; number of requests
          granted, fed    \* history: challengers given, counts fed in

Global  == "_global"
Scopes  == Tenants \union {Global}
Starts  == {t \in 0..MaxTime : t % WindowLength = 0}
Heads   == Scopes \X Starts
ledgers == <<manifestOf, assignments, budgets, granted, fed>>
experimentVars == <<ledgers, call, calls>>

Fault    == faults < MaxFaults /\ faults' = faults + 1
Resting  == [phase |-> "idle"]
Set(c, value) == call' = [call EXCEPT ![c] = value]
Begin(c) == /\ call[c].phase \in {"idle", "reserved", "recorded"}
            /\ calls < MaxCalls /\ calls' = calls + 1
CanonicalWindowStart(t) == t - (t % WindowLength)

ExperimentInit ==
    /\ clock = 0 /\ faults = 0
    /\ manifestOf = [t \in Tenants |-> None] /\ assignments = {}
    /\ budgets = [h \in Heads |-> [exposure |-> 0, unsafe |-> 0]]
    /\ call = [c \in Callers |-> Resting] /\ calls = 0
    /\ granted = [h \in Heads |-> 0] /\ fed = [s \in Starts |-> 0]

(* Whether Assign chooses a challenger; m.keys are the assignment keys     *)
(* whose hash falls into the exposed buckets.                              *)
Assign(q, tenant, global) ==
    LET m == q.manifest IN
    /\ q.key \in m.keys
    /\ q.risk # "critical"
    /\ q.risk = "high" => m.highRisk
    /\ q.concurrent <= m.concurrent
    /\ tenant.exposure < m.tenantLimit /\ global.exposure < m.globalLimit
    /\ tenant.unsafe <= m.tenantUnsafe /\ global.unsafe <= m.globalUnsafe

FindAssignment(q) == {a \in assignments : a.manifest = q.manifest.id /\ a.key = q.key}
resolveReserved(c, q, a) ==
    Set(c, IF a.risk # q.risk THEN Resting
           ELSE [phase |-> "reserved", req |-> q, got |-> a])

(* reserveOnce up to its writes.                                           *)
ReadReserve(c, q, at, nth) ==
    LET start  == CanonicalWindowStart(at)
        readT  == budgets[q.manifest.tenant, start]
        readG  == budgets[Global, start]
        tenant == [readT EXCEPT !.unsafe = Max({@, q.unsafe})]
        global == [readG EXCEPT !.unsafe = Max({@, q.unsafe})]
        stored == manifestOf[q.manifest.tenant]
    IN IF FindAssignment(q) # {}
       THEN \E a \in FindAssignment(q) : resolveReserved(c, q, a)
       ELSE Set(c,
           IF stored \notin {None, q.manifest.id}
           THEN [phase |-> "unreserved", req |-> q, at |-> at, nth |-> nth, retry |-> FALSE]
           ELSE [phase |-> "reserve", req |-> q, at |-> at, nth |-> nth, tenant |-> tenant, global |-> global,
                 readT |-> readT, readG |-> readG, stored |-> stored,
                 challenger |-> Assign(q, tenant, global)])

Reserve(c, q) ==
    /\ Begin(c)
    /\ ReadReserve(c, q, clock, calls)
    /\ UNCHANGED <<clock, faults, ledgers>>

(* The assignment lives for its TTL, but not past its exposure window.     *)
(* nth stands for the rest of AssignedAt: no two requests share an instant.*)
Sealed(w) ==
    LET start == CanonicalWindowStart(w.at) IN
    [manifest |-> w.req.manifest.id, tenant |-> w.req.manifest.tenant, key |-> w.req.key,
     risk |-> w.req.risk, challenger |-> w.challenger, at |-> w.at, nth |-> w.nth, start |-> start,
     expires |-> Min({w.at + AssignmentTTL, start + WindowLength})]

WritesTenant(w) == w.challenger \/ w.tenant.unsafe > w.readT.unsafe
WritesGlobal(w) == w.challenger \/ w.global.unsafe > w.readG.unsafe
(* Mutant: heads written by somebody else in between are not noticed.      *)
ReserveAlwaysFree(w) ==
    /\ FindAssignment(w.req) = {} /\ manifestOf[w.req.manifest.tenant] = w.stored
ReserveFree(w) ==
    LET start == CanonicalWindowStart(w.at) IN
    /\ FindAssignment(w.req) = {} /\ manifestOf[w.req.manifest.tenant] = w.stored
    /\ WritesTenant(w) => budgets[w.req.manifest.tenant, start] = w.readT
    /\ WritesGlobal(w) => budgets[Global, start] = w.readG

(* ensureExperimentManifest, createExperimentAssignment and both heads.    *)
ReserveWrites(w) ==
    LET t == <<w.req.manifest.tenant, CanonicalWindowStart(w.at)>>
        g == <<Global, t[2]>>
        n == IF w.challenger THEN 1 ELSE 0
    IN /\ manifestOf' = [manifestOf EXCEPT ![t[1]] = w.req.manifest.id]
       /\ assignments' = assignments \union {Sealed(w)}
       /\ budgets' = [h \in Heads |->
              IF h = t /\ WritesTenant(w) THEN [w.tenant EXCEPT !.exposure = @ + n]
              ELSE IF h = g /\ WritesGlobal(w) THEN [w.global EXCEPT !.exposure = @ + n]
              ELSE budgets[h]]
       /\ granted' = [granted EXCEPT ![t] = @ + n, ![g] = @ + n]
       /\ fed' = [fed EXCEPT ![t[2]] = Max({@, w.req.unsafe})]

Unreserved(c, retry) ==
    Set(c, [phase |-> "unreserved", req |-> call[c].req, at |-> call[c].at,
            nth |-> call[c].nth, retry |-> retry])

ReserveCommit(c) ==
    LET w == call[c] IN
    /\ w.phase = "reserve"
    /\ \/ /\ ReserveFree(w) /\ ReserveWrites(w) /\ UNCHANGED faults
          /\ Set(c, [phase |-> "reserved", req |-> w.req, got |-> Sealed(w)])
       \/ /\ ~ReserveFree(w) /\ Unreserved(c, TRUE) /\ UNCHANGED <<ledgers, faults>>
       \/ /\ Fault /\ Unreserved(c, FALSE)
          /\ \/ ReserveFree(w) /\ ReserveWrites(w)      \* the answer is lost
             \/ UNCHANGED ledgers
    /\ UNCHANGED <<clock, calls>>

(* After any error: the assignment somebody stored meanwhile, or another   *)
(* attempt after a transaction conflict.                                   *)
ReserveResolve(c) ==
    LET w == call[c] IN
    /\ w.phase = "unreserved"
    /\ \/ /\ \/ FindAssignment(w.req) # {} \/ w.retry
          /\ ReadReserve(c, w.req, w.at, w.nth) /\ UNCHANGED faults
       \/ /\ \/ FindAssignment(w.req) = {} /\ ~w.retry /\ UNCHANGED faults
             \/ Fault
          /\ Set(c, Resting)
    /\ UNCHANGED <<clock, calls, ledgers>>

ExperimentNext ==
    \E c \in Callers : \/ \E q \in Requests : Reserve(c, q)
                         \/ ReserveCommit(c) \/ ReserveResolve(c)

-----------------------------------------------------------------------------
(* Concurrent reservations never grant more challengers in a window than   *)
(* the manifest stored for the tenant's epoch allows, nor than the global  *)
(* limit; the heads have counted every one of them, and no assignment is   *)
(* made under a rival manifest (experiment.go:112-148, 172-190).           *)
ExposureWithinLimits ==
    \A s \in Starts :
        /\ \A m \in Manifests : manifestOf[m.tenant] = m.id =>
               granted[m.tenant, s] <= m.tenantLimit
        /\ granted[Global, s] <= Max({m.globalLimit : m \in Manifests})
        /\ \A c \in Scopes : budgets[c, s].exposure = granted[c, s]
        /\ \A a \in assignments : manifestOf[a.tenant] = a.manifest

(* A reservation that was answered is the stored row of its key until that *)
(* row expires, so retries and racing callers are routed alike             *)
(* (experiment.go:49-56, 100-108; "make retries stable").                  *)
RoutingIsSticky ==
    \A c \in Callers : LET w == call[c] IN
        w.phase = "reserved" /\ clock < w.got.expires => FindAssignment(w.req) = {w.got}

(* What a reservation promises: the windows' limits, however many callers  *)
(* race for the last place, and a routing that stays (experiment.go:49-56, *)
(* 100-148, 172-190).                                                      *)
ReservationsHold == ExposureWithinLimits /\ RoutingIsSticky
=============================================================================
