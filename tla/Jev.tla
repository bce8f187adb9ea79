-------------------------------- MODULE Jev --------------------------------
(***************************************************************************)
(* The optional semantic judge (internal/jev/service.go) over its          *)
(* SurrealDB ledger (internal/store/surreal/jev.go).  Each API process     *)
(* has its own single-flight group, token buckets, concurrency semaphore   *)
(* and circuit breaker; the ledger is shared.  Callers ask for a judgment  *)
(* of one base key under a deadline.                                       *)
(***************************************************************************)
EXTENDS JevLedger, FiniteSets, FiniteSetsExt

CONSTANTS Procs, Callers,
          ProcOf,                \* caller -> the process that serves it
          Asks,                  \* caller -> the base keys it asks for
          Tenants, TenantOf,     \* naturals; base key -> its tenant
          LegacyBases,           \* base keys judged before heads existed
          Verdicts,              \* what the provider may answer
          Reuse, Deadline, MinimumRemaining,
          MaximumConcurrent, GlobalBurst, TenantBurst, MaximumTenantLimiters,
          Threshold, OpenFor,    \* the breaker
          MaximumAttempts, MaxTime, MaxFaults, MaxCalls

ASSUME JevAssumption ==
    /\ IsFiniteSet(Bases) /\ LegacyBases \subseteq Bases
    /\ ProcOf \in [Callers -> Procs] /\ Asks \in [Callers -> SUBSET Bases]
    /\ Tenants \subseteq Nat /\ TenantOf \in [Bases -> Tenants]
    /\ MaxTime \in Nat /\ MaxFaults \in Nat
    /\ MaximumConcurrent \in Nat /\ MaximumTenantLimiters \in Nat \ {0}
    /\ Reuse \in Nat \ {0} /\ Deadline \in Nat /\ 2 * Deadline < Reuse
    /\ OpenFor \in Nat \ {0} /\ Threshold \in Nat \ {0}

VARIABLES clock,
          call,     \* caller -> its Judge call
          flight,   \* process -> base key -> the judgeMiss running for it
          svc,      \* process -> limiters, semaphore and breaker
          faults,
          calls     \* Judge calls made so far

vars == <<records, heads, clock, call, flight, svc, faults, calls>>

NoFlight == [phase |-> "none"]
NoCall   == [phase |-> "idle"]
(* A degraded answer carries no record and leaves the caller as it was.    *)
Done(now, answer) == IF answer = None THEN NoCall
                     ELSE [phase |-> "done", now |-> now, answer |-> answer]

Fault == faults < MaxFaults /\ faults' = faults + 1
Expired(dl) == clock > dl

(* rate.Limiter.AllowN with one token per tick and one token per call: a   *)
(* time before the last event refills nothing and becomes the last event.  *)
Refilled(bucket, burst, now) ==
    Min({burst, bucket.tokens + (IF now > bucket.last THEN now - bucket.last ELSE 0)})
AllowN(bucket, burst, now) == Refilled(bucket, burst, now) >= 1
Spent(bucket, burst, now) ==
    IF AllowN(bucket, burst, now)
    THEN [tokens |-> Refilled(bucket, burst, now) - 1, last |-> now]
    ELSE bucket

(* tenantRateAllows: the limiter map holds at most MaximumTenantLimiters;  *)
(* a new tenant evicts the one seen least recently, smallest name first.   *)
OldestTenant(tenants) ==
    CHOOSE t \in DOMAIN tenants : \A u \in DOMAIN tenants :
        \/ tenants[t].seen < tenants[u].seen
        \/ tenants[t].seen = tenants[u].seen /\ t <= u
WithLimiter(tenants, t) ==
    IF t \in DOMAIN tenants THEN tenants
    ELSE LET kept == IF Cardinality(DOMAIN tenants) >= MaximumTenantLimiters
                     THEN DOMAIN tenants \ {OldestTenant(tenants)} ELSE DOMAIN tenants
         IN [u \in kept \union {t} |->
                IF u = t THEN [tokens |-> TenantBurst, last |-> 0, seen |-> 0] ELSE tenants[u]]
TenantSpent(tenants, t, now) ==
    LET entry == WithLimiter(tenants, t)[t]
        bucket == Spent([tokens |-> entry.tokens, last |-> entry.last], TenantBurst, now)
    IN [WithLimiter(tenants, t) EXCEPT
            ![t] = [tokens |-> bucket.tokens, last |-> bucket.last, seen |-> now]]
tenantRateAllows(tenants, t, now) ==
    AllowN(WithLimiter(tenants, t)[t], TenantBurst, now)

(* The breaker.  openUntil = 0 is the zero time; the failure count is kept *)
(* up to Threshold, past which the code compares it no further.            *)
CircuitAllows(s, now) == s.openUntil = 0 \/ (now >= s.openUntil /\ ~s.probe)
Allowed(s)   == IF s.openUntil = 0 THEN s ELSE [s EXCEPT !.probe = TRUE]
Success(s)   == [s EXCEPT !.failures = 0, !.openUntil = 0, !.probe = FALSE]
Failure(s, immediate) ==
    LET n == Min({s.failures + 1, Threshold}) IN
    [s EXCEPT !.probe = FALSE, !.failures = n,
              !.openUntil = IF immediate \/ n >= Threshold THEN clock + OpenFor ELSE @]
(* Mutant: the probe is not given back when the ledger cannot be written.  *)
KeepProbe(s) == s
AbandonProbe(s) == [s EXCEPT !.probe = FALSE]

NewService == [failures |-> 0, openUntil |-> 0, probe |-> FALSE, inUse |-> 0,
               global |-> [tokens |-> GlobalBurst, last |-> 0],
               tenants |-> [t \in {} |-> [tokens |-> 0, last |-> 0, seen |-> 0]]]

(* The ledger may hold v1 records, written before heads existed.           *)
JInit == /\ records = {[base |-> b, pred |-> None, created |-> 0, until |-> 1,
                         verdict |-> None] : b \in LegacyBases}
         /\ heads = [b \in Bases |-> None]
         /\ clock = 0 /\ faults = 0 /\ calls = 0
         /\ call = [c \in Callers |-> NoCall]
         /\ flight = [p \in Procs |-> [b \in Bases |-> NoFlight]]
         /\ svc = [p \in Procs |-> NewService]
-----------------------------------------------------------------------------
Tick == /\ clock < MaxTime /\ clock' = clock + 1
        /\ UNCHANGED <<records, heads, call, flight, svc, faults, calls>>

(* Mutant: the window is closed on the right.                              *)
ReusableInclusive(b, now) == Current(b) # None /\ now <= Current(b).until
Reusable(b, now) == Current(b) # None /\ now < Current(b).until

(* Judge: the first look into the ledger, before the single-flight group.  *)
Judge(c, b) ==
    /\ call[c].phase \in {"idle", "done"}
    /\ calls < MaxCalls /\ calls' = calls + 1
    /\ \/ /\ call' = [call EXCEPT ![c] =
                IF Reusable(b, clock) THEN Done(clock, Current(b))
                ELSE [phase |-> "miss", base |-> b, now |-> clock, dl |-> clock + Deadline]]
          /\ UNCHANGED faults
       \/ /\ Fault /\ call' = [call EXCEPT ![c] = Done(clock, None)]
    /\ UNCHANGED <<records, heads, clock, flight, svc>>

(* single.DoChan: join the flight of this base key in this process or      *)
(* start it; the flight keeps the deadline of the caller that started it   *)
(* and is not cancelled with that caller.                                  *)
DoChan(c) ==
    LET p == ProcOf[c]  b == call[c].base IN
    /\ call[c].phase = "miss"
    /\ call' = [call EXCEPT ![c].phase = "wait"]
    /\ flight' = IF flight[p][b].phase # "none" THEN flight
                 ELSE [flight EXCEPT ![p][b] =
                         [phase |-> "lookup", now |-> clock, dl |-> call[c].dl]]
    /\ UNCHANGED <<records, heads, clock, svc, faults, calls>>

(* A caller whose context ends leaves; its flight goes on.                 *)
GiveUp(c) ==
    /\ call[c].phase = "wait" /\ Expired(call[c].dl)
    /\ call' = [call EXCEPT ![c] = Done(call[c].now, None)]
    /\ UNCHANGED <<records, heads, clock, flight, svc, faults, calls>>

(* The end of judgeMiss: every caller waiting on the flight gets the same  *)
(* answer and the deferred release returns the capacity slot.              *)
Waiting(p, b) == {c \in Callers : ProcOf[c] = p /\ call[c].phase = "wait" /\ call[c].base = b}
Holding(p, b) == flight[p][b].phase \in {"evaluate", "commit", "write"}
Finish(p, b, answer, s) ==
    /\ call' = [c \in Callers |-> IF c \in Waiting(p, b) THEN Done(call[c].now, answer)
                                  ELSE call[c]]
    /\ flight' = [flight EXCEPT ![p][b] = NoFlight]
    /\ svc' = [svc EXCEPT ![p] = IF Holding(p, b) THEN [s EXCEPT !.inUse = @ - 1] ELSE s]
    /\ UNCHANGED <<records, heads, clock>>

(* judgeMiss, second look: another flight may have answered meanwhile.     *)
Lookup(p, b) ==
    LET f == flight[p][b] IN
    /\ f.phase = "lookup"
    /\ \/ /\ ~Expired(f.dl) /\ Reusable(b, f.now)
          /\ Finish(p, b, Current(b), svc[p]) /\ UNCHANGED faults
       \/ /\ ~Expired(f.dl) /\ ~Reusable(b, f.now)
          /\ flight' = [flight EXCEPT ![p][b].phase = "current"]
          /\ UNCHANGED <<records, heads, clock, call, svc, faults>>
       \/ /\ Expired(f.dl) /\ Finish(p, b, None, svc[p]) /\ UNCHANGED faults
       \/ /\ Fault /\ Finish(p, b, None, svc[p])

(* judgeMiss, Current and the admission controls in their order: remaining *)
(* time, tenant tokens, global tokens, capacity, circuit.  Tokens taken    *)
(* before a later control refuses stay taken.                              *)
Admit(p, b) ==
    LET f == flight[p][b]
        t == TenantOf[b]
        s == svc[p]
        tenants == TenantSpent(s.tenants, t, f.now)
        charged == [s EXCEPT !.tenants = tenants]
        paid    == [charged EXCEPT !.global = Spent(@, GlobalBurst, f.now)]
        held    == [Allowed(paid) EXCEPT !.inUse = @ + 1]
    IN
    /\ f.phase = "current"
    /\ \/ /\ Fault \/ (Expired(f.dl) /\ UNCHANGED faults)
          /\ Finish(p, b, None, s)
       \/ /\ ~Expired(f.dl) /\ UNCHANGED faults
          /\ IF Reusable(b, f.now) THEN Finish(p, b, Current(b), s)
             ELSE IF f.dl - f.now < MinimumRemaining THEN Finish(p, b, None, s)
             ELSE IF \/ ~tenantRateAllows(s.tenants, t, f.now)
                     \/ ~AllowN(s.global, GlobalBurst, f.now) THEN Finish(p, b, None, charged)
             ELSE IF s.inUse >= MaximumConcurrent \/ ~CircuitAllows(s, f.now)
                  THEN Finish(p, b, None, paid)
             ELSE /\ flight' = [flight EXCEPT ![p][b] =
                        [phase |-> "evaluate", now |-> f.now, dl |-> f.dl, pred |-> Current(b)]]
                  /\ svc' = [svc EXCEPT ![p] = held]
                  /\ UNCHANGED <<records, heads, clock, call>>

(* The provider's one attempt.  An error, a wrong model or an unusable     *)
(* answer counts against the circuit, an authentication error opens it.    *)
Evaluate(p, b) ==
    LET f == flight[p][b] IN
    /\ f.phase = "evaluate" /\ UNCHANGED faults
    /\ \/ /\ ~Expired(f.dl)
          /\ \E v \in Verdicts :
               flight' = [flight EXCEPT ![p][b] =
                 [phase |-> "commit", dl |-> f.dl, tries |-> 0,
                  rec |-> [base |-> b, pred |-> f.pred, created |-> f.now,
                           until |-> f.now + Reuse, verdict |-> v]]]
          /\ UNCHANGED <<records, heads, clock, call, svc>>
       \/ \E immediate \in BOOLEAN : Finish(p, b, None, Failure(svc[p], immediate))

Committed(p, b, winner) == Finish(p, b, winner, Success(svc[p])) /\ UNCHANGED faults
Unwritten(p, b) == Finish(p, b, None, AbandonProbe(svc[p]))

(* commitOnce reads: a record other than the expected predecessor, or one  *)
(* still reusable at the new record's time, is the winner.  The service's  *)
(* own answer to a winner is a success of the provider.                    *)
Beaten(r) == /\ Current(r.base) # None
             /\ Current(r.base) # r.pred \/ r.created < Current(r.base).until
CommitRead(p, b) ==
    LET f == flight[p][b] IN
    /\ f.phase = "commit"
    /\ \/ /\ ~Expired(f.dl) /\ Beaten(f.rec) /\ Committed(p, b, Current(b))
       \/ /\ ~Expired(f.dl) /\ ~Beaten(f.rec)
          /\ IF \E s \in records : s.base = b /\ s.pred = f.rec.pred /\ s # f.rec
             THEN Unwritten(p, b)
             ELSE /\ flight' = [flight EXCEPT ![p][b] =
                        [phase |-> "write", dl |-> f.dl, tries |-> f.tries,
                         rec |-> f.rec, head |-> heads[b]]]
                  /\ UNCHANGED <<records, heads, clock, call, svc>>
          /\ UNCHANGED faults
       \/ /\ Fault \/ (Expired(f.dl) /\ UNCHANGED faults)
          /\ Unwritten(p, b)

(* The transaction creates the judgment and its head.  Two transactions    *)
(* that write one head conflict: the later one starts over.                *)
(* Mutant: a first judgment is written without its head.                   *)
HeadlessFirst(r) ==
    /\ records' = records \union {r}
    /\ heads' = IF r.pred = None THEN heads ELSE [heads EXCEPT ![r.base] = r]
Persist(r) == /\ records' = records \union {r}
              /\ heads' = [heads EXCEPT ![r.base] = r]
CommitWrite(p, b) ==
    LET f == flight[p][b] IN
    /\ f.phase = "write"
    /\ \/ /\ ~Expired(f.dl) /\ heads[b] = f.head /\ Persist(f.rec)
          /\ call' = [c \in Callers |-> IF c \in Waiting(p, b) THEN Done(call[c].now, f.rec)
                                        ELSE call[c]]
          /\ flight' = [flight EXCEPT ![p][b] = NoFlight]
          /\ svc' = [svc EXCEPT ![p] = [Success(svc[p]) EXCEPT !.inUse = @ - 1]]
          /\ UNCHANGED <<clock, faults>>
       \/ \* the transaction commits and its answer is lost
          /\ ~Expired(f.dl) /\ heads[b] = f.head /\ Persist(f.rec) /\ Fault
          /\ call' = [c \in Callers |-> IF c \in Waiting(p, b) THEN Done(call[c].now, None)
                                        ELSE call[c]]
          /\ flight' = [flight EXCEPT ![p][b] = NoFlight]
          /\ svc' = [svc EXCEPT ![p] = [AbandonProbe(svc[p]) EXCEPT !.inUse = @ - 1]]
          /\ UNCHANGED clock
       \/ /\ ~Expired(f.dl) /\ heads[b] # f.head /\ UNCHANGED faults
          /\ IF f.tries + 1 < MaximumAttempts
             THEN /\ flight' = [flight EXCEPT ![p][b] = [phase |-> "commit", dl |-> f.dl,
                                  tries |-> f.tries + 1, rec |-> f.rec]]
                  /\ UNCHANGED <<records, heads, clock, call, svc>>
             ELSE Unwritten(p, b)
       \/ /\ Fault \/ (Expired(f.dl) /\ UNCHANGED faults)
          /\ Unwritten(p, b)

(* A process restarts: its flights and its limiters are gone, its callers  *)
(* lose their connections.                                                 *)
Crash(p) ==
    /\ Fault
    /\ flight' = [flight EXCEPT ![p] = [b \in Bases |-> NoFlight]]
    /\ svc' = [svc EXCEPT ![p] = NewService]
    /\ call' = [c \in Callers |-> IF ProcOf[c] = p THEN NoCall ELSE call[c]]
    /\ UNCHANGED <<records, heads, clock>>

JNext == \/ Tick
         \/ \E c \in Callers : (\E b \in Asks[c] : Judge(c, b)) \/ DoChan(c) \/ GiveUp(c)
         \/ /\ UNCHANGED calls
            /\ \E p \in Procs : \/ \E b \in Bases : \/ Lookup(p, b) \/ Admit(p, b)
                                                   \/ Evaluate(p, b) \/ CommitRead(p, b)
                                                   \/ CommitWrite(p, b)
                                \/ Crash(p)

JSpec == JInit /\ [][JNext]_vars
-----------------------------------------------------------------------------
TypeOK ==
    /\ clock \in 0..MaxTime /\ faults \in 0..MaxFaults
    /\ \A r \in records : WellFormed(r)
    /\ \A b \in Bases : heads[b] = None \/ heads[b] \in records
    /\ \A p \in Procs : /\ svc[p].failures \in 0..Threshold
                        /\ svc[p].inUse \in 0..MaximumConcurrent
                        /\ Cardinality(DOMAIN svc[p].tenants) <= MaximumTenantLimiters

(* The SurrealDB ledger behaves as the in-memory one: reading, deciding    *)
(* and writing in an optimistic transaction, retried on conflict, from     *)
(* several processes, is a sequence of its atomic commits                  *)
(* (store/surreal/jev.go:92-188 against jev/repository.go:177-208).        *)
ImplementsLedger == Spec

(* A judgment handed to a caller is durable and was still reusable when    *)
(* that caller asked, whoever produced it and however long the shared      *)
(* flight took (service.go:97-199).                                        *)
AnswersAreDurableAndFresh ==
    \A c \in Callers : call[c].phase = "done" /\ call[c].answer # None =>
        call[c].answer \in records /\ call[c].now < call[c].answer.until

(* An idle process holds nothing back: the half-open probe and the         *)
(* capacity slots belong to running flights, so a lost ledger write cannot *)
(* leave the circuit refusing every later call (service.go:168-198,        *)
(* 250-283).                                                               *)
NothingHeldWhenIdle ==
    \A p \in Procs :
        LET running == {b \in Bases : Holding(p, b)} IN
        svc[p].inUse = Cardinality(running) /\ (svc[p].probe => running # {})

(* What a process keeps stays within its limits: the capacity it hands     *)
(* out, the circuit's failure count and the map of tenant limiters, which  *)
(* is trimmed when it is full; and nothing of it is held by nobody         *)
(* (service.go:140-225, 250-283).                                          *)
ServiceHoldsItsLimits == TypeOK /\ NothingHeldWhenIdle
=============================================================================
