---------------------------- MODULE Maintenance -----------------------------
(***************************************************************************)
(* The maintenance queue and the runner that drains it, composed with the  *)
(* lifecycle publications its jobs carry (Serving).                        *)
(*   store/surreal/maintenance.go  Enqueue, Claim, Complete, Fail          *)
(*   maintenance/runner.go         Run, RunOnce, processLease              *)
(*   maintenance/handlers.go       LifecycleHandler                        *)
(*   cmd/worker/main.go            the process that ends with the runner   *)
(*                                                                         *)
(* Unlike the outbox, finishing a job is not idempotent and clears its     *)
(* owner, and a failed attempt is made available again at a time that the  *)
(* worker's clock sets and the database's clock reads.  Time is counted in *)
(* the ticks that remain, as in Outbox.                                    *)
(***************************************************************************)
EXTENDS Serving

CONSTANTS Processes, Owners,
          WorkerID,         \* the configured ID each process was given, + ":maintenance"
          Rollbacks,        \* jobs of kind lifecycle_rollback; the others evaluate
          BatchSize, LeaseDuration, MaximumAttempts, MaximumBackoff,
          MaxSkew,          \* bound: how far a worker's clock is from the database's
          MaxFaults         \* bound: crashes, failed calls and overrun leases

ASSUME MaintenanceAssumption ==
  /\ WorkerID \in [Processes -> Owners] /\ None \notin Owners
  /\ Rollbacks \subseteq Jobs
  /\ BatchSize \in Nat \ {0} /\ LeaseDuration \in Nat \ {0}
  /\ MaximumAttempts \in Nat \ {0} /\ MaximumBackoff \in Nat \ {0}
  /\ MaxSkew \in Nat /\ MaxFaults \in Nat

VARIABLES row,        \* row[j]: the maintenance_job record
          work,       \* work[p][j]: what process p is doing with its lease on j
          failing,    \* failing[p]: RunOnce has an error to return
          committing, \* publications whose commit is on its way to the database
          faults

queueVars == <<row, work, failing, committing, faults>>
mvars == <<vars, queueVars>>

NoRow == [state |-> "absent", owner |-> None, fencing |-> 0, expires |-> 0,
          available |-> 0, attempts |-> 0]
NoWork == [phase |-> "none", fencing |-> 0, attempt |-> 0]

Idle(p) == \A j \in Jobs : work[p][j] = NoWork
Moves(p, j, phase) == work' = [work EXCEPT ![p][j].phase = phase]
Ends(p, j) == work' = [work EXCEPT ![p][j] = NoWork]
Errs(p) == failing' = [failing EXCEPT ![p] = TRUE]
Fault == faults < MaxFaults /\ faults' = faults + 1

MInit ==
  /\ Init
  /\ row = [j \in Jobs |-> NoRow]
  /\ work = [p \in Processes |-> [j \in Jobs |-> NoWork]]
  /\ failing = [p \in Processes |-> FALSE]
  /\ committing = {}
  /\ faults = 0

-----------------------------------------------------------------------------
(* The other writers of the projection, and payloads computed from it.     *)
Publishes ==
  /\ \/ \E m \in Manifests : Publish(m)
     \/ \E j \in Jobs : NewLifecyclePayload(j)
  /\ UNCHANGED queueVars

(* A spec already stored under its idempotency key is left as it is.       *)
Enqueue(j) ==
  /\ job[j] # NoPayload /\ row[j] = NoRow
  /\ row' = [row EXCEPT ![j] = [NoRow EXCEPT !.state = "pending"]]
  /\ UNCHANGED <<vars, work, failing, committing, faults>>

(* Mutants: only pending jobs are claimed; whatever is not live is.        *)
ClaimablePending(j) == row[j].state = "pending" /\ row[j].available = 0
ClaimableUnleased(j) ==
  \/ row[j].state \in {"pending", "dead_letter"} /\ row[j].available = 0
  \/ row[j].state = "leased" /\ row[j].expires = 0

Claimable(j) ==
  \/ row[j].state = "pending" /\ row[j].available = 0
  \/ row[j].state = "leased" /\ row[j].expires = 0

(* RunOnce claims again only when every handler of its last batch is done. *)
Claim(p) ==
  LET ready == {j \in Jobs : Claimable(j)}
      size == IF Cardinality(ready) < BatchSize THEN Cardinality(ready) ELSE BatchSize IN
  /\ Idle(p) /\ ~failing[p] /\ ready # {}
  /\ \E batch \in {b \in SUBSET ready : Cardinality(b) = size} :
       /\ row' = [j \in Jobs |-> IF j \notin batch THEN row[j] ELSE
            [row[j] EXCEPT !.state = "leased", !.owner = WorkerID[p], !.fencing = @ + 1,
                           !.expires = LeaseDuration, !.attempts = @ + 1]]
       /\ work' = [work EXCEPT ![p] = [j \in Jobs |-> IF j \notin batch THEN NoWork ELSE
            [phase |-> "handle", fencing |-> row[j].fencing + 1, attempt |-> row[j].attempts + 1]]]
  /\ UNCHANGED <<vars, failing, committing, faults>>

-----------------------------------------------------------------------------
(* LifecycleHandler.  The payload fixes the decision, so every attempt     *)
(* commits the same one.  The database may act on the commit after its     *)
(* caller has given up.                                                    *)
Acceptable(j) == j \in Rollbacks => job[j].prior = "active" /\ job[j].next # "active"

Handle(p, j) ==
  /\ work[p][j].phase = "handle"
  /\ IF Acceptable(j) THEN Moves(p, j, "sent") /\ committing' = committing \cup {j}
     ELSE Moves(p, j, "failed") /\ UNCHANGED committing
  /\ UNCHANGED <<vars, row, failing, faults>>

Publishable(j) == decided[j] = 0 /\ SourceCurrent(job[j]) /\ ChampionFree(job[j])

DatabaseCommits(j) ==
  /\ j \in committing
  /\ IF Publishable(j) THEN Commit(j) ELSE UNCHANGED vars
  /\ committing' = committing \ {j}
  /\ UNCHANGED <<row, work, failing, faults>>

(* Committed now, or found committed by an earlier attempt.                *)
HandlerSucceeds(p, j) ==
  /\ work[p][j].phase = "sent" /\ decided[j] # 0
  /\ Moves(p, j, "handled")
  /\ UNCHANGED <<vars, row, failing, committing, faults>>

(* ErrLifecycleConflict or ErrChampionConflict.                            *)
HandlerConflicts(p, j) ==
  /\ work[p][j].phase = "sent" /\ decided[j] = 0 /\ j \notin committing
  /\ Moves(p, j, "failed")
  /\ UNCHANGED <<vars, row, failing, committing, faults>>

(* A database error or the deadline at the lease's expiry, whatever became *)
(* or will become of the commit.                                           *)
HandlerErrs(p, j) ==
  /\ work[p][j].phase = "sent"
  /\ Moves(p, j, "failed")
  /\ Fault
  /\ UNCHANGED <<vars, row, failing, committing>>

(* transitionMaintenance; otherwise ErrStaleLease.                         *)
Authorised(p, j) ==
  /\ row[j].state = "leased" /\ row[j].owner = WorkerID[p]
  /\ row[j].fencing = work[p][j].fencing /\ row[j].expires > 0

Released(j, state, available) ==
  [row[j] EXCEPT !.state = state, !.owner = None, !.expires = 0, !.available = available]

(* The answer arrives, or is lost and RunOnce returns an error.            *)
AnswerOrLost(p) ==
  \/ UNCHANGED <<failing, faults>>
  \/ Errs(p) /\ Fault

Complete(p, j) ==
  /\ work[p][j].phase = "handled" /\ Authorised(p, j)
  /\ row' = [row EXCEPT ![j] = Released(j, "completed", row[j].available)]
  /\ Ends(p, j)
  /\ AnswerOrLost(p)
  /\ UNCHANGED <<vars, committing>>

Backoff(attempt) ==
  LET shift == IF attempt - 1 < 20 THEN attempt - 1 ELSE 20 IN
  IF 2^shift < MaximumBackoff THEN 2^shift ELSE MaximumBackoff

(* RetryAt is the worker's clock plus the delay.                           *)
RetryAt(delay) == {t \in 0..(delay + MaxSkew) : t >= delay - MaxSkew}

Fail(p, j) ==
  LET dead == work[p][j].attempt >= MaximumAttempts
      delay == IF dead THEN 0 ELSE Backoff(work[p][j].attempt) IN
  /\ work[p][j].phase = "failed" /\ Authorised(p, j)
  /\ \E available \in RetryAt(delay) :
       row' = [row EXCEPT ![j] = Released(j, IF dead THEN "dead_letter" ELSE "pending", available)]
  /\ Ends(p, j)
  /\ AnswerOrLost(p)
  /\ UNCHANGED <<vars, committing>>

StaleLease(p, j) ==
  /\ work[p][j].phase \in {"handled", "failed"} /\ ~Authorised(p, j)
  /\ Ends(p, j)
  /\ Errs(p)
  /\ UNCHANGED <<vars, row, committing, faults>>

(* The transition's transaction fails and writes nothing.                  *)
TransitionFails(p, j) ==
  /\ work[p][j].phase \in {"handled", "failed"}
  /\ Ends(p, j)
  /\ Errs(p) /\ Fault
  /\ UNCHANGED <<vars, row, committing>>

-----------------------------------------------------------------------------
(* Run returns a batch's errors; the process exits and is restarted with   *)
(* its ID.  A process may also be killed at any point.                     *)
Exit(p) ==
  /\ failing[p] /\ Idle(p)
  /\ failing' = [failing EXCEPT ![p] = FALSE]
  /\ UNCHANGED <<vars, row, work, committing, faults>>

Crash(p) ==
  /\ ~Idle(p)
  /\ work' = [work EXCEPT ![p] = [j \in Jobs |-> NoWork]]
  /\ failing' = [failing EXCEPT ![p] = FALSE]
  /\ Fault
  /\ UNCHANGED <<vars, row, committing>>

Before(n) == IF n = 0 THEN 0 ELSE n - 1

(* A tick that ends a lease still being worked on is a fault.              *)
Overruns ==
  \E p \in Processes, j \in Jobs :
    work[p][j] # NoWork /\ Authorised(p, j) /\ row[j].expires = 1

Tick ==
  /\ row' = [j \in Jobs |-> [row[j] EXCEPT !.expires = Before(@), !.available = Before(@)]]
  /\ IF Overruns THEN Fault ELSE UNCHANGED faults
  /\ UNCHANGED <<vars, work, failing, committing>>

processLease(p, j) ==
  \/ Handle(p, j) \/ HandlerSucceeds(p, j) \/ HandlerConflicts(p, j) \/ HandlerErrs(p, j)
  \/ Complete(p, j) \/ Fail(p, j) \/ StaleLease(p, j) \/ TransitionFails(p, j)

MNext ==
  \/ Publishes \/ Tick
  \/ \E j \in Jobs : Enqueue(j) \/ DatabaseCommits(j)
  \/ \E p \in Processes : Claim(p) \/ Exit(p) \/ Crash(p)
  \/ \E p \in Processes, j \in Jobs : processLease(p, j)

MSpec == MInit /\ [][MNext]_mvars

(* Run polls for ever, a handler is bounded by its lease, the supervisor   *)
(* restarts a process, time passes and the database answers.               *)
Works(p) == Claim(p) \/ Exit(p) \/ \E j \in Jobs : processLease(p, j)

FairMSpec ==
  /\ MSpec
  /\ \A p \in Processes : WF_mvars(Works(p))
  /\ WF_mvars(\E j \in Jobs : DatabaseCommits(j))
  /\ WF_mvars(Tick)

-----------------------------------------------------------------------------
MTypeOK ==
  /\ TypeOK
  /\ row \in [Jobs -> [state : {"absent", "pending", "leased", "completed", "dead_letter"},
                       owner : Owners \cup {None}, fencing : Nat, expires : 0..LeaseDuration,
                       available : 0..(MaximumBackoff + MaxSkew), attempts : Nat]]
  /\ work \in [Processes -> [Jobs -> [phase : {"none", "handle", "sent", "handled", "failed"},
                                      fencing : Nat, attempt : Nat]]]
  /\ failing \in [Processes -> BOOLEAN]
  /\ committing \subseteq Jobs
  /\ faults \in 0..MaxFaults

(* "completion from the old worker must fail with stale maintenance job    *)
(* lease" (composition-lifecycle.md): whatever leases expired, at most one *)
(* process can finish a job, even among processes configured with one ID.  *)
OneFinisher ==
  \A j \in Jobs, p, q \in Processes :
    work[p][j] # NoWork /\ work[q][j] # NoWork /\ Authorised(p, j) /\ Authorised(q, j) => p = q

(* A job is completed only when its decision is stored, and its decision   *)
(* is served: no attempt takes the answer of a commit for granted.         *)
CompletedDecided ==
  \A j \in Jobs : row[j].state = "completed" => decided[j] # 0

(* A job whose source document has been superseded never decides anything, *)
(* however late its commit reaches the database and however often the job  *)
(* is retried.                                                             *)
Superseded(j) ==
  job[j] # NoPayload /\ \E d \in DocumentsOf(job[j].version) : d.epoch > job[j].source
SupersededNeverDecides ==
  [][\A j \in Jobs : Superseded(j) => decided'[j] = decided[j]]_mvars

(* The queue's promise, from the row's state alone: recorded once, settled *)
(* once and for good, and completed only with the effect in place.         *)
Status(state) ==
  CASE state = "absent" -> "absent"
    [] state \in {"pending", "leased"} -> "open"
    [] state = "completed" -> "delivered"
    [] state = "dead_letter" -> "abandoned"

D == INSTANCE Delivery WITH status <- [j \in Jobs |-> Status(row[j].state)],
                            started <- {j \in Jobs : decided[j] # 0}
Delivers == D!DSpec

(* Once faults stop every job is completed or dead-lettered, a job that    *)
(* can never succeed included.                                             *)
EveryJobSettled == D!DSettles
=============================================================================
