------------------------------- MODULE Outbox -------------------------------
(***************************************************************************)
(* The transactional outbox and the relay that drains it:                  *)
(*   store/surreal/outbox.go   ClaimOutbox, CompleteOutbox, ReleaseOutbox  *)
(*   workflow/relay.go         Run, RunOnce, dispatch, dispatchError       *)
(*   workflow/temporal.go      Start, classifyProviderError                *)
(*   cmd/worker/main.go        the process that ends when the relay fails  *)
(*                                                                         *)
(* A repository transaction is one step.  Two transactions that write one  *)
(* row conflict and the loser is retried, so a committed transaction saw   *)
(* the row exactly as it was when it read the database clock.              *)
(*                                                                         *)
(* Time is the database's.  expires and available count the ticks that     *)
(* remain until lease_expires_at and available_at; 0 stands for "at or     *)
(* before now" (and for NONE).                                             *)
(***************************************************************************)
EXTENDS Integers, FiniteSets

CONSTANTS Jobs,             \* workflow IDs: one row of outbox_job each
          Processes,        \* running worker processes
          Owners,           \* values of MEMJEV_WORKER_ID
          WorkerID,         \* the ID each process was configured with
          BatchSize, LeaseDuration, MaximumAttempts, MaximumBackoff,
          MaxFaults         \* bound: crashes, failed calls and overrun leases

ASSUME OutboxAssumption ==
  /\ WorkerID \in [Processes -> Owners]
  /\ BatchSize \in Nat \ {0}
  /\ LeaseDuration \in Nat \ {0}
  /\ MaximumAttempts \in Nat \ {0}
  /\ MaximumBackoff \in Nat \ {0}
  /\ MaxFaults \in Nat

ASSUME NoOwnerAssumption == "none" \notin Owners

VARIABLES row,       \* row[j]: the outbox_job record
          dispatch,  \* dispatch[p][j]: what process p is doing with its lease on j
          failing,   \* failing[p]: RunOnce has an error to return
          requests,  \* start requests that have left for Temporal
          started,   \* workflows Temporal has started
          faults     \* how much of MaxFaults is spent

vars == <<row, dispatch, failing, requests, started, faults>>

States == {"absent", "pending", "leased", "completed", "dead_letter"}
Phases == {"none", "start", "sent", "complete", "retry", "dead"}

Row == [state : States, owner : Owners \cup {"none"}, generation : Nat,
        expires : Nat, available : Nat, attempts : Nat]
Dispatch == [phase : Phases, token : Nat, attempt : Nat]

NoRow == [state |-> "absent", owner |-> "none", generation |-> 0,
          expires |-> 0, available |-> 0, attempts |-> 0]
NoDispatch == [phase |-> "none", token |-> 0, attempt |-> 0]

Idle(p) == \A j \in Jobs : dispatch[p][j].phase = "none"

Moves(p, j, phase) == dispatch' = [dispatch EXCEPT ![p][j] = [@ EXCEPT !.phase = phase]]
Ends(p, j) == dispatch' = [dispatch EXCEPT ![p][j] = NoDispatch]

Fault == faults < MaxFaults /\ faults' = faults + 1

Init ==
  /\ row = [j \in Jobs |-> NoRow]
  /\ dispatch = [p \in Processes |-> [j \in Jobs |-> NoDispatch]]
  /\ failing = [p \in Processes |-> FALSE]
  /\ requests = {}
  /\ started = {}
  /\ faults = 0

-----------------------------------------------------------------------------
(* The ingest and outcome transactions create the row.                     *)
createOutbox(j) ==
  /\ row[j].state = "absent"
  /\ row' = [row EXCEPT ![j] = [NoRow EXCEPT !.state = "pending"]]
  /\ UNCHANGED <<dispatch, failing, requests, started, faults>>

(* Mutants: only pending rows are claimed; an expired lease is claimed     *)
(* whatever became of the row.                                             *)
ClaimablePending(j) == row[j].state = "pending" /\ row[j].available = 0
ClaimableExpired(j) ==
  \/ row[j].state = "pending" /\ row[j].available = 0
  \/ row[j].state \in {"leased", "completed", "dead_letter"} /\ row[j].expires = 0

(* The WHERE clause of claimOnce, used by the SELECT and again by the      *)
(* UPDATE.  It does not look at attempt_count.                             *)
Claimable(j) ==
  \/ row[j].state = "pending" /\ row[j].available = 0
  \/ row[j].state = "leased" /\ row[j].expires = 0

(* ORDER BY ... LIMIT picks the batch; any batch of that size may be the   *)
(* first in the order, whatever the creation times were.                   *)
Batches ==
  LET ready == {j \in Jobs : Claimable(j)}
      size  == IF Cardinality(ready) < BatchSize THEN Cardinality(ready) ELSE BatchSize
  IN  {batch \in SUBSET ready : Cardinality(batch) = size /\ batch # {}}

Leased(j, p) ==
  [row[j] EXCEPT !.state = "leased", !.owner = WorkerID[p],
                 !.generation = @ + 1, !.expires = LeaseDuration, !.attempts = @ + 1]

(* RunOnce claims a batch only after every dispatch of the last one ended. *)
ClaimOutbox(p) ==
  /\ Idle(p) /\ ~failing[p]
  /\ \E batch \in Batches :
       /\ row' = [j \in Jobs |-> IF j \in batch THEN Leased(j, p) ELSE row[j]]
       /\ dispatch' = [dispatch EXCEPT ![p] =
            [j \in Jobs |-> IF j \in batch
                            THEN [phase |-> "start", token |-> row[j].generation + 1,
                                  attempt |-> row[j].attempts + 1]
                            ELSE NoDispatch]]
  /\ UNCHANGED <<failing, requests, started, faults>>

-----------------------------------------------------------------------------
(* Start sends the request; Temporal may act on it at any later time, even *)
(* after the caller has stopped waiting.                                   *)
Start(p, j) ==
  /\ dispatch[p][j].phase = "start"
  /\ requests' = requests \cup {j}
  /\ Moves(p, j, "sent")
  /\ UNCHANGED <<row, failing, started, faults>>

TemporalStarts(j) ==
  /\ j \in requests
  /\ started' = started \cup {j}
  /\ UNCHANGED <<row, dispatch, failing, requests, faults>>

(* Started, or WorkflowExecutionAlreadyStarted: both are success.          *)
StartSucceeds(p, j) ==
  /\ dispatch[p][j].phase = "sent"
  /\ j \in started
  /\ Moves(p, j, "complete")
  /\ UNCHANGED <<row, failing, requests, started, faults>>

DeadLetter(retryable, attempt) == ~retryable \/ attempt >= MaximumAttempts

(* Any error, the deadline at lease expiry included, and whether or not    *)
(* Temporal has started or will start the workflow.                        *)
StartFails(p, j) ==
  /\ dispatch[p][j].phase = "sent"
  /\ \E retryable \in BOOLEAN :
       Moves(p, j, IF DeadLetter(retryable, dispatch[p][j].attempt) THEN "dead" ELSE "retry")
  /\ Fault
  /\ UNCHANGED <<row, failing, requests, started>>

-----------------------------------------------------------------------------
(* Mutant: the fencing token is not compared.                              *)
AuthorisedByOwner(p, j) ==
  /\ row[j].owner = WorkerID[p]
  /\ row[j].state = "leased" => row[j].expires > 0

(* transitionOnce: token and owner must match, and a leased row must not   *)
(* have expired.                                                           *)
Authorised(p, j) ==
  /\ row[j].generation = dispatch[p][j].token
  /\ row[j].owner = WorkerID[p]
  /\ row[j].state = "leased" => row[j].expires > 0

RetryDelays(attempt) ==
  LET shift == IF attempt - 1 < 20 THEN attempt - 1 ELSE 20
  IN  {d \in 0..MaximumBackoff : d = IF 2^shift < MaximumBackoff THEN 2^shift ELSE MaximumBackoff}

CompletedRow(j) == [row[j] EXCEPT !.state = "completed", !.expires = 0]
ReleasedRow(j, target, delay) ==
  [row[j] EXCEPT !.state = target, !.available = delay, !.expires = 0]

Fails(p) == failing' = [failing EXCEPT ![p] = TRUE]

CompleteOutbox(p, j) ==
  /\ dispatch[p][j].phase = "complete"
  /\ Authorised(p, j)
  /\ row[j].state \in {"completed", "leased"}
  /\ row' = IF row[j].state = "completed" THEN row
            ELSE [row EXCEPT ![j] = CompletedRow(j)]
  /\ Ends(p, j)
  /\ \/ UNCHANGED <<failing, faults>>
     \/ Fails(p) /\ Fault                      \* committed, but the answer was lost
  /\ UNCHANGED <<requests, started>>

Target(phase) == IF phase = "dead" THEN "dead_letter" ELSE "pending"

ReleaseOutbox(p, j) ==
  /\ dispatch[p][j].phase \in {"retry", "dead"}
  /\ LET target == Target(dispatch[p][j].phase) IN
       /\ Authorised(p, j)
       /\ row[j].state \in {target, "leased"}
       /\ \E delay \in IF target = "dead_letter" THEN {0}
                       ELSE RetryDelays(dispatch[p][j].attempt) :
            row' = IF row[j].state = target THEN row
                   ELSE [row EXCEPT ![j] = ReleasedRow(j, target, delay)]
  /\ Ends(p, j)
  /\ \/ UNCHANGED <<failing, faults>>
     \/ Fails(p) /\ Fault
  /\ UNCHANGED <<requests, started>>

(* ErrStaleLease: the transaction is cancelled and dispatch returns it.    *)
StaleLease(p, j) ==
  /\ \/ /\ dispatch[p][j].phase = "complete"
        /\ ~(Authorised(p, j) /\ row[j].state \in {"completed", "leased"})
     \/ /\ dispatch[p][j].phase \in {"retry", "dead"}
        /\ ~(Authorised(p, j) /\ row[j].state \in {Target(dispatch[p][j].phase), "leased"})
  /\ Ends(p, j)
  /\ Fails(p)
  /\ UNCHANGED <<row, requests, started, faults>>

(* The database fails, or eight attempts conflict: nothing is written.     *)
TransitionFails(p, j) ==
  /\ dispatch[p][j].phase \in {"complete", "retry", "dead"}
  /\ Ends(p, j)
  /\ Fails(p)
  /\ Fault
  /\ UNCHANGED <<row, requests, started>>

-----------------------------------------------------------------------------
(* Run returns the error, the process exits and its supervisor restarts it *)
(* with the same configuration.                                            *)
Exit(p) ==
  /\ failing[p] /\ Idle(p)
  /\ failing' = [failing EXCEPT ![p] = FALSE]
  /\ UNCHANGED <<row, dispatch, requests, started, faults>>

(* Killed or shut down at any point; a claim whose answer was lost ends    *)
(* the same way.  Requests already sent stay on their way.                 *)
Crash(p) ==
  /\ ~Idle(p)
  /\ dispatch' = [dispatch EXCEPT ![p] = [j \in Jobs |-> NoDispatch]]
  /\ failing' = [failing EXCEPT ![p] = FALSE]
  /\ Fault
  /\ UNCHANGED <<row, requests, started>>

Before(n) == IF n = 0 THEN 0 ELSE n - 1
Aged(j) == [row[j] EXCEPT !.expires = Before(@), !.available = Before(@)]

(* A tick that ends a lease still being worked on is a fault.              *)
Overruns ==
  \E p \in Processes, j \in Jobs :
    /\ dispatch[p][j].phase # "none"
    /\ row[j].state = "leased" /\ row[j].generation = dispatch[p][j].token
    /\ row[j].expires = 1

Tick ==
  /\ row' = [j \in Jobs |-> Aged(j)]
  /\ IF Overruns THEN Fault ELSE UNCHANGED faults
  /\ UNCHANGED <<dispatch, failing, requests, started>>

-----------------------------------------------------------------------------
Handle(p, j) ==
  \/ Start(p, j) \/ StartSucceeds(p, j) \/ StartFails(p, j)
  \/ CompleteOutbox(p, j) \/ ReleaseOutbox(p, j)
  \/ StaleLease(p, j) \/ TransitionFails(p, j)

Next ==
  \/ \E j \in Jobs : createOutbox(j) \/ TemporalStarts(j)
  \/ \E p \in Processes : ClaimOutbox(p) \/ Exit(p) \/ Crash(p)
  \/ \E p \in Processes, j \in Jobs : Handle(p, j)
  \/ Tick

Spec == Init /\ [][Next]_vars

(* Run polls for ever, a dispatch is bounded by its lease's deadline, the  *)
(* supervisor restarts a process that exits, time passes, and Temporal     *)
(* serves a request once the faults are spent.                             *)
Fairness ==
  /\ \A p \in Processes : WF_vars(ClaimOutbox(p)) /\ WF_vars(Exit(p))
  /\ \A p \in Processes, j \in Jobs : WF_vars(Handle(p, j))
  /\ \A j \in Jobs : WF_vars(TemporalStarts(j))
  /\ WF_vars(Tick)

FairSpec == Spec /\ Fairness

-----------------------------------------------------------------------------
TypeOK ==
  /\ row \in [Jobs -> Row]
  /\ dispatch \in [Processes -> [Jobs -> Dispatch]]
  /\ failing \in [Processes -> BOOLEAN]
  /\ requests \in SUBSET Jobs
  /\ started \in SUBSET Jobs
  /\ faults \in 0..MaxFaults

Holds(p, j) ==
  /\ dispatch[p][j].phase # "none"
  /\ Authorised(p, j)

(* However often leases expire, processes crash and Temporal answers late, *)
(* at most one process can still write a job's row, even when several      *)
(* processes were given the same MEMJEV_WORKER_ID (outbox.go:246-256).     *)
SingleWriter ==
  \A j \in Jobs, p, q \in Processes : Holds(p, j) /\ Holds(q, j) => p = q

(* A row marked completed names a workflow Temporal has started: "delivery *)
(* to Temporal succeeded" (relay.go:91-95, outbox-recovery.md).            *)
CompletedStarted == \A j \in Jobs : row[j].state = "completed" => j \in started

(* What the outbox promises, seen from the row's state alone.              *)
Status(state) ==
  CASE state = "absent" -> "absent"
    [] state \in {"pending", "leased"} -> "open"
    [] state = "completed" -> "delivered"
    [] state = "dead_letter" -> "abandoned"

D == INSTANCE Delivery WITH status <- [j \in Jobs |-> Status(row[j].state)]

(* The outbox implements Delivery: a job is created once and settled once, *)
(* a settled row never changes state again whoever still holds an old      *)
(* lease on it, and delivered means started (outbox.go:132-261).           *)
Delivers == D!DSpec

(* Once faults stop, every job that was recorded is settled: no crash,     *)
(* overrun lease or lost answer leaves a row that no relay picks up again  *)
(* (outbox.go:88-94, relay.go:37-50).                                      *)
EverySettled == D!DSettles
=============================================================================
