------------------------------ MODULE Delivery ------------------------------
(***************************************************************************)
(* What the transactional outbox promises, with leases, workers, retries   *)
(* and time left out: a job is recorded once, stays open until it is       *)
(* settled, is settled once, and is settled as delivered only when the     *)
(* workflow it names really was started at Temporal.                       *)
(***************************************************************************)
CONSTANTS Jobs

VARIABLES status,   \* status[j]: absent | open | delivered | abandoned
          started   \* workflow IDs Temporal has accepted

dvars == <<status, started>>

DInit ==
  /\ status = [j \in Jobs |-> "absent"]
  /\ started = {}

Record(j) ==
  /\ status[j] = "absent"
  /\ status' = [status EXCEPT ![j] = "open"]
  /\ UNCHANGED started

\* An abandoned job may still have been started: the caller only lost the answer.
Accept(j) ==
  /\ status[j] # "absent"
  /\ started' = started \cup {j}
  /\ UNCHANGED status

Settle(j) ==
  /\ status[j] = "open"
  /\ \/ j \in started /\ status' = [status EXCEPT ![j] = "delivered"]
     \/ status' = [status EXCEPT ![j] = "abandoned"]
  /\ UNCHANGED started

DNext == \E j \in Jobs : Record(j) \/ Accept(j) \/ Settle(j)

DSpec == DInit /\ [][DNext]_dvars

\* No job stays open for ever.
DSettles == \A j \in Jobs : status[j] = "open" ~> status[j] \in {"delivered", "abandoned"}
=============================================================================
