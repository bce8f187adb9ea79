------------------------------ MODULE MCOutbox ------------------------------
(* Two processes that were given one worker ID, two jobs.                  *)
EXTENDS Outbox

MCWorkerID == [p \in Processes |-> "worker-1"]
=============================================================================
