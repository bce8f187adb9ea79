--------------------------- MODULE MCMaintenance ----------------------------
(* Two processes that were given one worker ID; two jobs on one version,   *)
(* the second a rollback, which is never accepted while the version is not *)
(* active; a second synthesis of the version that supersedes the payloads. *)
EXTENDS Maintenance

CONSTANTS v1, j1, j2

MCWorkerID == [p \in Processes |-> "worker-1:maintenance"]
MCFamily == [v \in Versions |-> "f"]
MCManifests == {[outcome |-> "o1", version |-> v1], [outcome |-> "o2", version |-> v1]}
=============================================================================
