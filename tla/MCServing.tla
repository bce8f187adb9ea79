------------------------------ MODULE MCServing -----------------------------
(* Two versions of one family, two outcomes for the first of them, one     *)
(* for the second, and a trace whose synthesis abstains.                   *)
EXTENDS Serving, TLC

CONSTANTS v1, v2

MCFamily == [v \in Versions |-> "f"]
MCManifests ==
  {[outcome |-> "o1", version |-> v1], [outcome |-> "o2", version |-> v1],
   [outcome |-> "o3", version |-> v2], [outcome |-> "o4", version |-> None]}

(* One synthesis each: enough for the two versions to compete.             *)
OnePerVersion == {m \in MCManifests : m.outcome \in {"o1", "o3"}}

JobSymmetry == Permutations(Jobs)
=============================================================================
