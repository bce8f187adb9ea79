------------------------------ MODULE MCIngest ------------------------------
(* Two versions of one trace and a second trace, under two keys: every     *)
(* kind of answer can happen.                                              *)
EXTENDS Ingest, TLC

CONSTANTS k1, k2, t1, t2, c1, c2, c3

MCTraceOf == c1 :> t1 @@ c2 :> t1 @@ c3 :> t2
MCCommands == {[key |-> k1, content |-> c1], [key |-> k1, content |-> c2],
               [key |-> k2, content |-> c1], [key |-> k2, content |-> c3]}
=============================================================================
