----------------------------- MODULE MCPipeline -----------------------------
(* Two attempts at a time and two registry snapshots: an attempt that      *)
(* overran its time races the next one on a different snapshot.            *)
EXTENDS Pipeline
=============================================================================
