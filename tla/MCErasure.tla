----------------------------- MODULE MCErasure ------------------------------
(* Tenant a has an object from before and a second one whose ingest is     *)
(* under way, so that a page of one leaves another to list.  Tenant b has  *)
(* none and can be erased too, which brings the conflicts over request IDs.*)
EXTENDS Erasure

CONSTANTS a, b

TwoObjects == <<a, a>>
=============================================================================
