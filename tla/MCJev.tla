------------------------------- MODULE MCJev -------------------------------
(* Two API processes, three callers: c1 and c2 share a process, c3 has the *)
(* other; two base keys of two tenants.                                    *)
EXTENDS Jev, TLC

CONSTANTS p1, p2, c1, c2, c3, b1, b2

MCNone == [base |-> "none"]
MCProcOf == (c1 :> p1) @@ (c2 :> p1) @@ (c3 :> p2)
MCAsks == (c1 :> {b1, b2}) @@ (c2 :> {b1, b2}) @@ (c3 :> {b1})
MCTenantOf == (b1 :> 1) @@ (b2 :> 2)
MCSymmetry == Permutations({c1, c2}) \union Permutations(Verdicts)
=============================================================================
