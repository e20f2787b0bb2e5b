------------------------------ MODULE MCModelPool ------------------------------
(* A preview lane, and the commit lanes of two captures.                   *)
EXTENDS ModelPool, TLC

CONSTANTS p1, c1, c2

MCKind == (p1 :> "preview") @@ (c1 :> "commit") @@ (c2 :> "commit")

=============================================================================
