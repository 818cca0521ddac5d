---------------------------- MODULE MCBillingTx -----------------------------
(***************************************************************************)
(* BillingTx with a call of each of two users, two sweeps and a review.    *)
(***************************************************************************)
EXTENDS BillingTx, TLC

CONSTANTS c1, c2

MCPayer == (c1 :> 1) @@ (c2 :> 2)

MCFunds == (1 :> 0) @@ (2 :> 1)

Symmetry == Permutations(Sweeps)
=============================================================================
