----------------------------- MODULE MCCredits -----------------------------
(***************************************************************************)
(* Credits on small instances.                                             *)
(***************************************************************************)
EXTENDS Credits, TLC

\* An administrator takes one token away or adds two.
MCDeltas == {-1, 2}

Symmetry == Permutations(Calls) \cup Permutations(Keys) \cup Permutations(Requests)
=============================================================================
