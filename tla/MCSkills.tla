------------------------------ MODULE MCSkills ------------------------------
(***************************************************************************)
(* Skills with two concurrent requests, four mutation ids and three skills *)
(* where the limit leaves room for one, so that requests overshoot it.     *)
(***************************************************************************)
EXTENDS Skills, TLC

Symmetry == Permutations(Workers) \cup Permutations(Ids) \cup Permutations(Mutations)
=============================================================================
