----------------------------- MODULE MCSessions -----------------------------
(***************************************************************************)
(* Sessions with three concurrent requests, two sessions and one rotation. *)
(***************************************************************************)
EXTENDS Sessions, TLC

Symmetry == Permutations(Workers) \cup Permutations(Ids)
=============================================================================
