----------------------------- MODULE MCGateway -----------------------------
(***************************************************************************)
(* Gateway with a call of a user account, one of a model key and a stream  *)
(* that compete for a single permit.                                       *)
(***************************************************************************)
EXTENDS Gateway, TLC
=============================================================================
