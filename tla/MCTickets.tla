----------------------------- MODULE MCTickets ------------------------------
(***************************************************************************)
(* Tickets with two concurrent requests.  MCTickets.cfg has two mutation   *)
(* keys to submit under; in MCTicketsDeleted.cfg one ticket is             *)
(* replied to twice while its author deletes it.                           *)
(***************************************************************************)
EXTENDS Tickets, TLC

Symmetry == Permutations(Workers) \cup Permutations(Ids)
=============================================================================
