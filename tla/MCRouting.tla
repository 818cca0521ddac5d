----------------------------- MODULE MCRouting ------------------------------
(***************************************************************************)
(* Routing with two administrators and a client, from an empty database    *)
(* and from an installation that has been set up: a provider with a route, *)
(* and a policy that allows it.  MCRoutingKeys.cfg asks for the            *)
(* destination of the keys.                                                *)
(***************************************************************************)
EXTENDS Routing, TLC

CONSTANTS p1, r1, m1, u1, u2, plain, thinking, protocol, overrides, common, special

\* The special overrides with the special protocol conflict with one provider's
\* defaults, and that protocol with one address.
MCResolvable ==
  {<<d, s>> \in Defaults \X Settings :
     ~(d = thinking /\ s[protocol] = special /\ s[overrides] = special)}
MCReachable == {<<u, s>> \in Urls \X Settings : ~(u = u2 /\ s[protocol] = special)}

SetUp ==
  /\ provider = [p \in Providers |->
       IF p = p1 THEN [url |-> u1, key |-> [dest |-> u1, no |-> 1], defaults |-> plain, enabled |-> TRUE]
                 ELSE None]
  /\ route = [r \in Routes |->
       IF r = r1 THEN [alias |-> m1, provider |-> p1, settings |-> [f \in Columns |-> common], enabled |-> TRUE]
                 ELSE None]
  /\ modelKey = [k \in ModelKeys |-> None]
  /\ policy = [revision |-> 1, allowed |-> {m1}]
  /\ audit = <<[seen |-> [revision |-> 0, allowed |-> {}], saved |-> policy]>>
  /\ job = [a \in Admins |-> Idle]
  /\ call = [c \in Callers |-> Idle]
  /\ quote = [c \in Callers |-> None]
  /\ saves = 1
  /\ overtaken = {}
  /\ raced = FALSE

MCSpec == (Init \/ SetUp) /\ [][Next]_vars

Symmetry == Permutations(Admins)
=============================================================================
