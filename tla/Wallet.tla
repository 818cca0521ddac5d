------------------------------- MODULE Wallet -------------------------------
(***************************************************************************)
(* What the billing code promises, without journal, ledger or holds: users *)
(* have funds, a call has one payer and is billed at most once, and a bill *)
(* never exceeds the funds it is paid from.                                *)
(***************************************************************************)
EXTENDS Integers, FiniteSetsExt, Functions

CONSTANTS
  Users,
  Calls,
  Amounts,        \* amounts by which funds are granted or corrected
  InitialFunds,   \* what users have when the history begins
  InitialPayers,  \* the calls that are admitted by then
  NoValue

VARIABLES
  funds,     \* all the tokens of a user, frozen or not
  payer,     \* the user a call was admitted for
  bill       \* what the call was finally billed

vars == <<funds, payer, bill>>

Init ==
  /\ funds = InitialFunds
  /\ payer = InitialPayers
  /\ bill = [c \in Calls |-> NoValue]

\* Funds are granted or corrected, never below zero.
Fund(u, amount) ==
  /\ funds[u] + amount >= 0
  /\ funds' = [funds EXCEPT ![u] = @ + amount]
  /\ UNCHANGED <<payer, bill>>

\* A call is admitted; that alone costs nothing.
Admit(c, u) ==
  /\ payer[c] = NoValue
  /\ payer' = [payer EXCEPT ![c] = u]
  /\ UNCHANGED <<funds, bill>>

\* What u pays of the bills of S.
BillsOf(u, S) == {c \in S : payer[c] = u}
Total(u, S) == SumFunction([c \in BillsOf(u, S) |-> bill'[c]])

\* Calls are billed, together and each once, to their payers, who can afford it.
Charge(S) ==
  /\ \A c \in S : payer[c] \in Users /\ bill[c] = NoValue /\ bill'[c] \in Nat
  /\ bill' = [c \in Calls |-> IF c \in S THEN bill'[c] ELSE bill[c]]
  /\ \A u \in Users : IsFiniteSet(BillsOf(u, S)) /\ Total(u, S) <= funds[u]
  /\ funds' = [u \in Users |-> funds[u] - Total(u, S)]
  /\ UNCHANGED payer

Next ==
  \/ \E u \in Users : \/ \E amount \in Amounts : Fund(u, amount)
                     \/ \E c \in Calls : Admit(c, u)
  \/ \E S \in SUBSET Calls : Charge(S)

Spec == Init /\ [][Next]_vars
=============================================================================
