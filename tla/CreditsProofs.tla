--------------------------- MODULE CreditsProofs ---------------------------
(***************************************************************************)
(* Theorems about Credits: types, the ledger chain, exactly-once billing,  *)
(* finality of settled rows and the refinement of Wallet, for every set of *)
(* users, calls, keys and amounts; and about BillingTx, the transactions   *)
(* behind its steps: locks, what is committed, and the same refinement.    *)
(***************************************************************************)
EXTENDS Credits, BillingTx, FiniteSetTheorems, WellFoundedInduction, TLAPS

-----------------------------------------------------------------------------
(* What a transaction does to the balance and the ledger.                  *)

\* Audit rows are well typed when the balance they record is an account.
LEMMA AuditType ==
  ASSUME NEW key \in OperationKey, NEW d \in Int, NEW rd \in Int,
         NEW after \in Account
  PROVE  Audit(key, d, rd, after) \in Entry
BY DEF Audit, Entry, Account

\* A funded move of an account is an account.
LEMMA MovedType ==
  ASSUME NEW acc \in Account, NEW d \in Int, NEW rd \in Int,
         Funded(Moved(acc, d, rd))
  PROVE  Moved(acc, d, rd) \in Account
BY DEF Moved, Funded, Account

\* credits.change keeps the tables of balances and of audit rows well typed.
LEMMA ChangeType ==
  ASSUME TypeOK, NEW u \in Users, NEW key \in OperationKey,
         NEW d \in Int, NEW rd \in Int, Change(u, key, d, rd)
  PROVE  /\ account' \in [Users -> Account]
         /\ ledger' \in [Users -> Seq(Entry)]
<1> DEFINE after == Moved(account[u], d, rd)
<1>1. after \in Account
  BY MovedType DEF TypeOK, Change
<1>2. Audit(key, d, rd, after) \in Entry
  BY <1>1, AuditType
<1>3. account' = [account EXCEPT ![u] = after]
  BY DEF Change
<1>4. ledger' = [ledger EXCEPT ![u] = Append(@, Audit(key, d, rd, after))]
  BY DEF Change
<1> HIDE DEF after
<1>5. account' \in [Users -> Account]
  BY <1>1, <1>3 DEF TypeOK
<1>6. ledger' \in [Users -> Seq(Entry)]
  BY <1>2, <1>4 DEF TypeOK
<1>7. QED BY <1>5, <1>6

\* Operation keys built from a call, an adjustment key or a user.
LEMMA OperationKeys ==
  /\ \A c \in Calls : /\ <<"settle", c>> \in OperationKey
                      /\ <<"reserve", c>> \in OperationKey
                      /\ <<"reserve_adjustment", c>> \in OperationKey
  /\ \A k \in AdjustKeys : <<"adjust", k>> \in OperationKey
  /\ \A u \in Users : <<"registration", u>> \in OperationKey
BY DEF OperationKey

\* A row that is not absent is a journal row.
LEMMA PresentRow ==
  ASSUME TypeOK, NEW c \in Calls, res[c].state # "absent"
  PROVE  res[c] \in Row
BY DEF TypeOK, NoRow

\* What settlement writes to a journal row leaves a journal row.
LEMMA RewriteType ==
  ASSUME NEW row \in Row, NEW amount \in Nat, NEW actual \in Nat \cup {NoValue},
         NEW state \in UnresolvedStates \cup TerminalStates
  PROVE  Rewrite(row, amount, actual, state) \in Row
BY DEF Rewrite, Row

-----------------------------------------------------------------------------
(* The ways a step can touch balances, ledger and journal.  Every theorem  *)
(* below argues over these few effects and not over the actions again.     *)

Untouched == UNCHANGED <<account, ledger, res>>

\* Tokens are granted or corrected.
Funding(u) ==
  /\ \E key \in OperationKey, d \in Grants \cup Deltas :
       /\ key[1] \in {"registration", "adjust"}
       /\ ~Posted(u, key)
       /\ Change(u, key, d, 0)
  /\ UNCHANGED res

\* A call is admitted, directly or with a hold.
NewRow(c, u, k, amount, state) ==
  /\ call[c].status = "absent"
  /\ ~KeyTaken(u, k)
  /\ res' = [res EXCEPT ![c] = [user |-> u, key |-> k, amount |-> amount,
                                actual |-> NoValue, state |-> state]]
  /\ call' = [call EXCEPT ![c] = [status |-> "running", usage |-> NoValue]]

AdmittedDirect(c, u) ==
  /\ \E k \in Keys : NewRow(c, u, k, 0, "pending_usage")
  /\ UNCHANGED <<account, ledger>>

AdmittedHeld(c, u) ==
  \E k \in Keys, amount \in Holds :
    /\ NewRow(c, u, k, amount, "reserved")
    /\ Change(u, <<"reserve", c>>, -amount, amount)

\* An unresolved row is put under review, perhaps with confirmed usage.
Reviewed(c) ==
  /\ \E actual \in Nat \cup {NoValue} :
       /\ res[c].actual # NoValue => actual = res[c].actual
       /\ res[c].amount > 0 => actual = res[c].actual
       /\ res' = [res EXCEPT ![c] =
                    Rewrite(@, res[c].amount, actual, "needs_reconciliation")]
  /\ UNCHANGED <<account, ledger>>

\* An unresolved row is settled: for nothing, against the balance or the hold,
\* or after its hold was extended.
SettledFree(c) ==
  /\ res[c].amount = 0
  /\ Agrees(res[c], 0)
  /\ \E final \in TerminalStates : res' = [res EXCEPT ![c] = Rewrite(@, 0, 0, final)]
  /\ UNCHANGED <<account, ledger>>

SettledDirect(c) ==
  \E actual \in Nat \ {0}, final \in TerminalStates :
    /\ res[c].amount = 0
    /\ Agrees(res[c], actual)
    /\ Change(res[c].user, <<"settle", c>>, -actual, 0)
    /\ res' = [res EXCEPT ![c] = Rewrite(@, 0, actual, final)]

SettledHeld(c) ==
  \E actual \in Nat, final \in TerminalStates :
    /\ res[c].amount > 0
    /\ Change(res[c].user, <<"settle", c>>, res[c].amount - actual, -res[c].amount)
    /\ res' = [res EXCEPT ![c] = Rewrite(@, res[c].amount, actual, final)]

SettledOver(c) ==
  /\ res[c].amount > 0
  /\ \E actual \in Nat : actual > res[c].amount /\ SettleOverage(c, actual)

CallSettled(c) ==
  /\ res[c].state \in UnresolvedStates
  /\ Reviewed(c) \/ SettledFree(c) \/ SettledDirect(c) \/ SettledHeld(c)
       \/ SettledOver(c)

\* Every settlement that is not refused has one of these effects.
LEMMA SettleEffect ==
  ASSUME TypeOK, NEW c \in Calls, NEW reported \in Nat \cup {NoValue},
         NEW noDispatch \in BOOLEAN, NEW manual \in BOOLEAN,
         Settle(c, reported, noDispatch, manual)
  PROVE  Untouched \/ CallSettled(c)
<1> DEFINE actual == IF noDispatch THEN 0 ELSE reported
           final  == IF noDispatch THEN "released" ELSE "settled"
<1>1. actual \in Nat \cup {NoValue} /\ final \in TerminalStates
  BY DEF TerminalStates
<1>2. CASE res[c].state \in TerminalStates /\ UNCHANGED <<account, ledger, res>>
  BY <1>2 DEF Untouched
<1>3. CASE /\ res[c].state \in UnresolvedStates
           /\ res[c].amount = 0
           /\ SettleDirect(c, actual, final)
  <2> HIDE DEF actual, final
  <2>0. res[c] \in Row
    BY <1>3, PresentRow DEF UnresolvedStates, OpenStates
  <2>1. CASE MarkForReview(c)
    <3>1. res[c].actual \in Nat \cup {NoValue}
      BY <2>0 DEF Row
    <3>2. Reviewed(c)
      BY <2>1, <3>1 DEF MarkForReview, Reviewed
    <3>3. QED BY <1>3, <3>2 DEF CallSettled
  <2>2. CASE /\ actual # NoValue
             /\ Agrees(res[c], actual)
             /\ res' = [res EXCEPT ![c] = Rewrite(@, 0, actual, "needs_reconciliation")]
             /\ UNCHANGED <<account, ledger>>
    <3>1. res[c].actual # NoValue => actual = res[c].actual
      BY <2>2 DEF Agrees
    <3>2. ~(res[c].amount > 0)
      BY <1>3
    <3>3. res' = [res EXCEPT ![c] =
                    Rewrite(@, res[c].amount, actual, "needs_reconciliation")]
      BY <1>3, <2>2 DEF Rewrite
    <3>4. Reviewed(c)
      BY <1>1, <2>2, <3>1, <3>2, <3>3 DEF Reviewed
    <3>5. QED BY <1>3, <3>4 DEF CallSettled
  <2>3. CASE /\ actual # NoValue
             /\ Agrees(res[c], actual)
             /\ IF actual = 0 THEN UNCHANGED <<account, ledger>>
                ELSE Change(res[c].user, <<"settle", c>>, -actual, 0)
             /\ res' = [res EXCEPT ![c] = Rewrite(@, 0, actual, final)]
    <3>1. CASE actual = 0
      BY <1>1, <1>3, <2>3, <3>1 DEF CallSettled, SettledFree
    <3>2. CASE actual # 0
      <4>1. actual \in Nat \ {0}
        BY <1>1, <2>3, <3>2
      <4>2. SettledDirect(c)
        BY <1>1, <1>3, <2>3, <3>2, <4>1 DEF SettledDirect
      <4>3. QED BY <1>3, <4>2 DEF CallSettled
    <3>3. QED BY <3>1, <3>2
  <2>4. QED BY <1>3, <2>1, <2>2, <2>3 DEF SettleDirect
<1>4. CASE /\ res[c].state \in UnresolvedStates
           /\ res[c].amount > 0
           /\ SettleHeld(c, actual, final, manual)
  <2> HIDE DEF actual, final
  <2>0. res[c] \in Row
    BY <1>4, PresentRow DEF UnresolvedStates, OpenStates
  <2>1. CASE MarkForReview(c)
    <3>1. res[c].actual \in Nat \cup {NoValue}
      BY <2>0 DEF Row
    <3>2. Reviewed(c)
      BY <2>1, <3>1 DEF MarkForReview, Reviewed
    <3>3. QED BY <1>4, <3>2 DEF CallSettled
  <2>2. CASE /\ actual # NoValue
             /\ Change(res[c].user, <<"settle", c>>, res[c].amount - actual, -res[c].amount)
             /\ res' = [res EXCEPT ![c] = Rewrite(@, res[c].amount, actual, final)]
    <3>1. actual \in Nat
      BY <1>1, <2>2
    <3>2. SettledHeld(c)
      BY <1>1, <1>4, <2>2, <3>1 DEF SettledHeld
    <3>3. QED BY <1>4, <3>2 DEF CallSettled
  <2>3. CASE actual # NoValue /\ actual > res[c].amount /\ SettleOverage(c, actual)
    BY <1>1, <1>4, <2>3 DEF CallSettled, SettledOver
  <2>4. QED BY <1>4, <2>1, <2>2, <2>3 DEF SettleHeld
<1>5. QED BY <1>2, <1>3, <1>4 DEF Settle

-----------------------------------------------------------------------------
(* What every step of the system does to balances, ledger and journal.     *)

\* Amounts are numbers: every input of every action is in range.
LEMMA Amounts ==
  /\ Grants \cup Deltas \subseteq Int
  /\ Tokens \cup {NoValue} \subseteq Nat \cup {NoValue}
<1>1. \A d \in Grants \cup Deltas : d \in Int
  BY AmountAssumption
<1>2. \A n \in Tokens \cup {NoValue} : n \in Nat \cup {NoValue}
  BY AmountAssumption
<1>3. QED BY <1>1, <1>2

LEMMA GatewayEffect ==
  ASSUME TypeOK, NEW c \in Calls, GatewayNext(c)
  PROVE  Untouched \/ CallSettled(c)
<1>1. CASE \E s \in {"succeeded", "failed"}, n \in Tokens \cup {NoValue} : Finish(c, s, n)
  <2> PICK n \in Tokens \cup {NoValue} : Settle(c, n, FALSE, FALSE)
    BY <1>1 DEF Finish
  <2> QED BY SettleEffect, Amounts
<1>2. CASE Finish(c, "cancelled", NoValue)
  BY <1>2, SettleEffect DEF Finish
<1>3. CASE \E s \in {"failed", "cancelled"} : FinishUndispatched(c, s)
  BY <1>3, SettleEffect DEF FinishUndispatched
<1>4. CASE RenderFails(c)
  <2>1. call[c].usage \in Nat \cup {NoValue}
    BY DEF TypeOK, CallRow
  <2>2. QED BY <1>4, <2>1, SettleEffect DEF RenderFails
<1>5. CASE \/ Respond(c)
           \/ FinishLost(c)
           \/ \E s \in {"succeeded", "failed"}, n \in Tokens \cup {NoValue} : SplitFinish(c, s, n)
  BY <1>5 DEF Respond, FinishLost, SplitFinish, Untouched
<1>6. QED BY <1>1, <1>2, <1>3, <1>4, <1>5 DEF GatewayNext

LEMMA ReviewEffect ==
  ASSUME TypeOK, NEW c \in Calls, ReviewNext(c)
  PROVE  Untouched \/ CallSettled(c)
<1>1. CASE GracePeriodEnds(c)
  BY <1>1 DEF GracePeriodEnds, Untouched
<1>2. CASE RefreshRow(c)
  <2>1. TrustedUsage(c) \in Nat \cup {NoValue}
    BY DEF TrustedUsage, TypeOK, CallRow
  <2>2. CASE Settle(c, TrustedUsage(c), FALSE, FALSE)
    BY <2>1, <2>2, SettleEffect
  <2>3. CASE MarkForReview(c)
    <3>1. res[c].state \in UnresolvedStates
      BY <1>2 DEF RefreshRow
    <3>2. res[c] \in Row
      BY <3>1, PresentRow DEF UnresolvedStates, OpenStates
    <3>3. res[c].actual \in Nat \cup {NoValue}
      BY <3>2 DEF Row
    <3>4. Reviewed(c)
      BY <2>3, <3>3 DEF MarkForReview, Reviewed
    <3>5. QED BY <3>1, <3>4 DEF CallSettled
  <2>4. QED BY <1>2, <2>2, <2>3 DEF RefreshRow, Untouched
<1>3. CASE \E n \in Tokens : Reconcile(c, n)
  <2> PICK n \in Tokens : Settle(c, n, FALSE, TRUE)
    BY <1>3 DEF Reconcile
  <2> QED BY SettleEffect, Amounts
<1>4. QED BY <1>1, <1>2, <1>3 DEF ReviewNext

LEMMA RegisterEffect ==
  ASSUME NEW u \in Users, NEW g \in Grants, Register(u, g)
  PROVE  Funding(u)
<1>1. <<"registration", u>> \in OperationKey /\ ~Posted(u, <<"registration", u>>)
  BY OperationKeys DEF Register, Registered, Posted, Posts
<1>2. QED BY <1>1 DEF Register, Funding

LEMMA AdjustmentEffect ==
  ASSUME TypeOK, AdjustmentNext
  PROVE  Untouched \/ \E u \in Users : Funding(u)
<1>1. CASE \E r \in Requests, u \in Users, k \in AdjustKeys, d \in Deltas : StartAdjust(r, u, k, d)
  BY <1>1 DEF StartAdjust, Untouched
<1>2. CASE \E a \in adjusting : RefuseAdjust(a)
  BY <1>2 DEF RefuseAdjust, Untouched
<1>3. CASE \E a \in adjusting : Adjust(a)
  <2>1. PICK a \in adjusting : Adjust(a)
    BY <1>3
  <2>2. a.user \in Users /\ a.key \in AdjustKeys /\ a.delta \in Deltas
    BY DEF TypeOK, Adjustment
  <2>3. <<"adjust", a.key>> \in OperationKey
    BY <2>2, OperationKeys
  <2>4. Funding(a.user)
    BY <2>1, <2>2, <2>3 DEF Adjust, Funding
  <2>5. QED BY <2>2, <2>4
<1>4. QED BY <1>1, <1>2, <1>3 DEF AdjustmentNext

LEMMA AdmissionEffect ==
  ASSUME NEW c \in Calls, AdmissionNext(c)
  PROVE  Untouched \/ \E u \in Users : AdmittedDirect(c, u) \/ AdmittedHeld(c, u)
<1> PICK u \in Users, k \in Keys :
         \/ BeginDirectCall(c, u, k)
         \/ RejectAdmission(c, u, k)
         \/ \E n \in Holds : Reserve(c, u, k, n)
  BY DEF AdmissionNext
<1>1. CASE BeginDirectCall(c, u, k)
  BY <1>1 DEF BeginDirectCall, Journal, AdmittedDirect, NewRow
<1>2. CASE RejectAdmission(c, u, k)
  BY <1>2 DEF RejectAdmission, Untouched
<1>3. CASE \E n \in Holds : Reserve(c, u, k, n)
  BY <1>3 DEF Reserve, Journal, AdmittedHeld, NewRow
<1>4. QED BY <1>1, <1>2, <1>3

\* Every step of the system has one of the effects above.
LEMMA NextEffect ==
  ASSUME TypeOK, [Next]_vars
  PROVE  \/ Untouched
         \/ \E u \in Users : Funding(u)
         \/ \E c \in Calls, u \in Users : AdmittedDirect(c, u) \/ AdmittedHeld(c, u)
         \/ \E c \in Calls : CallSettled(c)
<1>1. CASE UNCHANGED vars
  BY <1>1 DEF vars, Untouched
<1>2. CASE Next
  BY <1>2, RegisterEffect, AdjustmentEffect, AdmissionEffect, GatewayEffect, ReviewEffect
     DEF Next, CallNext, Restart, Untouched
<1>3. QED BY <1>1, <1>2

-----------------------------------------------------------------------------
(* Types.                                                                  *)

\* Extending a hold posts two entries; both leave an account.
LEMMA OverageType ==
  ASSUME TypeOK, NEW c \in Calls, res[c] \in Row, NEW actual \in Nat,
         SettleOverage(c, actual)
  PROVE  /\ account' \in [Users -> Account]
         /\ ledger' \in [Users -> Seq(Entry)]
<1>0. PICK u \in Users : u = res[c].user
  BY DEF Row
<1> DEFINE extra == actual - res[c].amount
           extended == Moved(account[u], -extra, extra)
           after == Moved(extended, 0, -actual)
           first == Audit(<<"reserve_adjustment", c>>, -extra, extra, extended)
           second == Audit(<<"settle", c>>, 0, -actual, after)
<1>1. u \in Users /\ extra \in Int /\ -extra \in Int /\ -actual \in Int /\ 0 \in Int
  BY DEF Row
<1>2. Funded(extended) /\ Funded(after)
  BY <1>0 DEF SettleOverage
<1>3. account[u] \in Account
  BY <1>1 DEF TypeOK
<1>4. extended \in Account
  BY <1>1, <1>2, <1>3, MovedType
<1>5. after \in Account
  BY <1>1, <1>2, <1>4, MovedType
<1>6. first \in Entry
  BY <1>1, <1>4, AuditType, OperationKeys
<1>7. second \in Entry
  BY <1>1, <1>5, AuditType, OperationKeys
<1>8. /\ account' = [account EXCEPT ![u] = after]
      /\ ledger' = [ledger EXCEPT ![u] = Append(Append(@, first), second)]
  BY <1>0 DEF SettleOverage
<1> HIDE DEF extended, after, first, second
<1>9. account' \in [Users -> Account]
  BY <1>5, <1>8 DEF TypeOK
<1>10. ledger' \in [Users -> Seq(Entry)]
  BY <1>1, <1>6, <1>7, <1>8 DEF TypeOK
<1>11. QED BY <1>9, <1>10

\* A rewritten row keeps the journal well typed.
LEMMA RewrittenType ==
  ASSUME TypeOK, NEW c \in Calls, res[c] \in Row, NEW amount \in Nat,
         NEW actual \in Nat \cup {NoValue},
         NEW state \in UnresolvedStates \cup TerminalStates,
         res' = [res EXCEPT ![c] = Rewrite(@, amount, actual, state)]
  PROVE  res' \in [Calls -> Row \cup {NoRow}]
<1>1. Rewrite(res[c], amount, actual, state) \in Row
  BY RewriteType
<1>2. QED BY <1>1 DEF TypeOK

\* Every settlement keeps balances, ledger and journal well typed.
LEMMA SettledType ==
  ASSUME TypeOK, NEW c \in Calls, CallSettled(c)
  PROVE  /\ account' \in [Users -> Account]
         /\ ledger' \in [Users -> Seq(Entry)]
         /\ res' \in [Calls -> Row \cup {NoRow}]
<1>1. res[c] \in Row
  BY PresentRow DEF CallSettled, UnresolvedStates, OpenStates
<1>2. res[c].user \in Users /\ res[c].amount \in Nat
  BY <1>1 DEF Row
<1>3. TerminalStates \subseteq UnresolvedStates \cup TerminalStates
  OBVIOUS
<1>4. CASE Reviewed(c)
  <2>1. PICK actual \in Nat \cup {NoValue} :
          res' = [res EXCEPT ![c] =
                    Rewrite(@, res[c].amount, actual, "needs_reconciliation")]
    BY <1>4 DEF Reviewed
  <2>2. "needs_reconciliation" \in UnresolvedStates \cup TerminalStates
    BY DEF UnresolvedStates
  <2>3. res' \in [Calls -> Row \cup {NoRow}]
    BY <1>1, <1>2, <2>1, <2>2, RewrittenType
  <2>4. QED BY <1>4, <2>3 DEF Reviewed, TypeOK
<1>5. CASE SettledFree(c)
  <2>1. PICK final \in TerminalStates : res' = [res EXCEPT ![c] = Rewrite(@, 0, 0, final)]
    BY <1>5 DEF SettledFree
  <2>2. res' \in [Calls -> Row \cup {NoRow}]
    BY <1>1, <1>3, <2>1, RewrittenType
  <2>3. QED BY <1>5, <2>2 DEF SettledFree, TypeOK
<1>6. CASE SettledDirect(c)
  <2>1. PICK actual \in Nat \ {0}, final \in TerminalStates :
          /\ Change(res[c].user, <<"settle", c>>, -actual, 0)
          /\ res' = [res EXCEPT ![c] = Rewrite(@, 0, actual, final)]
    BY <1>6 DEF SettledDirect
  <2>2. res' \in [Calls -> Row \cup {NoRow}]
    BY <1>1, <1>3, <2>1, RewrittenType
  <2>3. -actual \in Int /\ 0 \in Int
    OBVIOUS
  <2>4. QED BY <1>2, <2>1, <2>2, <2>3, ChangeType, OperationKeys
<1>7. CASE SettledHeld(c)
  <2>1. PICK actual \in Nat, final \in TerminalStates :
          /\ Change(res[c].user, <<"settle", c>>, res[c].amount - actual, -res[c].amount)
          /\ res' = [res EXCEPT ![c] = Rewrite(@, res[c].amount, actual, final)]
    BY <1>7 DEF SettledHeld
  <2>2. res' \in [Calls -> Row \cup {NoRow}]
    BY <1>1, <1>2, <1>3, <2>1, RewrittenType
  <2>3. res[c].amount - actual \in Int /\ -res[c].amount \in Int
    BY <1>2
  <2>4. QED BY <1>2, <2>1, <2>2, <2>3, ChangeType, OperationKeys
<1>8. CASE SettledOver(c)
  <2>1. PICK actual \in Nat : SettleOverage(c, actual)
    BY <1>8 DEF SettledOver
  <2>2. res' = [res EXCEPT ![c] = Rewrite(@, actual, actual, "settled")]
    BY <2>1 DEF SettleOverage
  <2>3. "settled" \in UnresolvedStates \cup TerminalStates
    BY DEF TerminalStates
  <2>4. res' \in [Calls -> Row \cup {NoRow}]
    BY <1>1, <2>2, <2>3, RewrittenType
  <2>5. QED BY <1>1, <2>1, <2>4, OverageType
<1>9. QED BY <1>4, <1>5, <1>6, <1>7, <1>8 DEF CallSettled

\* A journal row as admission writes it.
LEMMA NewRowType ==
  ASSUME TypeOK, NEW c \in Calls, NEW u \in Users, NEW k \in Keys,
         NEW amount \in Nat, NEW state \in OpenStates,
         NewRow(c, u, k, amount, state)
  PROVE  res' \in [Calls -> Row \cup {NoRow}]
<1> DEFINE row == [user |-> u, key |-> k, amount |-> amount,
                   actual |-> NoValue, state |-> state]
<1>1. row \in Row
  BY DEF Row, UnresolvedStates
<1>2. res' = [res EXCEPT ![c] = row]
  BY DEF NewRow
<1> HIDE DEF row
<1>3. QED BY <1>1, <1>2 DEF TypeOK

\* Balances, ledger and journal stay well typed whatever the step.
LEMMA MoneyType ==
  ASSUME TypeOK, [Next]_vars
  PROVE  /\ account' \in [Users -> Account]
         /\ ledger' \in [Users -> Seq(Entry)]
         /\ res' \in [Calls -> Row \cup {NoRow}]
<1>1. CASE Untouched
  BY <1>1 DEF Untouched, TypeOK
<1>2. CASE \E u \in Users : Funding(u)
  <2>1. PICK u \in Users : Funding(u)
    BY <1>2
  <2>2. PICK key \in OperationKey, d \in Grants \cup Deltas : Change(u, key, d, 0)
    BY <2>1 DEF Funding
  <2>3. d \in Int /\ 0 \in Int
    BY Amounts
  <2>4. QED BY <2>1, <2>2, <2>3, ChangeType DEF Funding, TypeOK
<1>3. CASE \E c \in Calls, u \in Users : AdmittedDirect(c, u)
  <2>1. PICK c \in Calls, u \in Users, k \in Keys : NewRow(c, u, k, 0, "pending_usage")
    BY <1>3 DEF AdmittedDirect
  <2>2. "pending_usage" \in OpenStates /\ 0 \in Nat
    BY DEF OpenStates
  <2>3. res' \in [Calls -> Row \cup {NoRow}]
    BY <2>1, <2>2, NewRowType
  <2>4. QED BY <1>3, <2>3 DEF AdmittedDirect, TypeOK
<1>4. CASE \E c \in Calls, u \in Users : AdmittedHeld(c, u)
  <2>1. PICK c \in Calls, u \in Users, k \in Keys, amount \in Holds :
               /\ NewRow(c, u, k, amount, "reserved")
               /\ Change(u, <<"reserve", c>>, -amount, amount)
    BY <1>4 DEF AdmittedHeld
  <2>2. "reserved" \in OpenStates /\ amount \in Nat /\ amount \in Int /\ -amount \in Int
    BY AmountAssumption DEF OpenStates
  <2>3. res' \in [Calls -> Row \cup {NoRow}]
    BY <2>1, <2>2, NewRowType
  <2>4. QED BY <2>1, <2>2, <2>3, ChangeType, OperationKeys
<1>5. CASE \E c \in Calls : CallSettled(c)
  BY <1>5, SettledType
<1>6. QED BY <1>1, <1>2, <1>3, <1>4, <1>5, NextEffect

\* A step writes at most one call, and never takes a call away.
CallWritten(c) ==
  \E s \in FinalStatuses \cup {"running"}, n \in Nat \cup {NoValue} :
    call' = [call EXCEPT ![c] = [status |-> s, usage |-> n]]

HandlerWritten(c) ==
  \E h \in {"none", "serving", "rendering"} : handler' = [handler EXCEPT ![c] = h]

\* Registrations and adjustments leave calls and their handlers alone.
FundingNext == AdjustmentNext \/ \E u \in Users, g \in Grants : Register(u, g)

LEMMA AdmissionCall ==
  ASSUME NEW c \in Calls, AdmissionNext(c)
  PROVE  /\ CallWritten(c)
         /\ HandlerWritten(c) \/ handler' = handler
         /\ aged' = aged
<1> PICK u \in Users, k \in Keys :
         \/ BeginDirectCall(c, u, k)
         \/ RejectAdmission(c, u, k)
         \/ \E n \in Holds : Reserve(c, u, k, n)
  BY DEF AdmissionNext
<1>1. CASE RejectAdmission(c, u, k)
  BY <1>1 DEF RejectAdmission, CallWritten, FinalStatuses
<1>2. CASE BeginDirectCall(c, u, k) \/ \E n \in Holds : Reserve(c, u, k, n)
  <2>1. /\ call' = [call EXCEPT ![c] = [status |-> "running", usage |-> NoValue]]
        /\ handler' = [handler EXCEPT ![c] = "serving"]
        /\ aged' = aged
    BY <1>2 DEF BeginDirectCall, Reserve, Journal
  <2>2. QED BY <2>1 DEF CallWritten, HandlerWritten
<1>3. QED BY <1>1, <1>2

LEMMA GatewayCall ==
  ASSUME TypeOK, NEW c \in Calls, GatewayNext(c)
  PROVE  /\ CallWritten(c) \/ call' = call
         /\ HandlerWritten(c)
         /\ aged' = aged
<1>1. CASE \E s \in {"succeeded", "failed"}, n \in Tokens \cup {NoValue} :
             Finish(c, s, n) \/ SplitFinish(c, s, n)
  <2> PICK s \in {"succeeded", "failed"}, n \in Tokens \cup {NoValue} :
             Finish(c, s, n) \/ SplitFinish(c, s, n)
    BY <1>1
  <2>1. /\ call' = [call EXCEPT ![c] = [status |-> s, usage |-> n]]
        /\ HandlerWritten(c)
        /\ aged' = aged
    BY DEF Finish, SplitFinish, HandlerWritten
  <2>2. s \in FinalStatuses /\ n \in Nat \cup {NoValue}
    BY Amounts DEF FinalStatuses
  <2>3. QED BY <2>1, <2>2 DEF CallWritten
<1>2. CASE Finish(c, "cancelled", NoValue)
  BY <1>2 DEF Finish, HandlerWritten, CallWritten, FinalStatuses
<1>3. CASE \E s \in {"failed", "cancelled"} : FinishUndispatched(c, s)
  BY <1>3 DEF FinishUndispatched, HandlerWritten, CallWritten, FinalStatuses
<1>4. CASE RenderFails(c)
  <2>1. call[c].usage \in Nat \cup {NoValue}
    BY DEF TypeOK, CallRow
  <2>2. call' = [call EXCEPT ![c] = [status |-> "failed", usage |-> call[c].usage]]
    BY <1>4 DEF RenderFails
  <2>3. CallWritten(c)
    BY <2>1, <2>2 DEF CallWritten, FinalStatuses
  <2>4. QED BY <1>4, <2>3 DEF RenderFails, HandlerWritten
<1>5. CASE Respond(c) \/ FinishLost(c)
  BY <1>5 DEF Respond, FinishLost, HandlerWritten
<1>6. QED BY <1>1, <1>2, <1>3, <1>4, <1>5 DEF GatewayNext

LEMMA ReviewCall ==
  ASSUME TypeOK, NEW c \in Calls, ReviewNext(c)
  PROVE  /\ CallWritten(c) \/ call' = call
         /\ handler' = handler
         /\ aged' \in SUBSET Calls
<1>1. CallWritten(c) \/ call' = call
  <2>1. CASE CloseStaleCall(c)
    <3>1. call[c].usage \in Nat \cup {NoValue}
      BY DEF TypeOK, CallRow
    <3>2. \/ call' = [call EXCEPT ![c] = [status |-> "failed", usage |-> call[c].usage]]
          \/ call' = call
      BY <2>1 DEF CloseStaleCall
    <3>3. QED BY <3>1, <3>2 DEF CallWritten, FinalStatuses
  <2>2. QED BY <2>1 DEF ReviewNext, GracePeriodEnds, RefreshRow, Reconcile
<1>2. handler' = handler /\ aged' \in SUBSET Calls
  BY DEF ReviewNext, GracePeriodEnds, RefreshRow, Reconcile, TypeOK
<1>3. QED BY <1>1, <1>2

LEMMA NextCall ==
  ASSUME TypeOK, [Next]_vars
  PROVE  /\ (\E c \in Calls : CallWritten(c)) \/ call' = call
         /\ \/ (\E c \in Calls : HandlerWritten(c))
            \/ handler' = handler
            \/ handler' = [c \in Calls |-> "none"]
         /\ aged' \in SUBSET Calls
<1>1. CASE UNCHANGED vars \/ Restart \/ FundingNext
  BY <1>1 DEF vars, Restart, FundingNext, Register, AdjustmentNext, StartAdjust, Adjust,
              RefuseAdjust, TypeOK
<1>2. CASE \E c \in Calls : AdmissionNext(c)
  BY <1>2, AdmissionCall DEF TypeOK
<1>3. CASE \E c \in Calls : GatewayNext(c)
  BY <1>3, GatewayCall DEF TypeOK
<1>4. CASE \E c \in Calls : ReviewNext(c)
  BY <1>4, ReviewCall
<1>5. QED BY <1>1, <1>2, <1>3, <1>4 DEF Next, CallNext, FundingNext

\* Calls, handlers and the set of aged calls stay well typed.
LEMMA CallType ==
  ASSUME TypeOK, [Next]_vars
  PROVE  /\ call' \in [Calls -> CallRow]
         /\ handler' \in [Calls -> {"none", "serving", "rendering"}]
         /\ aged' \in SUBSET Calls
<1>1. ASSUME NEW c \in Calls, CallWritten(c)
      PROVE  call' \in [Calls -> CallRow]
  <2>1. PICK row \in CallRow : call' = [call EXCEPT ![c] = row]
    BY <1>1 DEF CallWritten, CallRow
  <2>2. QED BY <2>1 DEF TypeOK
<1>2. ASSUME NEW c \in Calls, HandlerWritten(c)
      PROVE  handler' \in [Calls -> {"none", "serving", "rendering"}]
  BY <1>2 DEF HandlerWritten, TypeOK
<1>3. QED BY <1>1, <1>2, NextCall DEF TypeOK

LEMMA AdjustingType ==
  ASSUME TypeOK, [Next]_vars
  PROVE  adjusting' \in SUBSET Adjustment
<1>1. CASE \E r \in Requests, u \in Users, k \in AdjustKeys, d \in Deltas : StartAdjust(r, u, k, d)
  BY <1>1 DEF StartAdjust, Adjustment, TypeOK
<1>2. CASE adjusting' \subseteq adjusting
  BY <1>2 DEF TypeOK
<1>3. QED BY <1>1, <1>2 DEF Next, AdjustmentNext, Adjust, RefuseAdjust, Restart, vars

\* Every table holds rows of its shape and no balance is ever negative, for
\* every interleaving of admission, settlement, review, restart and funding.
THEOREM TypeCorrect == Spec => []TypeOK
<1>1. Init => TypeOK
  BY DEF Init, TypeOK, Account, CallRow
<1>2. TypeOK /\ [Next]_vars => TypeOK'
  BY MoneyType, CallType, AdjustingType DEF TypeOK
<1>3. QED BY <1>1, <1>2, PTL DEF Spec

-----------------------------------------------------------------------------
(* The ledger explains the balance.                                        *)

\* Posting a change to the balance of a well chained ledger keeps the chain.
LEMMA ExplainsAppend ==
  ASSUME NEW entries \in Seq(Entry), NEW balance \in Account,
         Explains(entries, balance),
         NEW key, NEW d \in Int, NEW rd \in Int, Moved(balance, d, rd) \in Account
  PROVE  Explains(Append(entries, Audit(key, d, rd, Moved(balance, d, rd))),
                  Moved(balance, d, rd))
<1> DEFINE after == Moved(balance, d, rd)
           e == Audit(key, d, rd, after)
           longer == Append(entries, e)
<1>1. /\ DOMAIN longer = 1 .. Len(entries) + 1
      /\ Len(longer) = Len(entries) + 1
      /\ DOMAIN entries = 1 .. Len(entries)
      /\ Len(entries) \in Nat
      /\ \A i \in 1 .. Len(entries) : longer[i] = entries[i]
      /\ longer[Len(entries) + 1] = e
  OBVIOUS
<1> HIDE DEF longer
<1>2. \A i \in 0 .. Len(entries) : BalanceAfter(longer, i) = BalanceAfter(entries, i)
  BY <1>1 DEF BalanceAfter
<1>3. BalanceAfter(longer, Len(entries) + 1) = after
  BY <1>1 DEF BalanceAfter, Audit, Moved
<1>4. e.delta = d /\ e.reservedDelta = rd
  BY DEF Audit
<1>5. e.availableAfter >= 0 /\ e.reservedAfter >= 0
  BY DEF Audit, Account
<1>6. BalanceAfter(entries, Len(entries)) = balance
  BY DEF Explains
<1> HIDE DEF after, e
<1>7. ASSUME NEW i \in DOMAIN longer
      PROVE  /\ BalanceAfter(longer, i) =
                  Moved(BalanceAfter(longer, i - 1), longer[i].delta, longer[i].reservedDelta)
             /\ longer[i].availableAfter >= 0 /\ longer[i].reservedAfter >= 0
  <2>1. CASE i \in 1 .. Len(entries)
    <3>1. i \in DOMAIN entries /\ i - 1 \in 0 .. Len(entries) /\ i \in 0 .. Len(entries)
      BY <1>1, <2>1
    <3>2. /\ BalanceAfter(entries, i) =
               Moved(BalanceAfter(entries, i - 1), entries[i].delta, entries[i].reservedDelta)
          /\ entries[i].availableAfter >= 0 /\ entries[i].reservedAfter >= 0
      BY <3>1 DEF Explains
    <3>3. QED BY <1>1, <1>2, <2>1, <3>1, <3>2
  <2>2. CASE i = Len(entries) + 1
    <3>1. BalanceAfter(longer, i - 1) = balance
      BY <1>1, <1>2, <1>6, <2>2
    <3>2. longer[i] = e
      BY <1>1, <2>2
    <3>3. QED BY <1>3, <1>4, <1>5, <2>2, <3>1, <3>2 DEF after
  <2>3. QED BY <1>1, <2>1, <2>2
<1>8. after = BalanceAfter(longer, Len(longer))
  BY <1>1, <1>3
<1>9. Explains(longer, after)
  BY <1>7, <1>8 DEF Explains
<1>10. QED BY <1>9 DEF longer, after, e

\* One posted change.
LEMMA ChangeExplains ==
  ASSUME TypeOK, LedgerExplainsBalance, NEW u \in Users, NEW key,
         NEW d \in Int, NEW rd \in Int, Change(u, key, d, rd)
  PROVE  LedgerExplainsBalance'
<1> DEFINE after == Moved(account[u], d, rd)
<1>1. /\ account' = [account EXCEPT ![u] = after]
      /\ ledger' = [ledger EXCEPT ![u] = Append(@, Audit(key, d, rd, after))]
      /\ Funded(after)
  BY DEF Change
<1>2. /\ ledger[u] \in Seq(Entry)
      /\ account[u] \in Account /\ after \in Account
      /\ Explains(ledger[u], account[u])
  BY <1>1, MovedType DEF TypeOK, LedgerExplainsBalance
<1>3. Explains(Append(ledger[u], Audit(key, d, rd, after)), after)
  BY <1>2, ExplainsAppend
<1> HIDE DEF after
<1>4. ASSUME NEW v \in Users
      PROVE  Explains(ledger'[v], account'[v])
  BY <1>1, <1>3 DEF TypeOK, LedgerExplainsBalance
<1>5. QED BY <1>4 DEF LedgerExplainsBalance

\* An extension of a hold and the settlement against it.
LEMMA OverageExplains ==
  ASSUME TypeOK, LedgerExplainsBalance, NEW c \in Calls, res[c] \in Row,
         NEW actual \in Nat, SettleOverage(c, actual)
  PROVE  LedgerExplainsBalance'
<1>0. PICK u \in Users : u = res[c].user
  BY DEF Row
<1> DEFINE extra == actual - res[c].amount
           extended == Moved(account[u], -extra, extra)
           after == Moved(extended, 0, -actual)
           first == Audit(<<"reserve_adjustment", c>>, -extra, extra, extended)
           second == Audit(<<"settle", c>>, 0, -actual, after)
<1>1. /\ account' = [account EXCEPT ![u] = after]
      /\ ledger' = [ledger EXCEPT ![u] = Append(Append(@, first), second)]
      /\ Funded(extended) /\ Funded(after)
  BY <1>0 DEF SettleOverage
<1>2. /\ u \in Users /\ extra \in Int /\ -extra \in Int
      /\ -actual \in Int /\ 0 \in Int
  BY DEF Row
<1>3. /\ ledger[u] \in Seq(Entry)
      /\ account[u] \in Account
      /\ Explains(ledger[u], account[u])
  BY <1>2 DEF TypeOK, LedgerExplainsBalance
<1>4. extended \in Account /\ after \in Account
  <2>1. extended \in Account
    BY <1>1, <1>2, <1>3, MovedType
  <2>2. QED BY <1>1, <1>2, <2>1, MovedType
<1>5. Explains(Append(ledger[u], first), extended)
  BY <1>2, <1>3, <1>4, ExplainsAppend
<1>6. first \in Entry
  BY <1>2, <1>4, AuditType, OperationKeys
<1>7. Append(ledger[u], first) \in Seq(Entry)
  BY <1>3, <1>6
<1>8. Explains(Append(Append(ledger[u], first), second), after)
  BY <1>2, <1>4, <1>5, <1>7, ExplainsAppend
<1> HIDE DEF extended, after, first, second
<1>9. ASSUME NEW v \in Users
      PROVE  Explains(ledger'[v], account'[v])
  BY <1>1, <1>8 DEF TypeOK, LedgerExplainsBalance
<1>10. QED BY <1>9 DEF LedgerExplainsBalance

LEMMA StepExplains ==
  ASSUME TypeOK, LedgerExplainsBalance, [Next]_vars
  PROVE  LedgerExplainsBalance'
<1>1. CASE UNCHANGED <<account, ledger>>
  BY <1>1 DEF LedgerExplainsBalance
<1>2. ASSUME NEW u \in Users, Funding(u)
      PROVE  LedgerExplainsBalance'
  <2>1. PICK key \in OperationKey, d \in Grants \cup Deltas : Change(u, key, d, 0)
    BY <1>2 DEF Funding
  <2>2. d \in Int /\ 0 \in Int
    BY Amounts
  <2>3. QED BY <2>1, <2>2, ChangeExplains
<1>3. ASSUME NEW c \in Calls, NEW u \in Users, AdmittedHeld(c, u)
      PROVE  LedgerExplainsBalance'
  <2>1. PICK amount \in Holds : Change(u, <<"reserve", c>>, -amount, amount)
    BY <1>3 DEF AdmittedHeld
  <2>2. amount \in Int /\ -amount \in Int
    BY AmountAssumption
  <2>3. QED BY <2>1, <2>2, ChangeExplains
<1>4. ASSUME NEW c \in Calls, CallSettled(c), ~UNCHANGED <<account, ledger>>
      PROVE  LedgerExplainsBalance'
  <2>1. res[c] \in Row /\ res[c].user \in Users /\ res[c].amount \in Nat
    <3>1. res[c] \in Row
      BY <1>4, PresentRow DEF CallSettled, UnresolvedStates, OpenStates
    <3>2. QED BY <3>1 DEF Row
  <2>2. CASE SettledDirect(c)
    <3>1. PICK actual \in Nat \ {0} : Change(res[c].user, <<"settle", c>>, -actual, 0)
      BY <2>2 DEF SettledDirect
    <3>2. -actual \in Int /\ 0 \in Int
      OBVIOUS
    <3>3. QED BY <2>1, <3>1, <3>2, ChangeExplains
  <2>3. CASE SettledHeld(c)
    <3>1. PICK actual \in Nat :
            Change(res[c].user, <<"settle", c>>, res[c].amount - actual, -res[c].amount)
      BY <2>3 DEF SettledHeld
    <3>2. res[c].amount - actual \in Int /\ -res[c].amount \in Int
      BY <2>1
    <3>3. QED BY <2>1, <3>1, <3>2, ChangeExplains
  <2>4. CASE SettledOver(c)
    BY <2>1, <2>4, OverageExplains DEF SettledOver
  <2>5. QED BY <1>4, <2>2, <2>3, <2>4 DEF CallSettled, Reviewed, SettledFree
<1>5. QED BY <1>1, <1>2, <1>3, <1>4, NextEffect DEF Untouched, AdmittedDirect

\* The audit trail explains every balance, entry by entry, at any moment.
THEOREM LedgerCorrect == Spec => []LedgerExplainsBalance
<1>1. Init => LedgerExplainsBalance
  BY DEF Init, LedgerExplainsBalance, Explains, BalanceAfter
<1>2. TypeOK /\ LedgerExplainsBalance /\ [Next]_vars => LedgerExplainsBalance'
  BY StepExplains
<1>3. QED BY <1>1, <1>2, TypeCorrect, PTL DEF Spec

-----------------------------------------------------------------------------
(* Exactly-once billing: which operations the ledger holds.                *)

\* Appending an entry adds its operation and keeps what was recorded.
LEMMA AppendPosts ==
  ASSUME NEW entries \in Seq(Entry), NEW e \in Entry
  PROVE  /\ \A key : Posts(Append(entries, e), key) <=> Posts(entries, key) \/ e.key = key
         /\ \A key, d, rd : Records(entries, key, d, rd)
                              => Records(Append(entries, e), key, d, rd)
         /\ Records(Append(entries, e), e.key, e.delta, e.reservedDelta)
         /\ KeysDiffer(entries) /\ ~Posts(entries, e.key) => KeysDiffer(Append(entries, e))
<1> DEFINE longer == Append(entries, e)
           n == Len(entries)
<1>1. /\ n \in Nat
      /\ DOMAIN longer = 1 .. n + 1
      /\ DOMAIN entries = 1 .. n
      /\ \A i \in 1 .. n : longer[i] = entries[i] /\ i \in 1 .. n + 1
      /\ longer[n + 1] = e
      /\ n + 1 \in 1 .. n + 1
      /\ \A i \in 1 .. n + 1 : i \in 1 .. n \/ i = n + 1
  OBVIOUS
<1> HIDE DEF longer, n
<1>2. \A key : Posts(longer, key) <=> Posts(entries, key) \/ e.key = key
  BY <1>1 DEF Posts
<1>3. \A key, d, rd : Records(entries, key, d, rd) => Records(longer, key, d, rd)
  BY <1>1 DEF Records
<1>4. Records(longer, e.key, e.delta, e.reservedDelta)
  BY <1>1 DEF Records
<1>5. KeysDiffer(entries) /\ ~Posts(entries, e.key) => KeysDiffer(longer)
  BY <1>1 DEF KeysDiffer, Posts
<1>6. QED BY <1>2, <1>3, <1>4, <1>5 DEF longer

\* What posting the operations of a set S to user u does to the ledgers.
Posting(u, S) ==
  /\ \A v \in Users : \A key : Posts(ledger'[v], key) <=> Posts(ledger[v], key) \/ (v = u /\ key \in S)
  /\ \A v \in Users : \A key, d, rd :
       Records(ledger[v], key, d, rd) => Records(ledger'[v], key, d, rd)
  /\ OperationsPostedOnce /\ (\A key \in S : ~Posts(ledger[u], key)) => OperationsPostedOnce'

LEMMA ChangePosting ==
  ASSUME TypeOK, NEW u \in Users, NEW key \in OperationKey,
         NEW d \in Int, NEW rd \in Int, Change(u, key, d, rd)
  PROVE  Posting(u, {key}) /\ Records(ledger'[u], key, d, rd)
<1> DEFINE after == Moved(account[u], d, rd)
           e == Audit(key, d, rd, after)
<1>1. /\ ledger' = [ledger EXCEPT ![u] = Append(@, e)]
      /\ Funded(after)
  BY DEF Change
<1>2. e \in Entry /\ e.key = key /\ e.delta = d /\ e.reservedDelta = rd
  <2>1. after \in Account
    BY <1>1, MovedType DEF TypeOK
  <2>2. e \in Entry
    BY <2>1, AuditType
  <2>3. QED BY <2>2 DEF Audit
<1> HIDE DEF e
<1>3. ledger[u] \in Seq(Entry) /\ ledger'[u] = Append(ledger[u], e)
  BY <1>1 DEF TypeOK
<1>4. \A v \in Users : v # u => ledger'[v] = ledger[v]
  BY <1>1 DEF TypeOK
<1>5. /\ \A k : Posts(ledger'[u], k) <=> Posts(ledger[u], k) \/ k = key
      /\ \A k, x, y : Records(ledger[u], k, x, y) => Records(ledger'[u], k, x, y)
      /\ Records(ledger'[u], key, d, rd)
      /\ KeysDiffer(ledger[u]) /\ ~Posts(ledger[u], key) => KeysDiffer(ledger'[u])
  BY <1>2, <1>3, AppendPosts
<1>6. OperationsPostedOnce /\ (\A k \in {key} : ~Posts(ledger[u], k)) => OperationsPostedOnce'
  BY <1>4, <1>5 DEF OperationsPostedOnce
<1>7. QED BY <1>4, <1>5, <1>6 DEF Posting

LEMMA OveragePosting ==
  ASSUME TypeOK, NEW c \in Calls, res[c] \in Row, NEW actual \in Nat,
         SettleOverage(c, actual)
  PROVE  /\ Posting(res[c].user, {<<"reserve_adjustment", c>>, <<"settle", c>>})
         /\ Records(ledger'[res[c].user], <<"settle", c>>, 0, -actual)
<1>0. PICK u \in Users : u = res[c].user
  BY DEF Row
<1> DEFINE extra == actual - res[c].amount
           extended == Moved(account[u], -extra, extra)
           after == Moved(extended, 0, -actual)
           first == Audit(<<"reserve_adjustment", c>>, -extra, extra, extended)
           second == Audit(<<"settle", c>>, 0, -actual, after)
           middle == Append(ledger[u], first)
<1>1. /\ ledger' = [ledger EXCEPT ![u] = Append(Append(@, first), second)]
      /\ Funded(extended) /\ Funded(after)
  BY <1>0 DEF SettleOverage
<1>2. /\ u \in Users /\ extra \in Int /\ -extra \in Int
      /\ -actual \in Int /\ 0 \in Int
  BY DEF Row
<1>3. ledger[u] \in Seq(Entry) /\ account[u] \in Account
  BY <1>2 DEF TypeOK
<1>4. extended \in Account
  BY <1>1, <1>2, <1>3, MovedType
<1>5. after \in Account
  BY <1>1, <1>2, <1>4, MovedType
<1>6. /\ first \in Entry /\ first.key = <<"reserve_adjustment", c>>
  BY <1>2, <1>4, AuditType, OperationKeys DEF Audit
<1>7. second \in Entry
  BY <1>2, <1>5, AuditType, OperationKeys
<1>8. /\ second.key = <<"settle", c>> /\ second.delta = 0
      /\ second.reservedDelta = -actual
  BY DEF Audit
<1> HIDE DEF first, second, after, extended
<1>9. middle \in Seq(Entry) /\ ledger'[u] = Append(middle, second)
  BY <1>1, <1>2, <1>3, <1>6 DEF TypeOK
<1>10. /\ \A k : Posts(middle, k) <=> Posts(ledger[u], k) \/ k = <<"reserve_adjustment", c>>
       /\ \A k, x, y : Records(ledger[u], k, x, y) => Records(middle, k, x, y)
       /\ KeysDiffer(ledger[u]) /\ ~Posts(ledger[u], <<"reserve_adjustment", c>>)
            => KeysDiffer(middle)
  BY <1>3, <1>6, AppendPosts
<1> HIDE DEF middle
<1>11. /\ \A k : Posts(ledger'[u], k) <=> Posts(middle, k) \/ k = <<"settle", c>>
       /\ \A k, x, y : Records(middle, k, x, y) => Records(ledger'[u], k, x, y)
       /\ Records(ledger'[u], <<"settle", c>>, 0, -actual)
       /\ KeysDiffer(middle) /\ ~Posts(middle, <<"settle", c>>) => KeysDiffer(ledger'[u])
  BY <1>7, <1>8, <1>9, AppendPosts
<1>12. \A v \in Users : v # u => ledger'[v] = ledger[v]
  BY <1>1 DEF TypeOK
<1>13. <<"settle", c>> # <<"reserve_adjustment", c>>
  OBVIOUS
<1> DEFINE S == {<<"reserve_adjustment", c>>, <<"settle", c>>}
<1>14. /\ \A k : Posts(ledger'[u], k) <=> Posts(ledger[u], k) \/ k \in S
       /\ \A k, x, y : Records(ledger[u], k, x, y) => Records(ledger'[u], k, x, y)
       /\ KeysDiffer(ledger[u]) /\ (\A k \in S : ~Posts(ledger[u], k)) => KeysDiffer(ledger'[u])
  BY <1>10, <1>11, <1>13
<1> HIDE DEF S
<1>15. OperationsPostedOnce /\ (\A k \in S : ~Posts(ledger[u], k)) => OperationsPostedOnce'
  BY <1>2, <1>12, <1>14 DEF OperationsPostedOnce
<1>16. Posting(u, S)
  BY <1>12, <1>14, <1>15 DEF Posting
<1>17. QED BY <1>0, <1>11, <1>16 DEF S

\* A terminal row stays billed as ledgers grow by other operations.
LEMMA BilledPersists ==
  ASSUME NEW row, NEW key, NEW before, NEW now,
         \A k, d, rd : Records(before, k, d, rd) => Records(now, k, d, rd),
         Posts(now, key) <=> Posts(before, key),
         BilledAs(row, before, key)
  PROVE  BilledAs(row, now, key)
BY DEF BilledAs

\* The inductive invariant: beside what is to be shown, a journaled call exists
\* (so a new call has no row and no postings), an unresolved hold has no
\* confirmed usage, and postings about a hold belong to a row that has them.
CallRecorded ==
  \A c \in Calls : res[c].state # "absent" => call[c].status # "absent"

UsageConsistent ==
  \A c \in Calls :
    /\ res[c].state \in TerminalStates => res[c].actual # NoValue
    /\ res[c].state \in UnresolvedStates /\ res[c].amount > 0 => res[c].actual = NoValue

HoldPostings ==
  \A c \in Calls, u \in Users :
    /\ Posted(u, <<"reserve", c>>) => res[c].state # "absent"
    /\ Posted(u, <<"reserve_adjustment", c>>) => res[c].state \in TerminalStates

BillingInv ==
  /\ TypeOK
  /\ CallRecorded
  /\ UsageConsistent
  /\ HoldPostings
  /\ JournalMatchesLedger
  /\ OperationsPostedOnce
  /\ OneCallPerKey

LEMMA InitBilling == Init => BillingInv
<1> SUFFICES ASSUME Init PROVE BillingInv
  OBVIOUS
<1>1. TypeOK
  BY DEF Init, TypeOK, Account, CallRow
<1>2. \A u \in Users : \A key : ~Posted(u, key)
  BY DEF Init, Posted, Posts
<1>3. \A c \in Calls : res[c].state = "absent"
  BY DEF Init, NoRow
<1>4. "absent" \notin TerminalStates /\ "absent" \notin UnresolvedStates
  BY DEF TerminalStates, UnresolvedStates, OpenStates
<1>5. CallRecorded /\ UsageConsistent /\ OneCallPerKey
  BY <1>3, <1>4 DEF CallRecorded, UsageConsistent, OneCallPerKey
<1>6. HoldPostings /\ JournalMatchesLedger
  BY <1>2, <1>3, <1>4 DEF HoldPostings, JournalMatchesLedger
<1>7. OperationsPostedOnce
  BY DEF Init, OperationsPostedOnce, KeysDiffer
<1>8. QED BY <1>1, <1>5, <1>6, <1>7 DEF BillingInv

\* A call that exists goes on existing.
LEMMA CallsStay ==
  ASSUME TypeOK, [Next]_vars, NEW c \in Calls, call[c].status # "absent"
  PROVE  call'[c].status # "absent"
BY NextCall DEF CallWritten, TypeOK, FinalStatuses

\* The parts of the invariant that speak of journal and ledger.
Consistent ==
  UsageConsistent /\ HoldPostings /\ JournalMatchesLedger /\ OperationsPostedOnce /\ OneCallPerKey

\* Nothing posted: the ledgers as they are.
LEMMA NoPosting ==
  ASSUME ledger' = ledger, NEW u
  PROVE  Posting(u, {})
BY DEF Posting, OperationsPostedOnce

LEMMA StateSets ==
  /\ "absent" \notin TerminalStates /\ "absent" \notin UnresolvedStates
  /\ \A s \in TerminalStates : s \notin UnresolvedStates
  /\ OpenStates \subseteq UnresolvedStates
  /\ "needs_reconciliation" \in UnresolvedStates
BY DEF TerminalStates, UnresolvedStates, OpenStates

\* Granting or correcting tokens touches no call.
LEMMA FundingConsistent ==
  ASSUME BillingInv, NEW u \in Users, Funding(u)
  PROVE  Consistent'
<1> USE DEF BillingInv
<1>1. PICK key \in OperationKey, d \in Grants \cup Deltas :
             /\ key[1] \in {"registration", "adjust"}
             /\ ~Posted(u, key)
             /\ Change(u, key, d, 0)
             /\ res' = res
  BY DEF Funding
<1>2. d \in Int /\ 0 \in Int
  BY Amounts
<1>3. Posting(u, {key})
  BY <1>1, <1>2, ChangePosting
<1>4. \A c \in Calls : /\ key # <<"settle", c>>
                       /\ key # <<"reserve", c>>
                       /\ key # <<"reserve_adjustment", c>>
  BY <1>1
<1>5. \A c \in Calls, v \in Users :
        /\ Posts(ledger'[v], <<"settle", c>>) <=> Posts(ledger[v], <<"settle", c>>)
        /\ Posts(ledger'[v], <<"reserve", c>>) <=> Posts(ledger[v], <<"reserve", c>>)
        /\ Posts(ledger'[v], <<"reserve_adjustment", c>>)
             <=> Posts(ledger[v], <<"reserve_adjustment", c>>)
  BY <1>3, <1>4 DEF Posting
<1>6. UsageConsistent' /\ OneCallPerKey'
  BY <1>1 DEF UsageConsistent, OneCallPerKey
<1>7. HoldPostings'
  BY <1>1, <1>5 DEF HoldPostings, Posted
<1>8. OperationsPostedOnce'
  BY <1>1, <1>3 DEF Posting, Posted
<1>9. JournalMatchesLedger'
  <2>1. ASSUME NEW c \in Calls, res[c].state \in TerminalStates
        PROVE  BilledAs(res[c], ledger'[res[c].user], <<"settle", c>>)
    <3>1. res[c].user \in Users
      BY <2>1, PresentRow, StateSets DEF Row
    <3>2. BilledAs(res[c], ledger[res[c].user], <<"settle", c>>)
      BY <2>1 DEF JournalMatchesLedger, Billed
    <3>3. QED BY <1>3, <1>5, <3>1, <3>2, BilledPersists DEF Posting
  <2>2. QED BY <1>1, <1>5, <2>1 DEF JournalMatchesLedger, Billed, Posted
<1>10. QED BY <1>6, <1>7, <1>8, <1>9 DEF Consistent

\* A new row is unresolved and its operations are not posted before it exists.
LEMMA AdmittedConsistent ==
  ASSUME BillingInv, NEW c \in Calls, NEW u \in Users, NEW k \in Keys,
         NEW amount \in Nat, NEW state \in OpenStates, NEW S,
         NewRow(c, u, k, amount, state),
         S \subseteq {<<"reserve", c>>}, Posting(u, S)
  PROVE  Consistent'
<1> USE DEF BillingInv
<1> DEFINE row == [user |-> u, key |-> k, amount |-> amount,
                   actual |-> NoValue, state |-> state]
<1>1. /\ res' = [res EXCEPT ![c] = row]
      /\ ~KeyTaken(u, k)
      /\ res[c].state = "absent"
  BY DEF NewRow, CallRecorded
<1>2. /\ row.user = u /\ row.key = k /\ row.state = state /\ row.actual = NoValue
      /\ state \in UnresolvedStates /\ state \notin TerminalStates /\ state # "absent"
  BY StateSets
<1> HIDE DEF row
<1>3. /\ res'[c] = row
      /\ \A d \in Calls : d # c => res'[d] = res[d]
  BY <1>1 DEF TypeOK
<1>4. \A v \in Users : /\ ~Posts(ledger[v], <<"reserve", c>>)
                       /\ ~Posts(ledger[v], <<"settle", c>>)
                       /\ ~Posts(ledger[v], <<"reserve_adjustment", c>>)
  BY <1>1, StateSets DEF HoldPostings, JournalMatchesLedger, Posted
<1>5. \A d \in Calls, v \in Users :
        /\ Posts(ledger'[v], <<"settle", d>>) <=> Posts(ledger[v], <<"settle", d>>)
        /\ Posts(ledger'[v], <<"reserve_adjustment", d>>)
             <=> Posts(ledger[v], <<"reserve_adjustment", d>>)
        /\ d # c => (Posts(ledger'[v], <<"reserve", d>>) <=> Posts(ledger[v], <<"reserve", d>>))
  <2>1. \A d \in Calls : /\ <<"settle", d>> \notin S
                         /\ <<"reserve_adjustment", d>> \notin S
                         /\ d # c => <<"reserve", d>> \notin S
    OBVIOUS
  <2>2. QED BY <2>1 DEF Posting
<1>6. UsageConsistent'
  BY <1>2, <1>3 DEF UsageConsistent
<1>7. HoldPostings'
  BY <1>2, <1>3, <1>4, <1>5, StateSets DEF HoldPostings, Posted
<1>8. OperationsPostedOnce'
  BY <1>4 DEF Posting
<1>9. OneCallPerKey'
  BY <1>1, <1>2, <1>3 DEF OneCallPerKey, KeyTaken
<1>10. JournalMatchesLedger'
  <2>1. ASSUME NEW d \in Calls, d # c, res[d].state \in TerminalStates
        PROVE  BilledAs(res[d], ledger'[res[d].user], <<"settle", d>>)
    <3>1. res[d].user \in Users
      BY <2>1, PresentRow, StateSets DEF Row
    <3>2. BilledAs(res[d], ledger[res[d].user], <<"settle", d>>)
      BY <2>1 DEF JournalMatchesLedger, Billed
    <3>3. QED BY <1>5, <3>1, <3>2, BilledPersists DEF Posting
  <2>2. QED BY <1>2, <1>3, <1>4, <1>5, <2>1 DEF JournalMatchesLedger, Billed, Posted
<1>11. QED BY <1>6, <1>7, <1>8, <1>9, <1>10 DEF Consistent

\* Rewriting an unresolved row keeps the invariant when nothing is posted while
\* it stays unresolved, and its bill is posted when it becomes terminal.
LEMMA RewrittenConsistent ==
  ASSUME BillingInv, NEW c \in Calls, res[c] \in Row, res[c].state \in UnresolvedStates,
         NEW amount \in Nat, NEW actual \in Nat \cup {NoValue},
         NEW state \in UnresolvedStates \cup TerminalStates, NEW S,
         res' = [res EXCEPT ![c] = Rewrite(@, amount, actual, state)],
         S \subseteq {<<"reserve_adjustment", c>>, <<"settle", c>>},
         Posting(res[c].user, S),
         state \in UnresolvedStates => S = {} /\ (amount > 0 => actual = NoValue),
         state \in TerminalStates =>
           actual # NoValue /\ BilledAs(res'[c], ledger'[res[c].user], <<"settle", c>>)
  PROVE  Consistent'
<1> USE DEF BillingInv
<1> DEFINE u == res[c].user
<1>1. /\ res'[c] = Rewrite(res[c], amount, actual, state)
      /\ \A d \in Calls : d # c => res'[d] = res[d]
  BY DEF TypeOK
<1>2. /\ res'[c].user = res[c].user /\ res'[c].key = res[c].key
      /\ res'[c].amount = amount /\ res'[c].actual = actual /\ res'[c].state = state
  BY <1>1 DEF Rewrite
<1>3. /\ res[c].state # "absent" /\ res'[c].state # "absent"
      /\ res[c].state \notin TerminalStates /\ u \in Users
  BY <1>2, StateSets DEF Row
<1>4. \A v \in Users : /\ ~Posts(ledger[v], <<"settle", c>>)
                       /\ ~Posts(ledger[v], <<"reserve_adjustment", c>>)
  BY <1>3 DEF HoldPostings, JournalMatchesLedger, Posted
<1>5. \A d \in Calls, v \in Users :
        /\ Posts(ledger'[v], <<"reserve", d>>) <=> Posts(ledger[v], <<"reserve", d>>)
        /\ d # c => /\ Posts(ledger'[v], <<"settle", d>>) <=> Posts(ledger[v], <<"settle", d>>)
                    /\ Posts(ledger'[v], <<"reserve_adjustment", d>>)
                         <=> Posts(ledger[v], <<"reserve_adjustment", d>>)
  <2>1. \A d \in Calls : /\ <<"reserve", d>> \notin S
                         /\ d # c => /\ <<"settle", d>> \notin S
                                     /\ <<"reserve_adjustment", d>> \notin S
    OBVIOUS
  <2>2. QED BY <2>1 DEF Posting
<1>6. \A v \in Users :
        /\ Posts(ledger'[v], <<"settle", c>>) => v = u /\ state \in TerminalStates
        /\ Posts(ledger'[v], <<"reserve_adjustment", c>>) => state \in TerminalStates
  BY <1>4, StateSets DEF Posting
<1>7. UsageConsistent'
  BY <1>1, <1>2, StateSets DEF UsageConsistent
<1>8. HoldPostings'
  BY <1>1, <1>2, <1>3, <1>5, <1>6 DEF HoldPostings, Posted
<1>9. OperationsPostedOnce'
  BY <1>3, <1>4 DEF Posting
<1>10. OneCallPerKey'
  BY <1>1, <1>2, <1>3 DEF OneCallPerKey
<1>11. JournalMatchesLedger'
  <2>1. ASSUME NEW d \in Calls, d # c, res[d].state \in TerminalStates
        PROVE  BilledAs(res[d], ledger'[res[d].user], <<"settle", d>>)
    <3>1. res[d].user \in Users
      BY <2>1, PresentRow, StateSets DEF Row
    <3>2. BilledAs(res[d], ledger[res[d].user], <<"settle", d>>)
      BY <2>1 DEF JournalMatchesLedger, Billed
    <3>3. QED BY <1>5, <2>1, <3>1, <3>2, BilledPersists DEF Posting
  <2>2. ASSUME NEW d \in Calls, res'[d].state \in TerminalStates
        PROVE  Billed(d)'
    <3>1. CASE d = c
      BY <1>2, <2>2, <3>1 DEF Billed
    <3>2. CASE d # c
      BY <1>1, <2>1, <2>2, <3>2 DEF Billed
    <3>3. QED BY <3>1, <3>2
  <2>3. ASSUME NEW d \in Calls, NEW v \in Users, Posts(ledger'[v], <<"settle", d>>)
        PROVE  res'[d].state \in TerminalStates /\ res'[d].user = v
    <3>1. CASE d = c
      BY <1>2, <1>6, <2>3, <3>1
    <3>2. CASE d # c
      <4>1. Posts(ledger[v], <<"settle", d>>)
        BY <1>5, <2>3, <3>2
      <4>2. res[d].state \in TerminalStates /\ res[d].user = v
        BY <4>1 DEF JournalMatchesLedger, Posted
      <4>3. res'[d] = res[d]
        BY <1>1, <3>2
      <4>4. QED BY <4>2, <4>3
    <3>3. QED BY <3>1, <3>2
  <2>4. QED BY <2>2, <2>3 DEF JournalMatchesLedger, Posted
<1>12. QED BY <1>7, <1>8, <1>9, <1>10, <1>11 DEF Consistent

LEMMA SettledConsistent ==
  ASSUME BillingInv, NEW c \in Calls, CallSettled(c)
  PROVE  Consistent'
<1> USE DEF BillingInv
<1> DEFINE u == res[c].user
           key == <<"settle", c>>
<1>1. res[c] \in Row /\ res[c].state \in UnresolvedStates
  BY PresentRow, StateSets DEF CallSettled
<1>2. u \in Users /\ res[c].amount \in Nat /\ res[c].actual \in Nat \cup {NoValue}
  BY <1>1 DEF Row
<1>3. NoValue \notin Nat
  BY AmountAssumption
<1>4. CASE Reviewed(c)
  <2>1. PICK actual \in Nat \cup {NoValue} :
          /\ res[c].amount > 0 => actual = res[c].actual
          /\ res' = [res EXCEPT ![c] =
                       Rewrite(@, res[c].amount, actual, "needs_reconciliation")]
    BY <1>4 DEF Reviewed
  <2>2. res[c].amount > 0 => actual = NoValue
    BY <1>1, <2>1 DEF UsageConsistent
  <2>3. Posting(u, {})
    BY <1>4, NoPosting DEF Reviewed
  <2>4. QED BY <1>1, <1>2, <2>1, <2>2, <2>3, StateSets, RewrittenConsistent
<1>5. CASE SettledFree(c)
  <2>1. PICK final \in TerminalStates : res' = [res EXCEPT ![c] = Rewrite(@, 0, 0, final)]
    BY <1>5 DEF SettledFree
  <2>2. Posting(u, {}) /\ ledger' = ledger
    BY <1>5, NoPosting DEF SettledFree
  <2>3. ~Posts(ledger'[u], key)
    BY <1>1, <1>2, <2>2, StateSets DEF JournalMatchesLedger, Posted
  <2>4. res'[c].amount = 0 /\ res'[c].actual = 0
    BY <2>1 DEF Rewrite, TypeOK
  <2>5. BilledAs(res'[c], ledger'[u], key)
    BY <2>3, <2>4 DEF BilledAs
  <2>6. 0 \in Nat /\ 0 # NoValue
    BY <1>3
  <2> HIDE DEF key
  <2>7. QED BY <1>1, <1>2, <2>1, <2>2, <2>5, <2>6, StateSets, RewrittenConsistent DEF key
<1>6. CASE SettledDirect(c)
  <2>1. PICK actual \in Nat \ {0}, final \in TerminalStates :
          /\ Change(u, key, -actual, 0)
          /\ res' = [res EXCEPT ![c] = Rewrite(@, 0, actual, final)]
    BY <1>6 DEF SettledDirect
  <2>2. -actual \in Int /\ 0 \in Int /\ 0 \in Nat
    OBVIOUS
  <2>3. Posting(u, {key}) /\ Records(ledger'[u], key, -actual, 0)
    BY <1>2, <2>1, <2>2, ChangePosting, OperationKeys
  <2>4. res'[c].amount = 0 /\ res'[c].actual = actual
    BY <2>1 DEF Rewrite, TypeOK
  <2>5. BilledAs(res'[c], ledger'[u], key)
    BY <2>3, <2>4 DEF BilledAs
  <2>6. actual # NoValue
    BY <1>3
  <2>7. {key} \subseteq {<<"reserve_adjustment", c>>, <<"settle", c>>}
    OBVIOUS
  <2>8. QED BY <1>1, <1>2, <2>1, <2>2, <2>3, <2>5, <2>6, <2>7, StateSets, RewrittenConsistent
<1>7. CASE SettledHeld(c)
  <2>1. PICK actual \in Nat, final \in TerminalStates :
          /\ Change(u, key, res[c].amount - actual, -res[c].amount)
          /\ res' = [res EXCEPT ![c] = Rewrite(@, res[c].amount, actual, final)]
    BY <1>7 DEF SettledHeld
  <2>2. res[c].amount - actual \in Int /\ -res[c].amount \in Int
    BY <1>2
  <2>3. /\ Posting(u, {key})
        /\ Records(ledger'[u], key, res[c].amount - actual, -res[c].amount)
    BY <1>2, <2>1, <2>2, ChangePosting, OperationKeys
  <2>4. res'[c].amount = res[c].amount /\ res'[c].actual = actual /\ res[c].amount > 0
    BY <1>7, <2>1 DEF Rewrite, TypeOK, SettledHeld
  <2>5. BilledAs(res'[c], ledger'[u], key)
    BY <2>3, <2>4 DEF BilledAs
  <2>6. actual # NoValue
    BY <1>3
  <2>7. {key} \subseteq {<<"reserve_adjustment", c>>, <<"settle", c>>}
    OBVIOUS
  <2>8. QED BY <1>1, <1>2, <2>1, <2>3, <2>5, <2>6, <2>7, StateSets, RewrittenConsistent
<1>8. CASE SettledOver(c)
  <2>1. PICK actual \in Nat : actual > res[c].amount /\ SettleOverage(c, actual)
    BY <1>8 DEF SettledOver
  <2>2. res' = [res EXCEPT ![c] = Rewrite(@, actual, actual, "settled")]
    BY <2>1 DEF SettleOverage
  <2> DEFINE S == {<<"reserve_adjustment", c>>, <<"settle", c>>}
  <2>3. Posting(u, S) /\ Records(ledger'[u], key, 0, -actual)
    BY <1>1, <2>1, OveragePosting
  <2>4. res'[c].amount = actual /\ res'[c].actual = actual
    BY <2>2 DEF Rewrite, TypeOK
  <2>5. actual > 0 /\ actual - actual = 0
    BY <1>2, <2>1
  <2>6. BilledAs(res'[c], ledger'[u], key)
    BY <2>3, <2>4, <2>5 DEF BilledAs
  <2>7. actual # NoValue /\ "settled" \in TerminalStates
    BY <1>3 DEF TerminalStates
  <2>8. QED BY <1>1, <1>2, <2>2, <2>3, <2>6, <2>7, StateSets, RewrittenConsistent
<1>9. QED BY <1>4, <1>5, <1>6, <1>7, <1>8 DEF CallSettled

LEMMA StepBilling ==
  ASSUME BillingInv, [Next]_vars
  PROVE  BillingInv'
<1>1. TypeOK /\ TypeOK'
  BY MoneyType, CallType, AdjustingType DEF TypeOK, BillingInv
<1>2. Consistent'
  <2>1. CASE Untouched
    BY <2>1 DEF Untouched, BillingInv, Consistent, UsageConsistent, HoldPostings,
                JournalMatchesLedger, OperationsPostedOnce, OneCallPerKey, Billed, Posted
  <2>2. CASE \E u \in Users : Funding(u)
    BY <2>2, FundingConsistent
  <2>3. CASE \E c \in Calls, u \in Users : AdmittedDirect(c, u)
    <3>1. PICK c \in Calls, u \in Users, k \in Keys :
            NewRow(c, u, k, 0, "pending_usage") /\ ledger' = ledger
      BY <2>3 DEF AdmittedDirect
    <3>2. Posting(u, {}) /\ 0 \in Nat /\ "pending_usage" \in OpenStates
      BY <3>1, NoPosting DEF OpenStates
    <3>3. {} \subseteq {<<"reserve", c>>}
      OBVIOUS
    <3>4. QED BY <3>1, <3>2, <3>3, AdmittedConsistent
  <2>4. CASE \E c \in Calls, u \in Users : AdmittedHeld(c, u)
    <3>1. PICK c \in Calls, u \in Users, k \in Keys, amount \in Holds :
            /\ NewRow(c, u, k, amount, "reserved")
            /\ Change(u, <<"reserve", c>>, -amount, amount)
      BY <2>4 DEF AdmittedHeld
    <3>2. amount \in Nat /\ amount \in Int /\ -amount \in Int /\ "reserved" \in OpenStates
      BY AmountAssumption DEF OpenStates
    <3>3. Posting(u, {<<"reserve", c>>})
      BY <1>1, <3>1, <3>2, ChangePosting, OperationKeys
    <3>4. {<<"reserve", c>>} \subseteq {<<"reserve", c>>}
      OBVIOUS
    <3>5. QED BY <3>1, <3>2, <3>3, <3>4, AdmittedConsistent
  <2>5. CASE \E c \in Calls : CallSettled(c)
    BY <2>5, SettledConsistent
  <2>6. QED BY <1>1, <2>1, <2>2, <2>3, <2>4, <2>5, NextEffect
<1>3. CallRecorded'
  <2>1. ASSUME NEW d \in Calls, res'[d].state # "absent", res[d].state = "absent"
        PROVE  call'[d].status # "absent"
    <3>1. CASE Untouched \/ \E u \in Users : Funding(u)
      BY <2>1, <3>1 DEF Untouched, Funding
    <3>2. CASE \E c \in Calls, u \in Users : AdmittedDirect(c, u) \/ AdmittedHeld(c, u)
      <4>1. PICK c, row :
              /\ c \in Calls
              /\ res' = [res EXCEPT ![c] = row]
              /\ call' = [call EXCEPT ![c] = [status |-> "running", usage |-> NoValue]]
        BY <3>2 DEF AdmittedDirect, AdmittedHeld, NewRow
      <4>2. d = c
        BY <1>1, <2>1, <4>1 DEF TypeOK
      <4>3. QED BY <1>1, <4>1, <4>2 DEF TypeOK
    <3>3. CASE \E c \in Calls : CallSettled(c)
      <4>1. PICK c \in Calls : CallSettled(c)
        BY <3>3
      <4>2. PICK row : res' = [res EXCEPT ![c] = row]
        BY <4>1 DEF CallSettled, Reviewed, SettledFree, SettledDirect, SettledHeld,
                    SettledOver, SettleOverage
      <4>3. res[c].state # "absent"
        BY <4>1, StateSets DEF CallSettled
      <4>4. QED BY <1>1, <2>1, <4>2, <4>3 DEF TypeOK
    <3>4. QED BY <1>1, <3>1, <3>2, <3>3, NextEffect
  <2>2. QED BY <1>1, <2>1, CallsStay DEF CallRecorded, BillingInv
<1>4. QED BY <1>1, <1>2, <1>3 DEF BillingInv, Consistent

\* Every call is billed exactly once and exactly what its journal row says, one
\* call per request key and no operation posted twice:
\* whatever the order of late finishes, sweeps, reconciliations and restarts.
THEOREM BilledOnce ==
  Spec => [](JournalMatchesLedger /\ OperationsPostedOnce /\ OneCallPerKey)
<1>1. Init => BillingInv
  BY InitBilling
<1>2. BillingInv /\ [Next]_vars => BillingInv'
  BY StepBilling
<1>3. BillingInv => JournalMatchesLedger /\ OperationsPostedOnce /\ OneCallPerKey
  BY DEF BillingInv
<1>4. QED BY <1>1, <1>2, <1>3, PTL DEF Spec

-----------------------------------------------------------------------------
(* Finality.                                                               *)

LEMMA Billing == Spec => []BillingInv
<1>1. Init => BillingInv
  BY InitBilling
<1>2. BillingInv /\ [Next]_vars => BillingInv'
  BY StepBilling
<1>3. QED BY <1>1, <1>2, PTL DEF Spec

\* In particular no operation is posted twice: of the adjustments with one key
\* that have all found it free the unique key of the ledger lets one through,
\* and settle(), reserve and register repeat nothing even without its help.
THEOREM PostedOnce == Spec => []OperationsPostedOnce
BY BilledOnce, PTL

\* A settlement writes one row, unresolved until then, and keeps its user.
LEMMA SettledRow ==
  ASSUME BillingInv, NEW c \in Calls, CallSettled(c)
  PROVE  /\ res[c].state \in UnresolvedStates
         /\ \E amount, actual, state : res' = [res EXCEPT ![c] = Rewrite(@, amount, actual, state)]
         /\ res[c].actual # NoValue => res'[c].actual = res[c].actual
<1>1. /\ res[c].state \in UnresolvedStates
      /\ res[c].amount > 0 => res[c].actual = NoValue
  BY DEF CallSettled, BillingInv, UsageConsistent
<1>2. res \in [Calls -> Row \cup {NoRow}]
  BY DEF BillingInv, TypeOK
<1>a. ASSUME NEW amount, NEW actual, NEW state,
             res' = [res EXCEPT ![c] = Rewrite(@, amount, actual, state)]
      PROVE  res'[c].actual = actual
  BY <1>2, <1>a DEF Rewrite
<1>3. CASE Reviewed(c)
  <2>1. PICK actual : /\ res[c].actual # NoValue => actual = res[c].actual
                      /\ res' = [res EXCEPT ![c] =
                             Rewrite(@, res[c].amount, actual, "needs_reconciliation")]
    BY <1>3 DEF Reviewed
  <2>2. QED BY <1>1, <1>a, <2>1
<1>4. CASE SettledFree(c)
  <2>1. PICK final : /\ Agrees(res[c], 0)
                     /\ res' = [res EXCEPT ![c] = Rewrite(@, 0, 0, final)]
    BY <1>4 DEF SettledFree
  <2>2. QED BY <1>1, <1>a, <2>1 DEF Agrees
<1>5. CASE SettledDirect(c)
  <2>1. PICK actual, final : /\ Agrees(res[c], actual)
                             /\ res' = [res EXCEPT ![c] = Rewrite(@, 0, actual, final)]
    BY <1>5 DEF SettledDirect
  <2>2. QED BY <1>1, <1>a, <2>1 DEF Agrees
<1>6. CASE SettledHeld(c)
  BY <1>1, <1>2, <1>6 DEF SettledHeld
<1>7. CASE SettledOver(c)
  BY <1>1, <1>2, <1>7 DEF SettledOver, SettleOverage
<1>8. QED BY <1>3, <1>4, <1>5, <1>6, <1>7 DEF CallSettled

\* A settled or released row is final, whoever comes late.
THEOREM TerminalRowsStay == Spec => TerminalRowsFrozen
<1>1. ASSUME BillingInv, [Next]_vars, NEW d \in Calls, res[d].state \in TerminalStates
      PROVE  res'[d] = res[d]
  <2>0. res \in [Calls -> Row \cup {NoRow}] /\ TypeOK
    BY <1>1 DEF BillingInv, TypeOK
  <2>1. CASE Untouched \/ \E u \in Users : Funding(u)
    BY <2>1 DEF Untouched, Funding
  <2>2. CASE \E c \in Calls, u \in Users : AdmittedDirect(c, u) \/ AdmittedHeld(c, u)
    <3>1. PICK c, row :
            c \in Calls /\ res' = [res EXCEPT ![c] = row] /\ call[c].status = "absent"
      BY <2>2 DEF AdmittedDirect, AdmittedHeld, NewRow
    <3>2. res[c].state = "absent"
      BY <1>1, <3>1 DEF BillingInv, CallRecorded
    <3>3. QED BY <1>1, <2>0, <3>1, <3>2, StateSets
  <2>3. CASE \E c \in Calls : CallSettled(c)
    <3>1. PICK c \in Calls : CallSettled(c)
      BY <2>3
    <3>2. PICK row : res' = [res EXCEPT ![c] = row] /\ res[c].state \in UnresolvedStates
      BY <1>1, <3>1, SettledRow
    <3>3. QED BY <1>1, <2>0, <3>2, StateSets
  <2>4. QED BY <1>1, <2>0, <2>1, <2>2, <2>3, NextEffect
<1>2. BillingInv /\ [Next]_vars
        => [\A c \in Calls : res[c].state \in TerminalStates => res'[c] = res[c]]_vars
  BY <1>1
<1>3. QED BY <1>2, Billing, PTL DEF Spec, TerminalRowsFrozen

\* Usage confirmed by the provider or an administrator is never overwritten.
THEOREM ConfirmedUsageStays == Spec => ConfirmedUsageKept
<1>1. ASSUME BillingInv, [Next]_vars, NEW d \in Calls,
             res[d].state # "absent", res[d].actual # NoValue
      PROVE  res'[d].actual = res[d].actual
  <2>0. res \in [Calls -> Row \cup {NoRow}] /\ TypeOK
    BY <1>1 DEF BillingInv, TypeOK
  <2>1. CASE Untouched \/ \E u \in Users : Funding(u)
    BY <2>1 DEF Untouched, Funding
  <2>2. CASE \E c \in Calls, u \in Users : AdmittedDirect(c, u) \/ AdmittedHeld(c, u)
    <3>1. PICK c, row :
            c \in Calls /\ res' = [res EXCEPT ![c] = row] /\ call[c].status = "absent"
      BY <2>2 DEF AdmittedDirect, AdmittedHeld, NewRow
    <3>2. res[c].state = "absent"
      BY <1>1, <3>1 DEF BillingInv, CallRecorded
    <3>3. QED BY <1>1, <2>0, <3>1, <3>2
  <2>3. CASE \E c \in Calls : CallSettled(c)
    <3>1. PICK c \in Calls : CallSettled(c)
      BY <2>3
    <3>2. PICK row : res' = [res EXCEPT ![c] = row]
      BY <1>1, <3>1, SettledRow
    <3>3. CASE d = c
      BY <1>1, <3>1, <3>3, SettledRow
    <3>4. CASE d # c
      BY <2>0, <3>2, <3>4
    <3>5. QED BY <3>3, <3>4
  <2>4. QED BY <1>1, <2>0, <2>1, <2>2, <2>3, NextEffect
<1>2. BillingInv /\ [Next]_vars
        => [\A c \in Calls : res[c].state # "absent" /\ res[c].actual # NoValue
              => res'[c].actual = res[c].actual]_vars
  BY <1>1
<1>3. QED BY <1>2, Billing, PTL DEF Spec, ConfirmedUsageKept

\* Both: what is settled or confirmed stands.
THEOREM SettlementsFinal == Spec => SettlementsStand
BY TerminalRowsStay, ConfirmedUsageStays DEF SettlementsStand

-----------------------------------------------------------------------------
(* No usage is guessed.                                                    *)

\* A row that a step makes final.
Closes(c) == res'[c].state \in TerminalStates /\ res[c].state \notin TerminalStates

\* settle() writes its own row only, and "released" only when told that nothing
\* was dispatched.
LEMMA SettleWrites ==
  ASSUME TypeOK, NEW c \in Calls, NEW reported, NEW noDispatch \in BOOLEAN,
         NEW manual \in BOOLEAN, Settle(c, reported, noDispatch, manual)
  PROVE  /\ \A d \in Calls \ {c} : res'[d] = res[d]
         /\ Closes(c) /\ res'[c].state = "released" => noDispatch
<1> DEFINE Written(state) == /\ \A d \in Calls \ {c} : res'[d] = res[d]
                             /\ res'[c].state = state
           final == IF noDispatch THEN "released" ELSE "settled"
           actual == IF noDispatch THEN 0 ELSE reported
<1>1. DOMAIN res = Calls
  BY DEF TypeOK
<1>2. MarkForReview(c) => Written("needs_reconciliation")
  BY <1>1 DEF MarkForReview, Rewrite
<1>3. SettleOverage(c, actual) => Written("settled")
  <2>1. SettleOverage(c, actual) =>
          res' = [res EXCEPT ![c] = Rewrite(@, actual, actual, "settled")]
    BY DEF SettleOverage
  <2>2. QED BY <1>1, <2>1 DEF Rewrite
<1>4. SettleDirect(c, actual, final) =>
        Written("needs_reconciliation") \/ Written(final)
  <2>1. SettleDirect(c, actual, final) =>
          \/ MarkForReview(c)
          \/ res' = [res EXCEPT ![c] = Rewrite(@, 0, actual, "needs_reconciliation")]
          \/ res' = [res EXCEPT ![c] = Rewrite(@, 0, actual, final)]
    BY DEF SettleDirect
  <2>2. QED BY <1>1, <1>2, <2>1 DEF Rewrite
<1>5. SettleHeld(c, actual, final, manual) =>
        \/ Written("needs_reconciliation") \/ Written(final)
        \/ SettleOverage(c, actual) /\ manual /\ actual > res[c].amount
  <2>1. SettleHeld(c, actual, final, manual) =>
          \/ MarkForReview(c)
          \/ res' = [res EXCEPT ![c] = Rewrite(@, res[c].amount, actual, final)]
          \/ SettleOverage(c, actual) /\ manual /\ actual > res[c].amount
    BY DEF SettleHeld
  <2>2. QED BY <1>1, <1>2, <2>1 DEF Rewrite
<1>6. \/ res' = res \/ Written("needs_reconciliation") \/ Written("settled")
      \/ Written(final)
  <2>1. \/ res' = res \/ SettleDirect(c, actual, final)
        \/ SettleHeld(c, actual, final, manual)
    BY DEF Settle
  <2> HIDE DEF Written, final, actual
  <2>2. QED BY <1>3, <1>4, <1>5, <2>1
<1>7. QED
  <2>1. CASE res' = res
    BY <2>1 DEF Closes
  <2>2. CASE Written("needs_reconciliation") \/ Written("settled")
    BY <2>2
  <2>3. CASE Written(final)
    BY <2>3
  <2>4. QED
    <3> HIDE DEF Written, final
    <3>1. QED BY <1>6, <2>1, <2>2, <2>3

\* Closing a call that never finished leaves it failed.
LEMMA ClosedCall ==
  ASSUME BillingInv, NEW c \in Calls, res[c].state # "absent", Finished(c) \/ c \in aged,
         CloseStaleCall(c)
  PROVE  call'[c].status \in FinalStatuses
<1>1. call \in [Calls -> CallRow] /\ call[c].status # "absent"
  BY DEF BillingInv, TypeOK, CallRecorded
<1>2. CASE call[c].status = "running"
  BY <1>1, <1>2 DEF CloseStaleCall, Finished, FinalStatuses
<1>3. CASE call[c].status # "running"
  BY <1>1, <1>3 DEF CloseStaleCall, CallRow
<1>4. QED BY <1>2, <1>3

\* What the gateway settles has a final status, and is released only by the
\* handler that is still serving the call.
LEMMA GatewaySettles ==
  ASSUME TypeOK, NEW c \in Calls, GatewayNext(c), res' # res
  PROVE  /\ \A d \in Calls \ {c} : res'[d] = res[d]
         /\ Closes(c) /\ res'[c].state = "released" => handler[c] = "serving"
         /\ call'[c].status \in FinalStatuses
<1> DEFINE Told(reported, noDispatch) == /\ Settle(c, reported, noDispatch, FALSE)
                                         /\ call'[c].status \in FinalStatuses
                                         /\ noDispatch => handler[c] = "serving"
           Settles == /\ \A d \in Calls \ {c} : res'[d] = res[d]
                      /\ Closes(c) /\ res'[c].state = "released" => handler[c] = "serving"
                      /\ call'[c].status \in FinalStatuses
<1>1. ASSUME NEW reported, NEW noDispatch \in BOOLEAN, Told(reported, noDispatch)
      PROVE  Settles
  BY <1>1, SettleWrites
<1>2. ASSUME NEW s \in {"succeeded", "failed"}, NEW n \in Tokens \cup {NoValue}, Finish(c, s, n)
      PROVE  Told(n, FALSE)
  BY <1>2 DEF Finish, FinalStatuses, TypeOK
<1>3. ASSUME Finish(c, "cancelled", NoValue)
      PROVE  Told(NoValue, FALSE)
  BY <1>3 DEF Finish, FinalStatuses, TypeOK
<1>4. ASSUME NEW s \in {"failed", "cancelled"}, FinishUndispatched(c, s)
      PROVE  Told(NoValue, TRUE)
  BY <1>4 DEF FinishUndispatched, FinalStatuses, TypeOK
<1>5. ASSUME RenderFails(c)
      PROVE  Told(call[c].usage, FALSE)
  BY <1>5 DEF RenderFails, FinalStatuses, TypeOK
<1>6. ~Respond(c) /\ ~FinishLost(c) /\ \A s, n : ~SplitFinish(c, s, n)
  BY DEF Respond, FinishLost, SplitFinish
<1>7. Settles
  <2> HIDE DEF Told, Settles
  <2>1. QED BY <1>1, <1>2, <1>3, <1>4, <1>5, <1>6 DEF GatewayNext
<1>8. QED BY <1>7

\* The sweep and the administrator come for what has ended: a row is put under
\* review only after its call finished or outlived the grace period.
ReviewedEnded ==
  \A c \in Calls : res[c].state = "needs_reconciliation" => Finished(c) \/ c \in aged

LEMMA ReviewSettles ==
  ASSUME BillingInv, ReviewedEnded, NEW c \in Calls, ReviewNext(c), res' # res
  PROVE  /\ \A d \in Calls \ {c} : res'[d] = res[d]
         /\ Closes(c) => res'[c].state # "released"
         /\ call'[c].status \in FinalStatuses
<1> DEFINE Told == \/ MarkForReview(c)
                   \/ \E reported : Settle(c, reported, FALSE, FALSE)
                   \/ \E reported : Settle(c, reported, FALSE, TRUE)
           Due == /\ res[c].state \in UnresolvedStates
                  /\ Finished(c) \/ c \in aged
                  /\ CloseStaleCall(c)
<1>1. TypeOK
  BY DEF BillingInv
<1>2. Due /\ Told
  <2>1. ~GracePeriodEnds(c)
    BY DEF GracePeriodEnds
  <2>2. CASE RefreshRow(c)
    BY <2>2 DEF RefreshRow
  <2>3. ASSUME NEW n \in Tokens, Reconcile(c, n) PROVE Due /\ Told
    <3>1. Told /\ res[c].state \in UnresolvedStates /\ CloseStaleCall(c)
      BY <2>3 DEF Reconcile
    <3>2. Finished(c) \/ c \in aged
      BY <2>3 DEF Reconcile, ReviewedEnded
    <3>3. QED BY <3>1, <3>2
  <2>4. QED BY <2>1, <2>2, <2>3 DEF ReviewNext
<1>3. /\ \A d \in Calls \ {c} : res'[d] = res[d]
      /\ Closes(c) => res'[c].state # "released"
  <2>1. CASE MarkForReview(c)
    <3>1. res' = [res EXCEPT ![c] = Rewrite(@, @.amount, @.actual, "needs_reconciliation")]
      BY <2>1 DEF MarkForReview
    <3>2. QED BY <1>1, <3>1 DEF Rewrite, TypeOK
  <2>2. ASSUME NEW reported, NEW manual \in BOOLEAN, Settle(c, reported, FALSE, manual)
        PROVE  /\ \A d \in Calls \ {c} : res'[d] = res[d]
               /\ Closes(c) => res'[c].state # "released"
    BY <1>1, <2>2, SettleWrites
  <2>3. QED BY <1>2, <2>1, <2>2
<1>4. res[c].state # "absent"
  BY <1>2 DEF UnresolvedStates, OpenStates
<1>5. QED BY <1>2, <1>3, <1>4, ClosedCall

\* Admission journals open rows only.
LEMMA AdmissionOpens ==
  ASSUME TypeOK, NEW c \in Calls, AdmissionNext(c), NEW d \in Calls, res'[d] # res[d]
  PROVE  res'[d].state \in OpenStates
<1>1. ASSUME NEW u, NEW k, NEW n, NEW state \in OpenStates, Journal(c, u, k, n, state)
      PROVE  res'[d].state \in OpenStates
  <2>1. res' = [res EXCEPT ![c] = [user |-> u, key |-> k, amount |-> n,
                                   actual |-> NoValue, state |-> state]]
    BY <1>1 DEF Journal
  <2>2. QED BY <2>1 DEF TypeOK
<1>2. PICK u \in Users, k \in Keys :
        \/ BeginDirectCall(c, u, k) \/ RejectAdmission(c, u, k)
        \/ \E n \in Holds : Reserve(c, u, k, n)
  BY DEF AdmissionNext
<1>3. CASE BeginDirectCall(c, u, k)
  BY <1>1, <1>3 DEF BeginDirectCall, OpenStates
<1>4. ~RejectAdmission(c, u, k)
  BY DEF RejectAdmission
<1>5. ASSUME NEW n \in Holds, Reserve(c, u, k, n) PROVE res'[d].state \in OpenStates
  BY <1>1, <1>5 DEF Reserve, OpenStates
<1>6. QED BY <1>2, <1>3, <1>4, <1>5

\* Everybody else leaves the journal alone.
LEMMA JournalWriters ==
  ASSUME [Next]_vars, res' # res
  PROVE  \E c \in Calls : AdmissionNext(c) \/ GatewayNext(c) \/ ReviewNext(c)
BY DEF Next, CallNext, Register, AdjustmentNext, StartAdjust, Adjust, RefuseAdjust, Restart, vars

\* A call that finished, or aged, has done so for good.
LEMMA EndedStays ==
  ASSUME TypeOK, [Next]_vars, NEW d \in Calls, Finished(d) \/ d \in aged
  PROVE  (Finished(d) \/ d \in aged)'
<1>1. CASE UNCHANGED vars \/ Restart \/ FundingNext
  BY <1>1 DEF vars, Restart, FundingNext, Register, AdjustmentNext, StartAdjust, Adjust,
              RefuseAdjust, Finished
<1>2. ASSUME NEW c \in Calls, AdmissionNext(c) PROVE (Finished(d) \/ d \in aged)'
  <2>1. aged' = aged /\ call[c].status = "absent" /\ \E row : call' = [call EXCEPT ![c] = row]
    BY <1>2 DEF AdmissionNext, BeginDirectCall, RejectAdmission, Reserve, Journal
  <2>2. QED BY <2>1 DEF TypeOK, Finished, FinalStatuses
<1>3. ASSUME NEW c \in Calls, GatewayNext(c) PROVE (Finished(d) \/ d \in aged)'
  <2>1. aged' = aged
    BY <1>3 DEF GatewayNext, Finish, SplitFinish, FinishUndispatched, Respond, RenderFails,
                FinishLost
  <2>2. \/ call' = call
        \/ \E s \in FinalStatuses : \E n : call' = [call EXCEPT ![c] = [status |-> s, usage |-> n]]
    BY <1>3 DEF GatewayNext, Finish, SplitFinish, FinishUndispatched, Respond, RenderFails,
                FinishLost, FinalStatuses
  <2>3. QED BY <2>1, <2>2 DEF TypeOK, Finished
<1>4. ASSUME NEW c \in Calls, ReviewNext(c) PROVE (Finished(d) \/ d \in aged)'
  <2>1. aged \subseteq aged'
    BY <1>4 DEF ReviewNext, GracePeriodEnds, RefreshRow, Reconcile
  <2>2. call' = call \/ CloseStaleCall(c)
    BY <1>4 DEF ReviewNext, GracePeriodEnds, RefreshRow, Reconcile
  <2>3. QED BY <2>1, <2>2 DEF TypeOK, Finished, FinalStatuses, CloseStaleCall
<1>5. QED BY <1>1, <1>2, <1>3, <1>4 DEF Next, CallNext, FundingNext

LEMMA StepReviewed ==
  ASSUME BillingInv, ReviewedEnded, [Next]_vars
  PROVE  ReviewedEnded'
<1>1. TypeOK
  BY DEF BillingInv
<1>2. ASSUME NEW d \in Calls, res'[d].state = "needs_reconciliation", res'[d] # res[d]
      PROVE  Finished(d)'
  <2>1. PICK c \in Calls : AdmissionNext(c) \/ GatewayNext(c) \/ ReviewNext(c)
    BY <1>2, JournalWriters
  <2>2. ~AdmissionNext(c)
    BY <1>1, <1>2, AdmissionOpens DEF OpenStates
  <2>3. CASE GatewayNext(c)
    <3>1. d = c /\ call'[c].status \in FinalStatuses
      BY <1>1, <1>2, <2>3, GatewaySettles
    <3>2. QED BY <3>1 DEF Finished
  <2>4. CASE ReviewNext(c)
    <3>1. d = c /\ call'[c].status \in FinalStatuses
      BY <1>2, <2>4, ReviewSettles
    <3>2. QED BY <3>1 DEF Finished
  <2>5. QED BY <2>1, <2>2, <2>3, <2>4
<1>3. ASSUME NEW d \in Calls, res'[d].state = "needs_reconciliation", res'[d] = res[d]
      PROVE  (Finished(d) \/ d \in aged)'
  BY <1>1, <1>3, EndedStays DEF ReviewedEnded
<1>4. QED BY <1>2, <1>3 DEF ReviewedEnded

\* Whoever settles a row or puts it under review does it to a call that has
\* ended, finished by its handler or failed for its age, and only the handler that
\* knows nothing was dispatched releases one: a crash, a timeout or an
\* administrator never does.
THEOREM NothingGuessed == Spec => UsageNeverGuessed
<1>1. Init => ReviewedEnded
  BY DEF Init, ReviewedEnded, NoRow
<1>2. Spec => [](BillingInv /\ ReviewedEnded)
  BY <1>1, InitBilling, StepBilling, StepReviewed, PTL DEF Spec
<1> DEFINE Stays == \A c \in Calls : res[c].state \in TerminalStates => res'[c] = res[c]
           Ended == \A c \in Calls :
                      res'[c] # res[c] /\ res'[c].state \notin OpenStates
                        => /\ call'[c].status \in FinalStatuses
                           /\ res'[c].state = "released" => handler[c] = "serving"
<1>3. Spec => [][Stays]_vars
  BY TerminalRowsStay DEF TerminalRowsFrozen
<1>4. ASSUME BillingInv, ReviewedEnded, Next, [Stays]_vars, NEW d \in Calls,
             res'[d] # res[d], res'[d].state \notin OpenStates
      PROVE  /\ call'[d].status \in FinalStatuses
             /\ res'[d].state = "released" => handler[d] = "serving"
  <2>1. TypeOK /\ res' # res
    BY <1>4 DEF BillingInv
  <2>2. PICK c \in Calls : AdmissionNext(c) \/ GatewayNext(c) \/ ReviewNext(c)
    BY <1>4, <2>1, JournalWriters
  <2>3. ~AdmissionNext(c)
    BY <1>4, <2>1, AdmissionOpens
  <2>4. res'[d].state = "released" => Closes(d)
    <3>1. res[d].state \notin TerminalStates
      BY <1>4, <2>1 DEF vars
    <3>2. QED BY <3>1 DEF Closes, TerminalStates
  <2>5. CASE GatewayNext(c)
    BY <1>4, <2>1, <2>4, <2>5, GatewaySettles
  <2>6. CASE ReviewNext(c)
    BY <1>4, <2>1, <2>4, <2>6, ReviewSettles
  <2>7. QED BY <2>2, <2>3, <2>5, <2>6
<1>5. BillingInv /\ ReviewedEnded /\ [Next]_vars /\ [Stays]_vars => [Ended]_vars
  <2> HIDE DEF Stays
  <2>1. QED BY <1>4
<1>6. QED
  <2> HIDE DEF Stays
  <2>1. Spec => [][Ended]_vars
    <3> HIDE DEF Ended
    <3>1. QED BY <1>2, <1>3, <1>5, PTL DEF Spec
  <2>2. QED BY <2>1 DEF UsageNeverGuessed

-----------------------------------------------------------------------------
(* Sums over finite sets, as the folds of the community modules compute    *)
(* them.  The induction is over the subsets of a finite set: if a claim    *)
(* fails, it fails for a subset and for no smaller one.                    *)

\* The element a fold takes first.
First(s) == CHOOSE x \in s : TRUE

\* g is the function by which the fold of Folds.tla sums up f over subsets of S.
Folding(g, f, S) ==
  g = [s \in SUBSET S |-> IF s = {} THEN 0 ELSE f[First(s)] + g[s \ {First(s)}]]

LEMMA FirstElement ==
  ASSUME NEW s, s # {}
  PROVE  First(s) \in s
BY DEF First

\* Among subsets of a finite set one contains no other.
LEMMA SmallestSet ==
  ASSUME NEW S, IsFiniteSet(S), NEW C, C \subseteq SUBSET S, C # {}
  PROVE  \E s \in C : IsFiniteSet(s) /\ \A t \in SUBSET s : t # s => t \notin C
<1>1. C \subseteq FiniteSubsetsOf(S)
  BY FS_FiniteSubsetsOfFinite
<1>2. IsWellFoundedOn(StrictSubsetOrdering(S), FiniteSubsetsOf(S))
  BY FS_StrictSubsetOrderingWellFounded
<1>3. PICK s \in C : \A t \in C : ~(<<t, s>> \in StrictSubsetOrdering(S))
  BY <1>1, <1>2, WFMin
<1>4. \A t \in SUBSET s : t # s => t \notin C
  BY <1>3 DEF StrictSubsetOrdering
<1>5. IsFiniteSet(s)
  BY FS_Subset
<1>6. QED BY <1>4, <1>5

\* Two such functions agree where both are defined.
LEMMA FoldingUnique ==
  ASSUME NEW f, NEW A, NEW B, NEW g, NEW h, Folding(g, f, A), Folding(h, f, B),
         NEW w, w \subseteq A, w \subseteq B, IsFiniteSet(w)
  PROVE  g[w] = h[w]
<1> DEFINE C == {s \in SUBSET w : g[s] # h[s]}
<1> SUFFICES ASSUME C # {} PROVE FALSE
  OBVIOUS
<1>1. C \subseteq SUBSET w
  OBVIOUS
<1>2. PICK s \in C : IsFiniteSet(s) /\ \A t \in SUBSET s : t # s => t \notin C
  <2> HIDE DEF C
  <2>1. QED BY <1>1, SmallestSet
<1>3. s # {}
  BY DEF Folding
<1>4. First(s) \in s
  BY <1>3, FirstElement
<1>5. g[s] = f[First(s)] + g[s \ {First(s)}] /\ h[s] = f[First(s)] + h[s \ {First(s)}]
  BY <1>3 DEF Folding
<1>6. s \ {First(s)} \notin C
  BY <1>2, <1>4
<1>7. QED BY <1>5, <1>6

\* There is such a function for every finite set: on every smaller set there is one.
LEMMA FoldingExists ==
  ASSUME NEW f, NEW S, IsFiniteSet(S)
  PROVE  \E g : Folding(g, f, S)
<1> DEFINE C == {s \in SUBSET S : ~ \E g : Folding(g, f, s)}
<1> SUFFICES ASSUME C # {} PROVE FALSE
  OBVIOUS
<1>1. C \subseteq SUBSET S
  OBVIOUS
<1>2. PICK s \in C : IsFiniteSet(s) /\ \A t \in SUBSET s : t # s => t \notin C
  <2> HIDE DEF C
  <2>1. QED BY <1>1, SmallestSet
<1> DEFINE Of(t) == CHOOSE g : Folding(g, f, t)
           rest(t) == t \ {First(t)}
           value(t) == IF t = {} THEN 0 ELSE f[First(t)] + Of(rest(t))[rest(t)]
           whole == [t \in SUBSET s |-> value(t)]
<1>3. ASSUME NEW t, t \subseteq s, t # s
      PROVE  Folding(Of(t), f, t)
  BY <1>2, <1>3
<1>4. ASSUME NEW t, t \subseteq s, t # {}
      PROVE  whole[rest(t)] = Of(rest(t))[rest(t)]
  <2> DEFINE r == rest(t)
  <2>1. First(t) \in t /\ r \subseteq s /\ r # s
    BY <1>4, FirstElement
  <2>2. Folding(Of(r), f, r)
    BY <1>3, <2>1
  <2>3. CASE r = {}
    BY <2>2, <2>3 DEF Folding
  <2>4. CASE r # {}
    <3>1. First(r) \in r /\ rest(r) \subseteq s /\ rest(r) # s
      BY <2>1, <2>4, FirstElement
    <3>2. Folding(Of(rest(r)), f, rest(r))
      BY <1>3, <3>1
    <3>3. IsFiniteSet(rest(r))
      BY <2>1, FS_Subset
    <3>4. Of(rest(r))[rest(r)] = Of(r)[rest(r)]
      BY <2>2, <3>2, <3>3, FoldingUnique
    <3>5. Of(r)[r] = f[First(r)] + Of(r)[rest(r)]
      BY <2>2, <2>4 DEF Folding
    <3>6. whole[r] = f[First(r)] + Of(rest(r))[rest(r)]
      BY <2>1, <2>4
    <3>7. QED BY <3>4, <3>5, <3>6
  <2>5. QED BY <2>3, <2>4
<1>5. Folding(whole, f, s)
  <2>1. ASSUME NEW t \in SUBSET s, t # {} PROVE whole[t] = f[First(t)] + whole[rest(t)]
    BY <1>4, <2>1
  <2>2. whole[{}] = 0 /\ whole = [t \in SUBSET s |-> whole[t]]
    OBVIOUS
  <2> HIDE DEF whole, rest
  <2>3. whole = [t \in SUBSET s |-> IF t = {} THEN 0 ELSE f[First(t)] + whole[rest(t)]]
    BY <2>1, <2>2
  <2>4. QED BY <2>3 DEF rest, Folding
<1>6. QED BY <1>2, <1>5

\* SumFunctionOnSet is the value of that function on the whole set.
LEMMA SumOfFold ==
  ASSUME NEW f, NEW S
  PROVE  SumFunctionOnSet(f, S) = (CHOOSE g : Folding(g, f, S))[S]
BY DEF SumFunctionOnSet, FoldFunctionOnSet, MapThenFoldSet, Folding, First

\* The sum over no element.
LEMMA SumEmpty ==
  ASSUME NEW f
  PROVE  SumFunctionOnSet(f, {}) = 0
<1> DEFINE g == CHOOSE g : Folding(g, f, {})
<1>1. Folding(g, f, {})
  BY FoldingExists, FS_EmptySet
<1>2. g[{}] = 0
  BY <1>1 DEF Folding
<1>3. QED BY <1>2, SumOfFold

\* The element that is taken first and the sum of the others.
LEMMA SumFirst ==
  ASSUME NEW f, NEW S, IsFiniteSet(S), S # {}
  PROVE  SumFunctionOnSet(f, S) = f[First(S)] + SumFunctionOnSet(f, S \ {First(S)})
<1> DEFINE R == S \ {First(S)}
           g == CHOOSE g : Folding(g, f, S)
           h == CHOOSE h : Folding(h, f, R)
<1>1. IsFiniteSet(R)
  BY FS_Subset
<1>2. Folding(g, f, S) /\ Folding(h, f, R)
  BY <1>1, FoldingExists
<1>3. g[R] = h[R]
  BY <1>1, <1>2, FoldingUnique
<1>4. g[S] = f[First(S)] + g[R]
  BY <1>2 DEF Folding
<1>5. QED BY <1>3, <1>4, SumOfFold

\* A sum of numbers is a number.
LEMMA SumType ==
  ASSUME NEW N \in {Nat, Int}, NEW f, NEW S, IsFiniteSet(S), \A x \in S : f[x] \in N
  PROVE  SumFunctionOnSet(f, S) \in N
<1> DEFINE C == {s \in SUBSET S : SumFunctionOnSet(f, s) \notin N}
<1> SUFFICES ASSUME C # {} PROVE FALSE
  OBVIOUS
<1>1. C \subseteq SUBSET S
  OBVIOUS
<1>2. PICK s \in C : IsFiniteSet(s) /\ \A t \in SUBSET s : t # s => t \notin C
  <2> HIDE DEF C
  <2>1. QED BY <1>1, SmallestSet
<1>3. s # {}
  BY SumEmpty
<1>4. First(s) \in s
  BY <1>3, FirstElement
<1>5. SumFunctionOnSet(f, s \ {First(s)}) \in N
  BY <1>2, <1>4
<1>6. SumFunctionOnSet(f, s) = f[First(s)] + SumFunctionOnSet(f, s \ {First(s)})
  BY <1>2, <1>3, SumFirst
<1>7. f[First(s)] \in N
  BY <1>4
<1>8. QED BY <1>5, <1>6, <1>7

\* Any element and the sum of the others: the order does not matter.
LEMMA SumRemove ==
  ASSUME NEW f, NEW S, IsFiniteSet(S), \A x \in S : f[x] \in Int, NEW c \in S
  PROVE  SumFunctionOnSet(f, S) = f[c] + SumFunctionOnSet(f, S \ {c})
<1> DEFINE Removes(s, x) == SumFunctionOnSet(f, s) = f[x] + SumFunctionOnSet(f, s \ {x})
           C == {s \in SUBSET S : \E x \in s : ~Removes(s, x)}
<1> SUFFICES ASSUME C # {} PROVE FALSE
  BY DEF Removes
<1>1. C \subseteq SUBSET S
  OBVIOUS
<1>2. PICK s \in C : IsFiniteSet(s) /\ \A t \in SUBSET s : t # s => t \notin C
  <2> HIDE DEF C
  <2>1. QED BY <1>1, SmallestSet
<1>3. PICK x \in s : ~Removes(s, x)
  OBVIOUS
<1> DEFINE y == First(s)
<1>4. y \in s /\ Removes(s, y)
  BY <1>2, <1>3, FirstElement, SumFirst
<1>5. x # y
  BY <1>3, <1>4
<1>6. Removes(s \ {y}, x) /\ Removes(s \ {x}, y)
  <2>1. s \ {y} \notin C /\ s \ {x} \notin C
    BY <1>2, <1>3, <1>4
  <2>2. x \in s \ {y} /\ y \in s \ {x} /\ s \ {y} \in SUBSET S /\ s \ {x} \in SUBSET S
    BY <1>4, <1>5
  <2> HIDE DEF Removes, y
  <2>3. QED BY <2>1, <2>2
<1>7. (s \ {y}) \ {x} = (s \ {x}) \ {y}
  OBVIOUS
<1>8. IsFiniteSet((s \ {x}) \ {y})
  BY <1>1, FS_Subset
<1>9. SumFunctionOnSet(f, (s \ {x}) \ {y}) \in Int
  BY <1>8, SumType
<1>10. f[x] \in Int /\ f[y] \in Int
  BY <1>3, <1>4
<1>11. SumFunctionOnSet(f, s) = f[x] + SumFunctionOnSet(f, s \ {x})
  <2> HIDE DEF y
  <2>1. /\ SumFunctionOnSet(f, s) = f[y] + SumFunctionOnSet(f, s \ {y})
        /\ SumFunctionOnSet(f, s \ {y}) = f[x] + SumFunctionOnSet(f, (s \ {x}) \ {y})
        /\ SumFunctionOnSet(f, s \ {x}) = f[y] + SumFunctionOnSet(f, (s \ {x}) \ {y})
    BY <1>4, <1>6, <1>7
  <2>2. QED BY <2>1, <1>9, <1>10
<1>12. QED BY <1>3, <1>11

\* The sum depends on the values that are summed up, and on nothing else.
LEMMA SumAgree ==
  ASSUME NEW f, NEW g, NEW S, IsFiniteSet(S), \A x \in S : f[x] = g[x]
  PROVE  SumFunctionOnSet(f, S) = SumFunctionOnSet(g, S)
<1> DEFINE C == {s \in SUBSET S : SumFunctionOnSet(f, s) # SumFunctionOnSet(g, s)}
<1> SUFFICES ASSUME C # {} PROVE FALSE
  OBVIOUS
<1>1. C \subseteq SUBSET S
  OBVIOUS
<1>2. PICK s \in C : IsFiniteSet(s) /\ \A t \in SUBSET s : t # s => t \notin C
  <2> HIDE DEF C
  <2>1. QED BY <1>1, SmallestSet
<1>3. s # {}
  BY SumEmpty
<1>4. First(s) \in s
  BY <1>3, FirstElement
<1>5. SumFunctionOnSet(f, s \ {First(s)}) = SumFunctionOnSet(g, s \ {First(s)})
  BY <1>2, <1>4
<1>6. QED BY <1>2, <1>3, <1>4, <1>5, SumFirst

\* When a function changes at one argument, where it may begin or cease to be
\* defined, its sum changes by the difference of the values there.
LEMMA SumChange ==
  ASSUME NEW f, NEW g, NEW c, IsFiniteSet(DOMAIN f),
         DOMAIN f \ {c} = DOMAIN g \ {c},
         \A x \in DOMAIN f \ {c} : f[x] = g[x],
         \A x \in DOMAIN f : f[x] \in Int, \A x \in DOMAIN g : g[x] \in Int
  PROVE  \E rest \in Int :
           /\ SumFunction(f) = (IF c \in DOMAIN f THEN f[c] ELSE 0) + rest
           /\ SumFunction(g) = (IF c \in DOMAIN g THEN g[c] ELSE 0) + rest
<1> DEFINE R == DOMAIN f \ {c}
           rest == SumFunctionOnSet(f, R)
<1>1. IsFiniteSet(R) /\ \A x \in R : f[x] \in Int
  BY FS_RemoveElement
<1>2. IsFiniteSet(DOMAIN g)
  <2>1. DOMAIN g \subseteq R \cup {c}
    OBVIOUS
  <2>2. IsFiniteSet(R \cup {c})
    BY <1>1, FS_AddElement
  <2>3. QED BY <2>1, <2>2, FS_Subset
<1>3. rest \in Int
  BY <1>1, SumType
<1>4. SumFunctionOnSet(g, R) = rest
  BY <1>1, SumAgree
<1>5. SumFunctionOnSet(f, DOMAIN f) = (IF c \in DOMAIN f THEN f[c] ELSE 0) + rest
  <2>1. CASE c \in DOMAIN f
    BY <2>1, SumRemove
  <2>2. CASE c \notin DOMAIN f
    <3>1. R = DOMAIN f
      BY <2>2
    <3> HIDE DEF R
    <3>2. QED BY <1>3, <2>2, <3>1
  <2>3. QED BY <2>1, <2>2
<1>6. SumFunctionOnSet(g, DOMAIN g) = (IF c \in DOMAIN g THEN g[c] ELSE 0) + rest
  <2>0. R = DOMAIN g \ {c}
    OBVIOUS
  <2> HIDE DEF R
  <2>1. CASE c \in DOMAIN g
    <3>1. SumFunctionOnSet(g, DOMAIN g) = g[c] + SumFunctionOnSet(g, DOMAIN g \ {c})
      BY <1>2, <2>1, SumRemove
    <3>2. QED BY <1>4, <2>0, <2>1, <3>1
  <2>2. CASE c \notin DOMAIN g
    <3>1. R = DOMAIN g
      BY <2>0, <2>2
    <3>2. QED BY <1>3, <1>4, <2>2, <3>1
  <2>3. QED BY <2>1, <2>2
<1>7. QED BY <1>3, <1>5, <1>6 DEF SumFunction

\* No value is greater than the sum.
LEMMA SumBound ==
  ASSUME NEW f, IsFiniteSet(DOMAIN f), \A x \in DOMAIN f : f[x] \in Nat, NEW c \in DOMAIN f
  PROVE  f[c] <= SumFunction(f)
<1> DEFINE rest == SumFunctionOnSet(f, DOMAIN f \ {c})
<1>1. SumFunctionOnSet(f, DOMAIN f) = f[c] + rest
  BY SumRemove
<1>2. rest \in Nat
  BY FS_RemoveElement, SumType
<1>3. f[c] \in Nat
  OBVIOUS
<1>4. QED BY <1>1, <1>2, <1>3 DEF SumFunction

\* A sum splits into the sums over a part and over the rest.
LEMMA SumSplit ==
  ASSUME NEW f, NEW S, IsFiniteSet(S), \A x \in S : f[x] \in Int, NEW T, T \subseteq S
  PROVE  SumFunctionOnSet(f, S) = SumFunctionOnSet(f, T) + SumFunctionOnSet(f, S \ T)
<1> DEFINE Splits(s) == SumFunctionOnSet(f, T \cup s) = SumFunctionOnSet(f, T) + SumFunctionOnSet(f, s)
           C == {s \in SUBSET (S \ T) : ~Splits(s)}
<1>1. SUFFICES ASSUME C # {} PROVE FALSE
  <2>1. C = {} => Splits(S \ T)
    OBVIOUS
  <2>2. T \cup (S \ T) = S
    OBVIOUS
  <2> HIDE DEF C
  <2>3. QED BY <2>1, <2>2
<1>2. C \subseteq SUBSET (S \ T) /\ IsFiniteSet(S \ T) /\ IsFiniteSet(T)
  BY FS_Subset
<1>3. SumFunctionOnSet(f, T) \in Int
  BY <1>2, SumType
<1>4. Splits({})
  <2>1. T \cup {} = T /\ SumFunctionOnSet(f, {}) = 0
    BY SumEmpty
  <2>2. QED BY <1>3, <2>1
<1>5. PICK s \in C : IsFiniteSet(s) /\ (\A t \in SUBSET s : t # s => t \notin C) /\ s # {}
  <2>1. {} \notin C
    BY <1>4
  <2> HIDE DEF C
  <2>2. PICK s \in C : IsFiniteSet(s) /\ \A t \in SUBSET s : t # s => t \notin C
    BY <1>1, <1>2, SmallestSet
  <2>3. QED BY <2>1, <2>2
<1>6. PICK x \in s : TRUE
  BY <1>5
<1>7. Splits(s \ {x})
  <2>1. s \ {x} \in SUBSET s /\ s \ {x} # s /\ s \ {x} \in SUBSET (S \ T)
    BY <1>6
  <2> HIDE DEF Splits
  <2>2. QED BY <1>5, <2>1
<1>8. /\ SumFunctionOnSet(f, s) = f[x] + SumFunctionOnSet(f, s \ {x})
      /\ SumFunctionOnSet(f, s \ {x}) \in Int /\ f[x] \in Int
  <2>1. IsFiniteSet(s \ {x}) /\ s \subseteq S
    BY <1>5, FS_Subset
  <2>2. QED BY <1>5, <2>1, SumRemove, SumType
<1>9. SumFunctionOnSet(f, T \cup s) = f[x] + SumFunctionOnSet(f, T \cup (s \ {x}))
  <2>1. IsFiniteSet(T \cup s) /\ T \cup s \subseteq S /\ x \in T \cup s
    BY FS_Subset
  <2>2. (T \cup s) \ {x} = T \cup (s \ {x})
    OBVIOUS
  <2>3. SumFunctionOnSet(f, T \cup s) = f[x] + SumFunctionOnSet(f, (T \cup s) \ {x})
    BY <2>1, SumRemove
  <2>4. QED BY <2>2, <2>3
<1>10. Splits(s)
  BY <1>3, <1>7, <1>8, <1>9
<1>11. QED BY <1>10

\* The sum over one element.
LEMMA SumOne ==
  ASSUME NEW f, NEW x, DOMAIN f = {x}, f[x] \in Int
  PROVE  SumFunction(f) = f[x]
<1>1. SumFunctionOnSet(f, {x}) = f[x] + SumFunctionOnSet(f, {x} \ {x})
  <2>1. IsFiniteSet({x}) /\ \A y \in {x} : f[y] \in Int
    BY FS_Singleton
  <2>2. QED BY <2>1, SumRemove
<1>2. {x} \ {x} = {}
  OBVIOUS
<1>3. SumFunctionOnSet(f, {x}) = f[x]
  BY <1>1, <1>2, SumEmpty
<1>4. QED BY <1>3 DEF SumFunction

-----------------------------------------------------------------------------
(* Billing implements the abstract wallet.                                 *)

\* The abstract values of one user and one call.
Balance(u) == account[u].available + account[u].reserved
PayerOf(c) == IF res[c].state = "absent" THEN NoValue ELSE res[c].user
Bill(c)  == IF res[c].state \in TerminalStates THEN res[c].actual ELSE NoValue

\* A step that moves the balance of u by d, of nobody else.
BalanceMove(u, d) ==
  \A v \in Users : Balance(v)' = IF v = u THEN Balance(u) + d ELSE Balance(v)

LEMMA ChangeFunds ==
  ASSUME TypeOK, NEW u \in Users, NEW key, NEW d \in Int, NEW rd \in Int,
         Change(u, key, d, rd)
  PROVE  BalanceMove(u, d + rd) /\ Balance(u) \in Nat /\ Balance(u) + (d + rd) >= 0
<1>1. /\ account' = [account EXCEPT ![u] = Moved(account[u], d, rd)]
      /\ Funded(Moved(account[u], d, rd))
  BY DEF Change
<1>2. \A v \in Users : account[v].available \in Nat /\ account[v].reserved \in Nat
  BY DEF TypeOK, Account
<1>3. /\ account'[u].available = account[u].available + d
      /\ account'[u].reserved = account[u].reserved + rd
      /\ account[u].available + d >= 0 /\ account[u].reserved + rd >= 0
  BY <1>1 DEF Moved, Funded, TypeOK
<1>4. \A v \in Users : v # u => account'[v] = account[v]
  BY <1>1 DEF TypeOK
<1>5. Balance(u)' = Balance(u) + (d + rd) /\ Balance(u) \in Nat /\ Balance(u) + (d + rd) >= 0
  BY <1>2, <1>3 DEF Balance
<1>6. \A v \in Users : v # u => Balance(v)' = Balance(v)
  BY <1>4 DEF Balance
<1>7. QED BY <1>5, <1>6 DEF BalanceMove

LEMMA OverageFunds ==
  ASSUME TypeOK, NEW c \in Calls, res[c] \in Row, NEW actual \in Nat,
         SettleOverage(c, actual)
  PROVE  /\ BalanceMove(res[c].user, -actual)
         /\ Balance(res[c].user) \in Nat /\ Balance(res[c].user) + (-actual) >= 0
<1>0. PICK u \in Users : u = res[c].user
  BY DEF Row
<1> DEFINE extra == actual - res[c].amount
           extended == Moved(account[u], -extra, extra)
           after == Moved(extended, 0, -actual)
<1>1. account' = [account EXCEPT ![u] = after] /\ Funded(after)
  BY <1>0 DEF SettleOverage
<1>2. extra \in Int
  BY DEF Row
<1>3. \A v \in Users : account[v].available \in Nat /\ account[v].reserved \in Nat
  BY DEF TypeOK, Account
<1>4. /\ extended.available = account[u].available + (-extra)
      /\ extended.reserved = account[u].reserved + extra
  BY DEF Moved
<1>5. /\ after.available = extended.available + 0
      /\ after.reserved = extended.reserved + (-actual)
  BY DEF Moved
<1>6. after.available >= 0 /\ after.reserved >= 0
  BY <1>1 DEF Funded
<1> HIDE DEF extra, extended, after
<1>7. account'[u] = after /\ \A v \in Users : v # u => account'[v] = account[v]
  BY <1>1 DEF TypeOK
<1>8. Balance(u)' = Balance(u) + (-actual) /\ Balance(u) \in Nat /\ Balance(u) + (-actual) >= 0
  BY <1>2, <1>3, <1>4, <1>5, <1>6, <1>7 DEF Balance
<1>9. \A v \in Users : v # u => Balance(v)' = Balance(v)
  BY <1>7 DEF Balance
<1>10. BalanceMove(u, -actual)
  BY <1>8, <1>9 DEF BalanceMove
<1>11. QED BY <1>0, <1>8, <1>10

\* Nothing the abstract wallet sees of payers and bills changes.
SameBills == \A c \in Calls : PayerOf(c)' = PayerOf(c) /\ Bill(c)' = Bill(c)

\* The three abstract steps, from what they do to every user and every call.
LEMMA WalletFund ==
  ASSUME NEW u \in Users, NEW d \in Grants \cup Deltas,
         BalanceMove(u, d), Balance(u) + d >= 0, SameBills
  PROVE  W!Next
<1>1. W!Fund(u, d)
  BY DEF W!Fund, BalanceMove, SameBills, Balance, PayerOf, Bill
<1>2. QED BY <1>1 DEF W!Next

LEMMA WalletAdmit ==
  ASSUME NEW u \in Users, NEW c \in Calls, \A v \in Users : Balance(v)' = Balance(v),
         PayerOf(c) = NoValue, PayerOf(c)' = u,
         \A d \in Calls : Bill(d)' = Bill(d) /\ (d # c => PayerOf(d)' = PayerOf(d))
  PROVE  W!Next
<1>1. W!Admit(c, u)
  BY DEF W!Admit, Balance, PayerOf, Bill
<1>2. QED BY <1>1 DEF W!Next

\* The sums of the wallet are the sums of above.
LEMMA WalletSum ==
  ASSUME NEW f
  PROVE  W!SumFunction(f) = SumFunction(f)
BY DEF W!SumFunction, SumFunction, W!SumFunctionOnSet, SumFunctionOnSet,
       W!FoldFunctionOnSet, FoldFunctionOnSet, W!MapThenFoldSet, MapThenFoldSet

LEMMA WalletCharge ==
  ASSUME NEW u \in Users, NEW c \in Calls, NEW actual \in Nat,
         BalanceMove(u, -actual), \A v \in Users : Balance(v) \in Nat,
         Balance(u) + (-actual) >= 0,
         PayerOf(c) = u, Bill(c) = NoValue, Bill(c)' = actual,
         \A d \in Calls : PayerOf(d)' = PayerOf(d) /\ (d # c => Bill(d)' = Bill(d))
  PROVE  W!Next
<1> DEFINE funds == [v \in Users |-> account[v].available + account[v].reserved]
           payer == [d \in Calls |-> PayerOf(d)]
           bill == [d \in Calls |-> Bill(d)]
<1>1. \A v \in Users : W!BillsOf(v, {c}) = IF v = u THEN {c} ELSE {}
  BY DEF W!BillsOf, PayerOf
<1>2. \A v \in Users : W!IsFiniteSet(W!BillsOf(v, {c}))
  <2>1. \A v \in Users : IsFiniteSet(W!BillsOf(v, {c}))
    <3>1. IsFiniteSet({}) /\ IsFiniteSet({c})
      BY FS_EmptySet, FS_Singleton
    <3>2. QED BY <1>1, <3>1
  <2>2. QED BY <2>1 DEF W!IsFiniteSet, IsFiniteSet
<1>3. ASSUME NEW v \in Users
      PROVE  W!Total(v, {c}) = IF v = u THEN actual ELSE 0
  <2> DEFINE f == [d \in W!BillsOf(v, {c}) |-> bill'[d]]
  <2>1. W!Total(v, {c}) = SumFunction(f)
    <3>1. W!Total(v, {c}) = W!SumFunction(f)
      BY DEF W!Total, Bill
    <3>2. QED BY <3>1, WalletSum
  <2>2. DOMAIN f = IF v = u THEN {c} ELSE {}
    BY <1>1
  <2>3. v = u => f[c] = actual
    BY <1>1
  <2> HIDE DEF f
  <2>4. CASE v = u
    BY <2>1, <2>2, <2>3, <2>4, SumOne
  <2>5. CASE v # u
    BY <2>1, <2>2, <2>5, SumEmpty DEF SumFunction
  <2>6. QED BY <2>4, <2>5
<1>4. ASSUME NEW v \in Users
      PROVE  /\ Balance(v)' = Balance(v) - W!Total(v, {c})
             /\ W!Total(v, {c}) <= Balance(v)
  BY <1>3 DEF BalanceMove
<1>5. W!Charge({c})
  <2>1. bill' = [d \in Calls |-> IF d \in {c} THEN bill'[d] ELSE bill[d]]
    OBVIOUS
  <2>2. funds' = [v \in Users |-> funds[v] - W!Total(v, {c})]
    BY <1>4 DEF Balance
  <2>3. \A v \in Users : W!Total(v, {c}) <= funds[v]
    BY <1>4 DEF Balance
  <2>4. /\ \A d \in {c} : payer[d] \in Users /\ bill[d] = NoValue /\ bill'[d] \in Nat
        /\ payer' = payer
    OBVIOUS
  <2> USE DEF PayerOf, Bill
  <2>5. QED BY <1>2, <2>1, <2>2, <2>3, <2>4 DEF W!Charge
<1>6. QED BY <1>5 DEF W!Next

LEMMA WalletStutter ==
  ASSUME \A u \in Users : Balance(u)' = Balance(u), SameBills
  PROVE  UNCHANGED W!vars
  BY DEF W!vars, SameBills, Balance, PayerOf, Bill

\* A row rewritten from an unresolved one keeps its payer; it shows a bill only
\* when it became terminal.
LEMMA RewrittenRow ==
  ASSUME TypeOK, NEW c \in Calls, res[c].state \in UnresolvedStates,
         NEW amount, NEW actual, NEW state \in UnresolvedStates \cup TerminalStates,
         res' = [res EXCEPT ![c] = Rewrite(@, amount, actual, state)]
  PROVE  /\ res[c] \in Row /\ PayerOf(c) = res[c].user /\ Bill(c) = NoValue
         /\ \A d \in Calls : PayerOf(d)' = PayerOf(d) /\ (d # c => Bill(d)' = Bill(d))
         /\ Bill(c)' = IF state \in TerminalStates THEN actual ELSE NoValue
<1>1. res[c] \in Row
  BY PresentRow DEF UnresolvedStates, OpenStates
<1>2. /\ res'[c].user = res[c].user
      /\ res'[c].actual = actual
      /\ res'[c].state = state
  BY DEF TypeOK, Rewrite
<1>3. \A d \in Calls : d # c => res'[d] = res[d]
  BY DEF TypeOK
<1>4. res[c].state # "absent" /\ state # "absent" /\ res[c].state \notin TerminalStates
  BY DEF UnresolvedStates, OpenStates, TerminalStates
<1>5. /\ PayerOf(c)' = PayerOf(c) /\ PayerOf(c) = res[c].user
      /\ Bill(c) = NoValue
      /\ Bill(c)' = IF state \in TerminalStates THEN actual ELSE NoValue
  BY <1>2, <1>4 DEF PayerOf, Bill
<1>6. \A d \in Calls : d # c => PayerOf(d)' = PayerOf(d) /\ Bill(d)' = Bill(d)
  BY <1>3 DEF PayerOf, Bill
<1>7. QED BY <1>1, <1>5, <1>6

LEMMA SettledRefines ==
  ASSUME TypeOK, NEW c \in Calls, CallSettled(c)
  PROVE  [W!Next]_(W!vars)
<1>0. res[c].state \in UnresolvedStates /\ \A v \in Users : Balance(v) \in Nat
  BY DEF CallSettled, Balance, TypeOK, Account
<1>1. CASE Reviewed(c)
  <2>1. PICK actual : res' = [res EXCEPT ![c] =
                        Rewrite(@, res[c].amount, actual, "needs_reconciliation")]
    BY <1>1 DEF Reviewed
  <2>2. "needs_reconciliation" \in UnresolvedStates \cup TerminalStates
        /\ "needs_reconciliation" \notin TerminalStates
    BY DEF UnresolvedStates, TerminalStates
  <2>3. SameBills
    BY <1>0, <2>1, <2>2, RewrittenRow DEF SameBills
  <2>4. \A u \in Users : Balance(u)' = Balance(u)
    BY <1>1 DEF Reviewed, Balance
  <2>5. QED BY <2>3, <2>4, WalletStutter
<1>2. CASE SettledFree(c)
  <2>1. PICK final \in TerminalStates : res' = [res EXCEPT ![c] = Rewrite(@, 0, 0, final)]
    BY <1>2 DEF SettledFree
  <2>2. /\ res[c] \in Row /\ PayerOf(c) = res[c].user /\ Bill(c) = NoValue
        /\ \A d \in Calls : PayerOf(d)' = PayerOf(d) /\ (d # c => Bill(d)' = Bill(d))
        /\ Bill(c)' = 0
    BY <1>0, <2>1, RewrittenRow
  <2>3. PICK u \in Users : u = res[c].user
    BY <2>2 DEF Row
  <2>4. \A v \in Users : Balance(v) \in Nat /\ Balance(v)' = Balance(v)
    BY <1>2 DEF SettledFree, Balance, TypeOK, Account
  <2>5. 0 \in Nat /\ BalanceMove(u, -0) /\ Balance(u) + (-0) >= 0
    BY <2>4 DEF BalanceMove
  <2>6. QED BY <1>0, <2>2, <2>3, <2>4, <2>5, WalletCharge
<1>3. CASE SettledDirect(c)
  <2>1. PICK actual \in Nat \ {0}, final \in TerminalStates :
          /\ Change(res[c].user, <<"settle", c>>, -actual, 0)
          /\ res' = [res EXCEPT ![c] = Rewrite(@, 0, actual, final)]
    BY <1>3 DEF SettledDirect
  <2>2. /\ res[c] \in Row /\ PayerOf(c) = res[c].user /\ Bill(c) = NoValue
        /\ \A d \in Calls : PayerOf(d)' = PayerOf(d) /\ (d # c => Bill(d)' = Bill(d))
        /\ Bill(c)' = actual
    BY <1>0, <2>1, RewrittenRow
  <2>3. PICK u \in Users : u = res[c].user
    BY <2>2 DEF Row
  <2>4. -actual \in Int /\ 0 \in Int /\ -actual + 0 = -actual /\ actual \in Nat
    OBVIOUS
  <2>5. BalanceMove(u, -actual) /\ Balance(u) \in Nat /\ Balance(u) + (-actual) >= 0
    <3>1. /\ BalanceMove(u, -actual + 0) /\ Balance(u) \in Nat
          /\ Balance(u) + (-actual + 0) >= 0
      BY <2>1, <2>3, <2>4, ChangeFunds
    <3>2. QED BY <2>4, <3>1
  <2>6. QED BY <1>0, <2>2, <2>3, <2>4, <2>5, WalletCharge
<1>4. CASE SettledHeld(c)
  <2>1. PICK actual \in Nat, final \in TerminalStates :
          /\ Change(res[c].user, <<"settle", c>>, res[c].amount - actual, -res[c].amount)
          /\ res' = [res EXCEPT ![c] = Rewrite(@, res[c].amount, actual, final)]
    BY <1>4 DEF SettledHeld
  <2>2. /\ res[c] \in Row /\ PayerOf(c) = res[c].user /\ Bill(c) = NoValue
        /\ \A d \in Calls : PayerOf(d)' = PayerOf(d) /\ (d # c => Bill(d)' = Bill(d))
        /\ Bill(c)' = actual
    BY <1>0, <2>1, RewrittenRow
  <2>3. PICK u \in Users : u = res[c].user
    BY <2>2 DEF Row
  <2>4. PICK amount \in Nat : amount = res[c].amount
    BY <2>2 DEF Row
  <2>5. /\ amount - actual \in Int /\ -amount \in Int
        /\ (amount - actual) + (-amount) = -actual
    OBVIOUS
  <2>6. BalanceMove(u, -actual) /\ Balance(u) \in Nat /\ Balance(u) + (-actual) >= 0
    <3>1. /\ BalanceMove(u, (amount - actual) + (-amount)) /\ Balance(u) \in Nat
          /\ Balance(u) + ((amount - actual) + (-amount)) >= 0
      BY <2>1, <2>3, <2>4, <2>5, ChangeFunds
    <3>2. QED BY <2>5, <3>1
  <2>7. QED BY <1>0, <2>2, <2>3, <2>6, WalletCharge
<1>5. CASE SettledOver(c)
  <2>1. PICK actual \in Nat : SettleOverage(c, actual)
    BY <1>5 DEF SettledOver
  <2>2. res' = [res EXCEPT ![c] = Rewrite(@, actual, actual, "settled")]
    BY <2>1 DEF SettleOverage
  <2>3. "settled" \in TerminalStates
    BY DEF TerminalStates
  <2>4. /\ res[c] \in Row /\ PayerOf(c) = res[c].user /\ Bill(c) = NoValue
        /\ \A d \in Calls : PayerOf(d)' = PayerOf(d) /\ (d # c => Bill(d)' = Bill(d))
        /\ Bill(c)' = actual
    BY <1>0, <2>2, <2>3, RewrittenRow
  <2>5. PICK u \in Users : u = res[c].user
    BY <2>4 DEF Row
  <2>6. BalanceMove(u, -actual) /\ Balance(u) \in Nat /\ Balance(u) + (-actual) >= 0
    BY <2>1, <2>4, <2>5, OverageFunds
  <2>7. QED BY <1>0, <2>4, <2>5, <2>6, WalletCharge
<1>6. QED BY <1>1, <1>2, <1>3, <1>4, <1>5 DEF CallSettled

\* Funding and admission are abstract steps too.
LEMMA StepRefines ==
  ASSUME TypeOK, CallRecorded, [Next]_vars
  PROVE  [W!Next]_(W!vars)
<1>1. CASE Untouched
  BY <1>1, WalletStutter DEF Untouched, SameBills, Balance, PayerOf, Bill
<1>2. CASE \E u \in Users : Funding(u)
  <2>1. PICK u \in Users, key \in OperationKey, d \in Grants \cup Deltas :
          Change(u, key, d, 0) /\ UNCHANGED res
    BY <1>2 DEF Funding
  <2>2. d \in Int /\ 0 \in Int /\ d + 0 = d
    BY Amounts
  <2>3. BalanceMove(u, d) /\ Balance(u) + d >= 0
    <3>1. BalanceMove(u, d + 0) /\ Balance(u) + (d + 0) >= 0
      BY <2>1, <2>2, ChangeFunds
    <3>2. QED BY <2>2, <3>1
  <2>4. SameBills
    BY <2>1 DEF SameBills, PayerOf, Bill
  <2>5. QED BY <2>3, <2>4, WalletFund
<1>3. CASE \E c \in Calls, u \in Users : AdmittedDirect(c, u) \/ AdmittedHeld(c, u)
  <2>1. PICK c \in Calls, u \in Users : AdmittedDirect(c, u) \/ AdmittedHeld(c, u)
    BY <1>3
  <2>2. PICK k, amount, state :
          /\ k \in Keys
          /\ NewRow(c, u, k, amount, state)
          /\ state \in OpenStates
    BY <2>1 DEF AdmittedDirect, AdmittedHeld, OpenStates
  <2>3. /\ res[c].state = "absent"
        /\ res'[c].user = u /\ res'[c].state = state
        /\ \A d \in Calls : d # c => res'[d] = res[d]
    BY <2>2 DEF NewRow, CallRecorded, TypeOK
  <2>4. state # "absent" /\ state \notin TerminalStates /\ "absent" \notin TerminalStates
    BY <2>2 DEF OpenStates, TerminalStates
  <2>5. /\ PayerOf(c) = NoValue /\ PayerOf(c)' = u
        /\ Bill(c)' = Bill(c)
        /\ \A d \in Calls : d # c => PayerOf(d)' = PayerOf(d) /\ Bill(d)' = Bill(d)
    BY <2>3, <2>4 DEF PayerOf, Bill
  <2>6. \A v \in Users : Balance(v)' = Balance(v)
    <3>1. CASE AdmittedDirect(c, u)
      BY <3>1 DEF AdmittedDirect, Balance
    <3>2. CASE AdmittedHeld(c, u)
      <4>1. PICK hold \in Holds : Change(u, <<"reserve", c>>, -hold, hold)
        BY <3>2 DEF AdmittedHeld
      <4>2. hold \in Int /\ -hold \in Int /\ -hold + hold = 0
        BY AmountAssumption
      <4>3. BalanceMove(u, -hold + hold) /\ Balance(u) \in Nat
        BY <4>1, <4>2, ChangeFunds
      <4>4. QED BY <4>2, <4>3 DEF BalanceMove
    <3>3. QED BY <2>1, <3>1, <3>2
  <2>7. QED BY <2>5, <2>6, WalletAdmit
<1>4. CASE \E c \in Calls : CallSettled(c)
  BY <1>4, SettledRefines
<1>5. QED BY <1>1, <1>2, <1>3, <1>4, NextEffect

LEMMA InitRefines == Init => W!Init
<1>1. SUFFICES ASSUME Init PROVE W!Init
  OBVIOUS
<1>2. \A u \in Users : account[u].available + account[u].reserved = 0
  BY <1>1 DEF Init
<1>3. \A c \in Calls : res[c].state = "absent" /\ res[c].state \notin TerminalStates
  BY <1>1 DEF Init, NoRow, TerminalStates
<1>4. QED BY <1>2, <1>3 DEF W!Init

\* Billing implements the abstract wallet, for any number of users, calls, keys
\* and amounts: whatever the order of late finishes, sweeps, reviews and
\* restarts, a call is billed at most once, to its own payer, within the
\* payer's funds, and nothing else moves funds but grants and corrections.
THEOREM WalletRefined == Spec => ImplementsWallet
<1>1. BillingInv /\ [Next]_vars => [W!Next]_(W!vars)
  BY StepRefines DEF BillingInv
<1>2. QED BY <1>1, InitRefines, Billing, PTL DEF Spec, ImplementsWallet, W!Spec
-----------------------------------------------------------------------------
(* The frozen part of a balance.                                           *)

\* What a row freezes of the balance of its user.
Hold(row) == IF row.state \in UnresolvedStates THEN row.amount ELSE 0

\* Finitely many calls have been admitted, open rows have no confirmed usage,
\* and what is frozen is the sum of the holds.
HoldsInv ==
  /\ IsFiniteSet({c \in Calls : res[c].state # "absent"})
  /\ \A c \in Calls : res[c].state \in OpenStates => res[c].actual = NoValue
  /\ \A u \in Users : account[u].reserved = Frozen(u)

\* A step that moves the frozen part of u's balance by d, of nobody else's.
ReservedMove(u, d) ==
  \A v \in Users : account'[v].reserved =
                     IF v = u THEN account[u].reserved + d ELSE account[v].reserved

LEMMA InitHolds == Init => HoldsInv
<1> SUFFICES ASSUME Init PROVE HoldsInv
  OBVIOUS
<1>1. \A c \in Calls : res[c].state = "absent"
  BY DEF Init, NoRow
<1>2. IsFiniteSet({c \in Calls : res[c].state # "absent"})
  <2>1. {c \in Calls : res[c].state # "absent"} = {}
    BY <1>1
  <2>2. QED BY <2>1, FS_EmptySet
<1>3. \A c \in Calls : res[c].state \notin OpenStates
  BY <1>1 DEF OpenStates
<1>4. ASSUME NEW u \in Users PROVE account[u].reserved = Frozen(u)
  <2> DEFINE f == [c \in CallsOf(u, UnresolvedStates) |-> res[c].amount]
  <2>1. CallsOf(u, UnresolvedStates) = {}
    BY <1>1, StateSets DEF CallsOf
  <2>2. DOMAIN f = {}
    BY <2>1
  <2> HIDE DEF f
  <2>3. SumFunction(f) = 0
    BY <2>2, SumEmpty DEF SumFunction
  <2>4. Frozen(u) = 0
    BY <2>3 DEF Frozen, f
  <2>5. QED BY <2>4 DEF Init
<1>5. QED BY <1>2, <1>3, <1>4 DEF HoldsInv

\* When the row of one call of u changes, the sum of u's holds changes by the
\* difference of what it froze and what it freezes, that of others does not.
LEMMA FrozenMove ==
  ASSUME TypeOK, HoldsInv, res' \in [Calls -> Row \cup {NoRow}],
         NEW c \in Calls, NEW u \in Users,
         \A e \in Calls \ {c} : res'[e] = res[e],
         res[c].state # "absent" => res[c].user = u,
         res'[c].state # "absent" => res'[c].user = u,
         NEW v \in Users
  PROVE  /\ v = u => Frozen(v)' = Frozen(v) + (Hold(res'[c]) - Hold(res[c]))
         /\ v # u => Frozen(v)' = Frozen(v)
<1> DEFINE f == [e \in CallsOf(v, UnresolvedStates) |-> res[e].amount]
           g == [e \in CallsOf(v, UnresolvedStates)' |-> res'[e].amount]
<1>1. /\ DOMAIN f = CallsOf(v, UnresolvedStates)
      /\ DOMAIN g = CallsOf(v, UnresolvedStates)'
      /\ \A e \in DOMAIN f : f[e] = res[e].amount
      /\ \A e \in DOMAIN g : g[e] = res'[e].amount
      /\ Frozen(v) = SumFunction(f) /\ Frozen(v)' = SumFunction(g)
  BY DEF Frozen
<1> HIDE DEF f, g
<1>2. IsFiniteSet(DOMAIN f)
  <2>1. DOMAIN f \subseteq {e \in Calls : res[e].state # "absent"}
    BY <1>1, StateSets DEF CallsOf
  <2>2. QED BY <2>1, FS_Subset DEF HoldsInv
<1>3. DOMAIN f \ {c} = DOMAIN g \ {c} /\ \A e \in DOMAIN f \ {c} : f[e] = g[e]
  BY <1>1 DEF CallsOf
<1>4. \A e \in DOMAIN f : f[e] \in Int
  <2>1. \A e \in DOMAIN f : res[e] \in Row
    BY <1>1, PresentRow, StateSets DEF CallsOf
  <2>2. QED BY <1>1, <2>1 DEF Row
<1>5. \A e \in DOMAIN g : g[e] \in Int
  <2>1. \A e \in DOMAIN g : res'[e] \in Row
    BY <1>1, StateSets DEF CallsOf, NoRow
  <2>2. QED BY <1>1, <2>1 DEF Row
<1>6. PICK rest \in Int :
        /\ SumFunction(f) = (IF c \in DOMAIN f THEN f[c] ELSE 0) + rest
        /\ SumFunction(g) = (IF c \in DOMAIN g THEN g[c] ELSE 0) + rest
  BY <1>2, <1>3, <1>4, <1>5, SumChange
<1>7. CASE v = u
  <2>1. (IF c \in DOMAIN f THEN f[c] ELSE 0) = Hold(res[c])
    BY <1>1, <1>7, StateSets DEF CallsOf, Hold
  <2>2. (IF c \in DOMAIN g THEN g[c] ELSE 0) = Hold(res'[c])
    BY <1>1, <1>7, StateSets DEF CallsOf, Hold
  <2>3. Hold(res[c]) \in Int /\ Hold(res'[c]) \in Int
    BY <1>4, <1>5, <2>1, <2>2
  <2>4. QED BY <1>1, <1>6, <1>7, <2>1, <2>2, <2>3
<1>8. CASE v # u
  <2>1. c \notin DOMAIN f /\ c \notin DOMAIN g
    BY <1>1, <1>8, StateSets DEF CallsOf
  <2>2. QED BY <1>1, <1>6, <1>8, <2>1
<1>9. QED BY <1>7, <1>8

\* A step that writes one row and moves the frozen part of its user's balance by
\* what the row freezes more keeps the invariant.
LEMMA RowHolds ==
  ASSUME TypeOK, HoldsInv, res' \in [Calls -> Row \cup {NoRow}],
         NEW c \in Calls, NEW u \in Users,
         \A e \in Calls \ {c} : res'[e] = res[e],
         res[c].state # "absent" => res[c].user = u,
         res'[c].state # "absent" => res'[c].user = u,
         res'[c].state \in OpenStates => res'[c].actual = NoValue,
         ReservedMove(u, Hold(res'[c]) - Hold(res[c]))
  PROVE  HoldsInv'
<1>1. IsFiniteSet({e \in Calls : res'[e].state # "absent"})
  <2>1. IsFiniteSet({e \in Calls : res[e].state # "absent"} \cup {c})
    BY FS_AddElement DEF HoldsInv
  <2>2. {e \in Calls : res'[e].state # "absent"} \subseteq {e \in Calls : res[e].state # "absent"} \cup {c}
    OBVIOUS
  <2>3. QED BY <2>1, <2>2, FS_Subset
<1>2. \A e \in Calls : res'[e].state \in OpenStates => res'[e].actual = NoValue
  BY DEF HoldsInv
<1>3. ASSUME NEW v \in Users PROVE account'[v].reserved = Frozen(v)'
  <2>1. /\ v = u => Frozen(v)' = Frozen(v) + (Hold(res'[c]) - Hold(res[c]))
        /\ v # u => Frozen(v)' = Frozen(v)
    BY FrozenMove
  <2>2. QED BY <2>1 DEF HoldsInv, ReservedMove
<1>4. QED BY <1>1, <1>2, <1>3 DEF HoldsInv

\* credits.change moves the frozen part by what it is told.
LEMMA ChangeReserved ==
  ASSUME TypeOK, NEW u \in Users, NEW key, NEW d \in Int, NEW rd \in Int, Change(u, key, d, rd)
  PROVE  ReservedMove(u, rd)
<1>1. account' = [account EXCEPT ![u] = Moved(account[u], d, rd)]
  BY DEF Change
<1>2. account'[u].reserved = account[u].reserved + rd
  BY <1>1 DEF Moved, TypeOK
<1>3. \A v \in Users \ {u} : account'[v] = account[v]
  BY <1>1 DEF TypeOK
<1>4. QED BY <1>2, <1>3 DEF ReservedMove

\* Nothing moves.
LEMMA SameReserved ==
  ASSUME TypeOK, account' = account, NEW u \in Users
  PROVE  ReservedMove(u, 0)
BY DEF ReservedMove, TypeOK, Account

\* An extended hold is given back whole.
LEMMA OverageReserved ==
  ASSUME TypeOK, NEW c \in Calls, res[c] \in Row, NEW actual \in Nat, SettleOverage(c, actual)
  PROVE  ReservedMove(res[c].user, -res[c].amount)
<1> DEFINE u == res[c].user
           extra == actual - res[c].amount
           after == Moved(Moved(account[u], -extra, extra), 0, -actual)
<1>1. u \in Users /\ res[c].amount \in Nat /\ account[u].reserved \in Nat
  BY DEF Row, TypeOK, Account
<1>2. account' = [account EXCEPT ![u] = after]
  BY DEF SettleOverage
<1>3. after.reserved = (account[u].reserved + (actual - res[c].amount)) + (-actual)
  BY DEF Moved
<1>4. after.reserved = account[u].reserved + (-res[c].amount)
  BY <1>1, <1>3
<1> HIDE DEF after
<1>5. account'[u] = after /\ \A v \in Users \ {u} : account'[v] = account[v]
  BY <1>1, <1>2 DEF TypeOK
<1>6. QED BY <1>4, <1>5 DEF ReservedMove

\* A rewritten row keeps its user and freezes what it says.
LEMMA RewrittenHolds ==
  ASSUME TypeOK, HoldsInv, NEW c \in Calls, res[c] \in Row, res[c].state \in UnresolvedStates,
         NEW amount \in Nat, NEW actual \in Nat \cup {NoValue},
         NEW state \in {"needs_reconciliation"} \cup TerminalStates,
         res' = [res EXCEPT ![c] = Rewrite(@, amount, actual, state)],
         ReservedMove(res[c].user,
                      (IF state \in TerminalStates THEN 0 ELSE amount) - res[c].amount)
  PROVE  HoldsInv'
<1> DEFINE row == Rewrite(res[c], amount, actual, state)
<1>1. /\ res'[c] = row /\ \A e \in Calls \ {c} : res'[e] = res[e]
      /\ res[c].user \in Users
  BY DEF TypeOK, Row
<1>2. row.user = res[c].user /\ row.amount = amount /\ row.state = state
  BY DEF Rewrite
<1>3. /\ state \notin OpenStates
      /\ state \in TerminalStates <=> state \notin UnresolvedStates
  BY DEF TerminalStates, UnresolvedStates, OpenStates
<1>4. res' \in [Calls -> Row \cup {NoRow}]
  <2>1. row \in Row
    BY <1>1 DEF Rewrite, Row, UnresolvedStates
  <2> HIDE DEF row
  <2>2. QED BY <1>1, <2>1 DEF TypeOK
<1> HIDE DEF row
<1>5. Hold(res'[c]) - Hold(res[c]) = (IF state \in TerminalStates THEN 0 ELSE amount) - res[c].amount
  BY <1>1, <1>2, <1>3 DEF Hold
<1>6. QED BY <1>1, <1>2, <1>3, <1>4, <1>5, RowHolds

\* A new row freezes its amount.
LEMMA AdmittedHolds ==
  ASSUME TypeOK, CallRecorded, HoldsInv, NEW c \in Calls, NEW u \in Users, NEW k \in Keys,
         NEW amount \in Nat, NEW state \in OpenStates, NewRow(c, u, k, amount, state),
         ReservedMove(u, amount)
  PROVE  HoldsInv'
<1> DEFINE row == [user |-> u, key |-> k, amount |-> amount,
                   actual |-> NoValue, state |-> state]
<1>1. /\ res' = [res EXCEPT ![c] = row] /\ res[c].state = "absent"
      /\ row.user = u /\ row.amount = amount /\ row.actual = NoValue /\ row.state = state
  BY DEF NewRow, CallRecorded
<1>2. res' \in [Calls -> Row \cup {NoRow}]
  BY NewRowType
<1> HIDE DEF row
<1>3. res'[c] = row /\ \A e \in Calls \ {c} : res'[e] = res[e]
  BY <1>1 DEF TypeOK
<1>4. Hold(res'[c]) - Hold(res[c]) = amount
  BY <1>1, <1>3, StateSets DEF Hold
<1>5. QED BY <1>1, <1>2, <1>3, <1>4, RowHolds

\* The settlements, one effect after the other.
LEMMA SettledHolds ==
  ASSUME TypeOK, UsageConsistent, HoldsInv, NEW c \in Calls, CallSettled(c)
  PROVE  HoldsInv'
<1>1. res[c].state \in UnresolvedStates /\ res[c] \in Row
  BY PresentRow, StateSets DEF CallSettled
<1>2. /\ res[c].user \in Users /\ res[c].amount \in Nat
      /\ res[c].actual \in Nat \cup {NoValue} /\ 0 \in Nat
  BY <1>1 DEF Row
<1>3. CASE Reviewed(c)
  <2>1. PICK actual \in Nat \cup {NoValue} :
          res' = [res EXCEPT ![c] = Rewrite(@, res[c].amount, actual, "needs_reconciliation")]
    BY <1>3 DEF Reviewed
  <2>2. "needs_reconciliation" \notin TerminalStates
    BY DEF TerminalStates
  <2>3. ReservedMove(res[c].user, res[c].amount - res[c].amount)
    BY <1>2, <1>3, SameReserved DEF Reviewed
  <2>4. QED BY <1>1, <1>2, <2>1, <2>2, <2>3, RewrittenHolds
<1>4. CASE SettledFree(c)
  <2>1. PICK final \in TerminalStates : res' = [res EXCEPT ![c] = Rewrite(@, 0, 0, final)]
    BY <1>4 DEF SettledFree
  <2>2. ReservedMove(res[c].user, 0 - res[c].amount)
    BY <1>2, <1>4, SameReserved DEF SettledFree
  <2>3. QED BY <1>1, <1>2, <2>1, <2>2, RewrittenHolds
<1>5. CASE SettledDirect(c)
  <2>1. PICK actual \in Nat \ {0}, final \in TerminalStates :
          /\ res[c].amount = 0
          /\ Change(res[c].user, <<"settle", c>>, -actual, 0)
          /\ res' = [res EXCEPT ![c] = Rewrite(@, 0, actual, final)]
    BY <1>5 DEF SettledDirect
  <2>2. ReservedMove(res[c].user, 0 - res[c].amount)
    BY <1>2, <2>1, ChangeReserved
  <2>3. QED BY <1>1, <1>2, <2>1, <2>2, RewrittenHolds
<1>6. CASE SettledHeld(c)
  <2>1. PICK actual \in Nat, final \in TerminalStates :
          /\ Change(res[c].user, <<"settle", c>>, res[c].amount - actual, -res[c].amount)
          /\ res' = [res EXCEPT ![c] = Rewrite(@, res[c].amount, actual, final)]
    BY <1>6 DEF SettledHeld
  <2>2. res[c].amount - actual \in Int /\ -res[c].amount \in Int /\ -res[c].amount = 0 - res[c].amount
    BY <1>2
  <2>3. ReservedMove(res[c].user, 0 - res[c].amount)
    BY <1>2, <2>1, <2>2, ChangeReserved
  <2>4. QED BY <1>1, <1>2, <2>1, <2>3, RewrittenHolds
<1>7. CASE SettledOver(c)
  <2>1. PICK actual \in Nat : SettleOverage(c, actual)
    BY <1>7 DEF SettledOver
  <2>2. -res[c].amount = 0 - res[c].amount /\ "settled" \in TerminalStates
    BY <1>2 DEF TerminalStates
  <2>3. ReservedMove(res[c].user, 0 - res[c].amount)
    BY <1>1, <2>1, <2>2, OverageReserved
  <2>4. res' = [res EXCEPT ![c] = Rewrite(@, actual, actual, "settled")]
    BY <2>1 DEF SettleOverage
  <2>5. QED BY <1>1, <1>2, <2>2, <2>3, <2>4, RewrittenHolds
<1>8. QED BY <1>3, <1>4, <1>5, <1>6, <1>7 DEF CallSettled

LEMMA StepHolds ==
  ASSUME BillingInv, HoldsInv, [Next]_vars
  PROVE  HoldsInv'
<1>0. TypeOK /\ CallRecorded /\ UsageConsistent
  BY DEF BillingInv
<1>1. ASSUME res' = res, \A v \in Users : account'[v].reserved = account[v].reserved
      PROVE  HoldsInv'
  <2>1. \A v \in Users : Frozen(v)' = Frozen(v)
    BY <1>1 DEF Frozen, CallsOf
  <2>2. QED BY <1>1, <2>1 DEF HoldsInv
<1>2. CASE Untouched
  BY <1>1, <1>2 DEF Untouched
<1>3. CASE \E u \in Users : Funding(u)
  <2>1. PICK u \in Users, key \in OperationKey, d \in Grants \cup Deltas : Change(u, key, d, 0)
    BY <1>3 DEF Funding
  <2>2. ReservedMove(u, 0)
    BY <1>0, <2>1, Amounts, ChangeReserved
  <2>3. \A v \in Users : account'[v].reserved = account[v].reserved
    BY <1>0, <2>2 DEF ReservedMove, TypeOK, Account
  <2>4. QED BY <1>1, <1>3, <2>3 DEF Funding
<1>4. CASE \E c \in Calls, u \in Users : AdmittedDirect(c, u)
  <2>1. PICK c \in Calls, u \in Users, k \in Keys :
          NewRow(c, u, k, 0, "pending_usage") /\ account' = account
    BY <1>4 DEF AdmittedDirect
  <2>2. ReservedMove(u, 0) /\ 0 \in Nat /\ "pending_usage" \in OpenStates
    BY <1>0, <2>1, SameReserved DEF OpenStates
  <2>3. QED BY <1>0, <2>1, <2>2, AdmittedHolds
<1>5. CASE \E c \in Calls, u \in Users : AdmittedHeld(c, u)
  <2>1. PICK c \in Calls, u \in Users, k \in Keys, amount \in Holds :
          NewRow(c, u, k, amount, "reserved") /\ Change(u, <<"reserve", c>>, -amount, amount)
    BY <1>5 DEF AdmittedHeld
  <2>2. amount \in Nat /\ -amount \in Int /\ amount \in Int /\ "reserved" \in OpenStates
    BY AmountAssumption DEF OpenStates
  <2>3. ReservedMove(u, amount)
    BY <1>0, <2>1, <2>2, ChangeReserved
  <2>4. QED BY <1>0, <2>1, <2>2, <2>3, AdmittedHolds
<1>6. CASE \E c \in Calls : CallSettled(c)
  BY <1>0, <1>6, SettledHolds
<1>7. QED BY <1>0, <1>2, <1>3, <1>4, <1>5, <1>6, NextEffect

\* The hold of an open row is a part of the sum.
LEMMA HoldsSettle ==
  ASSUME TypeOK, HoldsInv
  PROVE  HoldsBackReserved
<1>1. ASSUME NEW c \in Calls, res[c].state \in OpenStates
      PROVE  res[c].amount <= account[res[c].user].reserved
  <2> DEFINE u == res[c].user
             f == [e \in CallsOf(u, UnresolvedStates) |-> res[e].amount]
  <2>1. \A e \in CallsOf(u, UnresolvedStates) : res[e] \in Row /\ res[e].state # "absent"
    BY PresentRow, StateSets DEF CallsOf
  <2>2. c \in CallsOf(u, UnresolvedStates) /\ u \in Users
    BY <1>1, PresentRow, StateSets DEF CallsOf, Row
  <2>3. IsFiniteSet(CallsOf(u, UnresolvedStates))
    <3>1. CallsOf(u, UnresolvedStates) \subseteq {e \in Calls : res[e].state # "absent"}
      BY <2>1 DEF CallsOf
    <3>2. QED BY <3>1, FS_Subset DEF HoldsInv
  <2>4. \A e \in DOMAIN f : f[e] \in Nat
    BY <2>1 DEF Row
  <2>5. IsFiniteSet(DOMAIN f) /\ c \in DOMAIN f /\ f[c] = res[c].amount
    BY <2>2, <2>3
  <2>6. Frozen(u) = SumFunction(f)
    BY DEF Frozen
  <2> HIDE DEF f
  <2>7. f[c] <= SumFunction(f)
    BY <2>4, <2>5, SumBound
  <2>8. QED BY <2>2, <2>5, <2>6, <2>7 DEF HoldsInv
<1>2. QED BY <1>1 DEF HoldsInv, HoldsBackReserved, OpenRowsSettle

\* What is frozen of a balance is the sum of the holds of its user's unresolved
\* calls, and an open row can give its hold back, for any number of calls.
THEOREM HoldsBacked == Spec => []HoldsBackReserved
<1>1. Init => HoldsInv
  BY InitHolds
<1>2. BillingInv /\ HoldsInv /\ [Next]_vars => HoldsInv'
  BY StepHolds
<1>3. BillingInv /\ HoldsInv => HoldsBackReserved
  BY HoldsSettle DEF BillingInv
<1>4. QED BY <1>1, <1>2, <1>3, Billing, PTL DEF Spec

-----------------------------------------------------------------------------
(* The transactions behind the steps: BillingTx, on calls, users and        *)
(* tables of its own.                                                      *)

-----------------------------------------------------------------------------
(* The inductive invariant: of a transaction in the state x, of what it    *)
(* shows the calls to be, and of the calls that are old.                   *)

\* A version of an account is sound when its balance is what the calls it shows
\* settled have left of what the user was given.
Sound(u, acc) ==
  /\ acc \in AccountRows(u)
  /\ IsFiniteSet({c \in PaidBy(u) : Terminal(acc.row[c])})
  /\ \A c \in PaidBy(u) : Terminal(acc.row[c]) => acc.row[c].actual # Null
  /\ acc.available = acc.funded - Used(acc)

Tables ==
  /\ DOMAIN accounts = UserIds
  /\ \A u \in UserIds : Sound(u, accounts[u])
  /\ calls \in [CallIds -> CallRecords]
  /\ late \subseteq CallIds
  /\ DOMAIN tx = Transactions

\* No row is locked twice.
Apart(x, y) ==
  /\ DOMAIN x.locked.accounts \cap DOMAIN y.locked.accounts = {}
  /\ DOMAIN x.locked.calls \cap DOMAIN y.locked.calls = {}

Exclusive == \A t1, t2 \in Transactions : t1 # t2 => Apart(tx[t1], tx[t2])

\* The versions are of the tables' rows and sound, and show no call running.
Versions(x) ==
  /\ {"stage", "locked"} \subseteq DOMAIN x
  /\ DOMAIN x.locked = {"accounts", "calls"}
  /\ DOMAIN x.locked.accounts \subseteq UserIds
  /\ \A u \in DOMAIN x.locked.accounts : Sound(u, x.locked.accounts[u])
  /\ DOMAIN x.locked.calls \subseteq CallIds
  /\ \A c \in DOMAIN x.locked.calls : /\ x.locked.calls[c] \in CallRecords
                                      /\ x.locked.calls[c].status # "running"

\* The transaction sees a call running.
SeenRunning(shown, x, c) == shown[c].status = "running" /\ c \notin DOMAIN x.locked.calls

\* acc shows a call of u awaiting its usage when the transaction sees it running.
Matches(shown, x, u, acc, except) ==
  \A c \in PaidBy(u) \ except : SeenRunning(shown, x, c) <=> acc.row[c].state = "pending_usage"

\* The call a sweep is closing, or a review is about.
InHand(x) == IF x.stage \in {"close", "decide"} THEN {x.at} ELSE {}

\* Sweeps and reviews lock calls under the account, and see the status of each
\* follow its row, but for the call in hand.
Covered(shown, x) ==
  /\ \A c \in DOMAIN x.locked.calls : Payer[c] \in DOMAIN x.locked.accounts
  /\ \A u \in DOMAIN x.locked.accounts : Matches(shown, x, u, x.locked.accounts[u], InHand(x))

\* A call that is being closed is late and shown running.
Closing(shown, old, x) ==
  /\ x.at \in old
  /\ Payer[x.at] \in DOMAIN x.locked.accounts
  /\ SeenRunning(shown, x, x.at)

Finishing(c, x) ==
  \/ x \in {Idle, Done}
  \/ /\ x.stage = "settle"
     /\ x.actual \in Nat \cup {Null}
     /\ x.final \in {"settled", "released"}
     /\ DOMAIN x.locked.accounts = {}
     /\ DOMAIN x.locked.calls = {c}

\* A sweep takes the accounts in order.
Sweeping(shown, old, x) ==
  \/ x = Idle
  \/ /\ x.stage \in {"sweep", "close"}
     /\ {"todo", "late"} \subseteq DOMAIN x
     /\ x.late \subseteq old
     /\ x.todo \subseteq CallIds \ DOMAIN x.locked.calls
     /\ \A u \in DOMAIN x.locked.accounts, c \in x.todo : u <= Payer[c]
     /\ x.stage = "close" =>
          /\ x.next = "sweep"
          /\ Closing(shown, old, x)
          /\ x.at \notin x.todo
          /\ x.locked.accounts[Payer[x.at]].row[x.at].state = "needs_reconciliation"

Reviewing(shown, old, x) ==
  \/ x = Idle
  \/ /\ x.stage \in {"review", "close", "decide"}
     /\ {"at", "actual"} \subseteq DOMAIN x
     /\ x.at \in CallIds
     /\ x.actual \in Usages
     /\ x.stage = "review" => DOMAIN x.locked.accounts = {} /\ DOMAIN x.locked.calls = {}
     /\ x.stage # "review" => DOMAIN x.locked.accounts = {Payer[x.at]}
     /\ x.stage = "close" => x.next = "decide" /\ Closing(shown, old, x)
     /\ x.stage = "decide" => ~SeenRunning(shown, x, x.at)

Proper(shown, old, t, x) ==
  /\ Versions(x)
  /\ t \in CallIds => Finishing(t, x)
  /\ t \in Sweeps => Covered(shown, x) /\ Sweeping(shown, old, x)
  /\ t \in Reviews => Covered(shown, x) /\ Reviewing(shown, old, x)

BillingTxInv ==
  /\ Tables
  /\ StatusFollowsJournal
  /\ Exclusive
  /\ \A t \in Transactions : Proper(calls, late, t, tx[t])
  /\ IsFiniteSet({s \in Sweeps : tx[s] # Idle})

-----------------------------------------------------------------------------
(* Rows, versions and what a settlement does to an account.                *)

LEMMA NoRowsLocked == DOMAIN <<>> = {}
OBVIOUS

LEMMA WithRow ==
  ASSUME NEW f, NEW x, NEW value
  PROVE  /\ DOMAIN With(f, x, value) = DOMAIN f \cup {x}
         /\ With(f, x, value)[x] = value
         /\ \A y \in DOMAIN f \ {x} : With(f, x, value)[y] = f[y]
BY DEF With

LEMMA OneRow ==
  ASSUME NEW x, NEW value
  PROVE  DOMAIN With(<<>>, x, value) = {x} /\ With(<<>>, x, value)[x] = value
<1>1. DOMAIN <<>> = {}
  BY NoRowsLocked
<1>2. With(<<>>, x, value) = [y \in {x} |-> value]
  BY <1>1 DEF With
<1>3. QED BY <1>2

\* What t sees of an account.
LEMMA AccountSeen ==
  ASSUME Tables, NEW t, NEW u \in UserIds
  PROVE  AccountSeenBy(t, u) = IF u \in DOMAIN Accounts(t) THEN Accounts(t)[u] ELSE accounts[u]
BY DEF Tables, AccountSeenBy, Overlay

\* The calls an account shows settled, and what they used.
Paid(acc) == {c \in DOMAIN acc.row : Terminal(acc.row[c])}

\* A settlement writes the row of the call and takes from the balance what the
\* call used, if it settles it.
Charged(u, acc, c, actual, after) ==
  /\ after \in AccountRows(u)
  /\ after.funded = acc.funded
  /\ after.row[c].state # "pending_usage"
  /\ \A d \in PaidBy(u) \ {c} : after.row[d] = acc.row[d]
  /\ \/ after = acc /\ Terminal(acc.row[c])
     \/ /\ ~Terminal(acc.row[c])
        /\ after.row[c].state = "needs_reconciliation"
        /\ after.available = acc.available
     \/ /\ ~Terminal(acc.row[c]) /\ Terminal(after.row[c])
        /\ actual \in Nat /\ after.row[c].actual = actual
        /\ after.available = acc.available - actual

LEMMA SettledRows ==
  ASSUME NEW u \in UserIds, NEW acc \in AccountRows(u), NEW c \in PaidBy(u),
         NEW actual \in Nat \cup {Null}, NEW final \in {"settled", "released"}
  PROVE  Charged(u, acc, c, actual, Settled(acc, c, actual, final))
<1> DEFINE after == Settled(acc, c, actual, final)
<1>1. /\ acc.funded \in Nat /\ acc.available \in Nat /\ acc.row \in [PaidBy(u) -> Rows] /\ acc.row[c] \in Rows
      /\ acc = [funded |-> acc.funded, available |-> acc.available, row |-> acc.row]
  BY DEF AccountRows
<1>2. CASE Terminal(acc.row[c])
  <2>1. after = acc
    BY <1>2 DEF Settled
  <2>2. acc.row[c].state # "pending_usage"
    BY <1>2 DEF Terminal
  <2>3. after = acc /\ Charged(u, acc, c, actual, acc)
    BY <1>2, <2>1, <2>2 DEF Charged
  <2>4. QED BY <2>3
<1>3. ASSUME ~Terminal(acc.row[c]), NEW row \in Rows, NEW n \in Nat,
             after = [funded |-> acc.funded, available |-> n, row |-> [acc.row EXCEPT ![c] = row]]
      PROVE  /\ after \in AccountRows(u)
             /\ after.funded = acc.funded /\ after.available = n /\ after.row[c] = row
             /\ \A d \in PaidBy(u) \ {c} : after.row[d] = acc.row[d]
  <2>1. [acc.row EXCEPT ![c] = row] \in [PaidBy(u) -> Rows]
    BY <1>1
  <2>2. after \in AccountRows(u)
    BY <1>3, <2>1 DEF AccountRows
  <2>3. QED BY <1>1, <1>3, <2>2
<1>4. CASE ~Terminal(acc.row[c]) /\ actual = Null
  <2> DEFINE row == [acc.row[c] EXCEPT !.state = "needs_reconciliation"]
  <2>1. row \in Rows /\ row.state = "needs_reconciliation"
    BY <1>1 DEF Rows
  <2>2. after = [funded |-> acc.funded, available |-> acc.available, row |-> [acc.row EXCEPT ![c] = row]]
    <3>1. after = [acc EXCEPT !.row[c].state = "needs_reconciliation"]
      BY <1>4 DEF Settled
    <3>2. QED BY <1>1, <3>1
  <2> HIDE DEF row, after
  <2>3. Charged(u, acc, c, actual, after)
    BY <1>1, <1>3, <1>4, <2>1, <2>2 DEF Charged
  <2>4. QED BY <2>3 DEF after
<1>5. CASE ~Terminal(acc.row[c]) /\ actual # Null /\ actual > acc.available
  <2> DEFINE row == [state |-> "needs_reconciliation", actual |-> actual]
  <2>1. row \in Rows /\ row.state = "needs_reconciliation"
    BY DEF Rows
  <2>2. after = [funded |-> acc.funded, available |-> acc.available, row |-> [acc.row EXCEPT ![c] = row]]
    <3>1. after = [acc EXCEPT !.row[c] = row]
      BY <1>5 DEF Settled
    <3>2. QED BY <1>1, <3>1
  <2> HIDE DEF row, after
  <2>3. Charged(u, acc, c, actual, after)
    BY <1>1, <1>3, <1>5, <2>1, <2>2 DEF Charged
  <2>4. QED BY <2>3 DEF after
<1>6. CASE ~Terminal(acc.row[c]) /\ actual # Null /\ ~(actual > acc.available)
  <2> DEFINE row == [state |-> final, actual |-> actual]
  <2>1. /\ row \in Rows /\ Terminal(row) /\ row.state # "pending_usage"
        /\ actual \in Nat /\ row.actual = actual /\ acc.available - actual \in Nat
    BY <1>1, <1>6 DEF Rows, Terminal
  <2>2. after = [funded |-> acc.funded, available |-> acc.available - actual,
                 row |-> [acc.row EXCEPT ![c] = row]]
    <3>1. after = [acc EXCEPT !.available = @ - actual, !.row[c] = row]
      BY <1>6 DEF Settled
    <3>2. QED BY <1>1, <3>1
  <2> HIDE DEF row, after
  <2>3. Charged(u, acc, c, actual, after)
    BY <1>1, <1>3, <1>6, <2>1, <2>2 DEF Charged
  <2>4. QED BY <2>3 DEF after
<1>7. QED BY <1>2, <1>4, <1>5, <1>6

\* A settlement keeps an account sound.
LEMMA SettledSound ==
  ASSUME NEW u \in UserIds, NEW acc, Sound(u, acc), NEW c \in PaidBy(u),
         NEW actual \in Nat \cup {Null}, NEW final \in {"settled", "released"},
         NEW after, after = Settled(acc, c, actual, final)
  PROVE  Sound(u, after)
<1> DEFINE f == [d \in {d \in DOMAIN acc.row : Terminal(acc.row[d])} |-> acc.row[d].actual]
           g == [d \in {d \in DOMAIN after.row : Terminal(after.row[d])} |-> after.row[d].actual]
<1>1. acc \in AccountRows(u) /\ acc.available \in Nat
  BY DEF Sound, AccountRows
<1>2. Charged(u, acc, c, actual, after)
  BY <1>1, SettledRows
<1> USE <1>2 DEF Charged
<1>3. DOMAIN acc.row = PaidBy(u) /\ DOMAIN after.row = PaidBy(u)
  BY <1>1, <1>2 DEF AccountRows
<1>4. /\ DOMAIN f = {d \in PaidBy(u) : Terminal(acc.row[d])}
      /\ DOMAIN g = {d \in PaidBy(u) : Terminal(after.row[d])}
      /\ \A d \in DOMAIN f : f[d] = acc.row[d].actual
      /\ \A d \in DOMAIN g : g[d] = after.row[d].actual
      /\ Used(acc) = SumFunction(f) /\ Used(after) = SumFunction(g)
  BY <1>3 DEF Used
<1> HIDE DEF f, g
<1>5. IsFiniteSet(DOMAIN f) /\ IsFiniteSet(DOMAIN g)
  <2>1. IsFiniteSet(DOMAIN f)
    BY <1>4 DEF Sound
  <2>2. DOMAIN g \subseteq DOMAIN f \cup {c}
    BY <1>2, <1>4
  <2>3. QED BY <2>1, <2>2, FS_AddElement, FS_Subset
<1>6. \A d \in DOMAIN f : f[d] \in Nat
  BY <1>1, <1>4 DEF Sound, AccountRows, Rows
<1>7. \A d \in DOMAIN g : after.row[d].actual # Null
  <2>1. \A d \in DOMAIN f : acc.row[d].actual # Null
    BY <1>4 DEF Sound
  <2>2. c \in DOMAIN g => after = acc \/ after.row[c].actual \in Nat
    BY <1>2, <1>4 DEF Terminal
  <2>3. QED BY <1>2, <1>4, <2>1, <2>2, BillingAssumption
<1>8. \A d \in DOMAIN g : g[d] \in Nat
  BY <1>2, <1>4, <1>7 DEF AccountRows, Rows
<1>9. DOMAIN f \ {c} = DOMAIN g \ {c} /\ \A d \in DOMAIN f \ {c} : f[d] = g[d]
  BY <1>2, <1>4
<1>10. /\ \A d \in DOMAIN f : f[d] \in Int
       /\ \A d \in DOMAIN g : g[d] \in Int
  BY <1>6, <1>8
<1>11. PICK rest \in Int :
         /\ SumFunction(f) = (IF c \in DOMAIN f THEN f[c] ELSE 0) + rest
         /\ SumFunction(g) = (IF c \in DOMAIN g THEN g[c] ELSE 0) + rest
  BY <1>5, <1>9, <1>10, SumChange
<1>12. after.available = after.funded - Used(after)
  <2>1. acc.available = acc.funded - SumFunction(f) /\ acc.funded \in Int /\ after.funded = acc.funded
    BY <1>1, <1>2, <1>4 DEF Sound, AccountRows
  <2>2. CASE after = acc
    BY <2>2 DEF Sound
  <2>3. CASE /\ ~Terminal(acc.row[c])
             /\ after.row[c].state = "needs_reconciliation"
             /\ after.available = acc.available
    <3>1. c \notin DOMAIN f /\ c \notin DOMAIN g
      BY <1>4, <2>3 DEF Terminal
    <3>2. QED BY <1>4, <1>11, <2>1, <2>3, <3>1
  <2>4. CASE /\ ~Terminal(acc.row[c]) /\ Terminal(after.row[c])
             /\ actual \in Nat /\ after.row[c].actual = actual
             /\ after.available = acc.available - actual
    <3>1. c \notin DOMAIN f /\ c \in DOMAIN g /\ g[c] = actual
      BY <1>4, <2>4
    <3>2. SumFunction(f) = rest /\ SumFunction(g) = actual + rest
      BY <1>11, <3>1
    <3>3. QED BY <1>4, <2>1, <2>4, <3>2
  <2>5. QED BY <1>2, <2>2, <2>3, <2>4
<1>13. QED BY <1>2, <1>4, <1>5, <1>7, <1>12 DEF Sound

-----------------------------------------------------------------------------
(* What one transaction does keeps what is said of the others.             *)

LEMMA IdleProper ==
  ASSUME NEW shown, NEW old, NEW t
  PROVE  /\ Versions(Idle) /\ Versions(Done)
         /\ Proper(shown, old, t, Idle)
         /\ t \notin Sweeps \cup Reviews => Proper(shown, old, t, Done)
         /\ DOMAIN Idle.locked.accounts = {} /\ DOMAIN Idle.locked.calls = {}
         /\ DOMAIN Done.locked.accounts = {} /\ DOMAIN Done.locked.calls = {}
<1>1. DOMAIN Idle.locked.accounts = {} /\ DOMAIN Idle.locked.calls = {}
  BY NoRowsLocked DEF Idle, NoLocks
<1>2. DOMAIN Done.locked.accounts = {} /\ DOMAIN Done.locked.calls = {}
  BY NoRowsLocked DEF Done, NoLocks
<1>3. /\ {"stage", "locked"} \subseteq DOMAIN Idle /\ DOMAIN Idle.locked = {"accounts", "calls"}
      /\ {"stage", "locked"} \subseteq DOMAIN Done /\ DOMAIN Done.locked = {"accounts", "calls"}
  BY DEF Idle, Done, NoLocks
<1>4. Versions(Idle) /\ Versions(Done)
  BY <1>1, <1>2, <1>3 DEF Versions
<1>5. Covered(shown, Idle)
  BY <1>1 DEF Covered
<1>6. QED BY <1>1, <1>2, <1>4, <1>5 DEF Proper, Finishing, Sweeping, Reviewing

\* What is said of a transaction depends on the tables only by the time the
\* calls are late and by the calls whose account it has locked.
LEMMA ProperKept ==
  ASSUME NEW t, NEW x, NEW shown, NEW shown2, NEW old \in SUBSET CallIds, NEW old2,
         Proper(shown, old, t, x), old \subseteq old2,
         t \in Sweeps \cup Reviews =>
           \A c \in CallIds : Payer[c] \in DOMAIN x.locked.accounts
                              => (shown2[c].status = "running" <=> shown[c].status = "running")
  PROVE  Proper(shown2, old2, t, x)
<1>1. Versions(x) /\ (t \in CallIds => Finishing(t, x))
  BY DEF Proper
<1>2. ASSUME t \in Sweeps \cup Reviews,
             NEW c \in CallIds, Payer[c] \in DOMAIN x.locked.accounts
      PROVE  SeenRunning(shown2, x, c) <=> SeenRunning(shown, x, c)
  BY <1>2 DEF SeenRunning
<1>3. ASSUME t \in Sweeps \cup Reviews
      PROVE  Covered(shown2, x)
  <2>1. Covered(shown, x)
    BY <1>3 DEF Proper
  <2>2. ASSUME NEW u \in DOMAIN x.locked.accounts
        PROVE  Matches(shown2, x, u, x.locked.accounts[u], InHand(x))
    <3>1. Matches(shown, x, u, x.locked.accounts[u], InHand(x))
      BY <2>1 DEF Covered
    <3>2. \A c \in PaidBy(u) : SeenRunning(shown2, x, c) <=> SeenRunning(shown, x, c)
      BY <1>2, <1>3 DEF PaidBy
    <3>3. QED BY <3>1, <3>2 DEF Matches
  <2>3. QED BY <2>1, <2>2 DEF Covered
<1>4. ASSUME t \in Sweeps \cup Reviews, Closing(shown, old, x)
      PROVE  Closing(shown2, old2, x)
  BY <1>2, <1>4 DEF Closing
<1>5. ASSUME t \in Sweeps
      PROVE  Sweeping(shown2, old2, x)
  <2>1. Sweeping(shown, old, x)
    BY <1>5 DEF Proper
  <2>2. QED BY <1>4, <1>5, <2>1 DEF Sweeping
<1>6. ASSUME t \in Reviews
      PROVE  Reviewing(shown2, old2, x)
  <2>1. Reviewing(shown, old, x)
    BY <1>6 DEF Proper
  <2>2. CASE x = Idle
    BY <2>2 DEF Reviewing
  <2>3. CASE x # Idle
    <3>1. x.stage = "close" => Closing(shown2, old2, x)
      BY <1>4, <1>6, <2>1, <2>3 DEF Reviewing
    <3>2. x.stage = "decide" => ~SeenRunning(shown2, x, x.at)
      <4>1. x.stage = "decide" => Payer[x.at] \in DOMAIN x.locked.accounts /\ x.at \in CallIds
        BY <2>1, <2>3 DEF Reviewing
      <4>2. QED BY <1>2, <1>6, <2>1, <2>3, <4>1 DEF Reviewing
    <3>3. QED BY <2>1, <2>3, <3>1, <3>2 DEF Reviewing
  <2>4. QED BY <2>2, <2>3
<1>7. QED BY <1>1, <1>3, <1>5, <1>6 DEF Proper

\* The transaction t comes into the state x.
LEMMA Others ==
  ASSUME BillingTxInv, NEW t \in Transactions, NEW x, tx' = [tx EXCEPT ![t] = x],
         \A o \in Transactions \ {t} : Apart(x, tx[o]),
         \A o \in Transactions \ {t} : Proper(calls', late', o, tx[o]),
         Proper(calls', late', t, x)
  PROVE  /\ DOMAIN tx' = Transactions
         /\ Exclusive'
         /\ \A o \in Transactions : Proper(calls', late', o, tx'[o])
         /\ IsFiniteSet({s \in Sweeps : tx'[s] # Idle})
<1>1. DOMAIN tx = Transactions
  BY DEF BillingTxInv, Tables
<1>2. DOMAIN tx' = Transactions /\ tx'[t] = x /\ \A o \in Transactions \ {t} : tx'[o] = tx[o]
  BY <1>1
<1>3. Exclusive'
  <2>1. ASSUME NEW t1 \in Transactions, NEW t2 \in Transactions, t1 # t2
        PROVE  Apart(tx'[t1], tx'[t2])
    <3>1. CASE t1 = t
      BY <1>2, <2>1, <3>1
    <3>2. CASE t2 = t
      <4>1. Apart(x, tx[t1])
        BY <2>1, <3>2
      <4>2. QED BY <1>2, <2>1, <3>2, <4>1 DEF Apart
    <3>3. CASE t1 # t /\ t2 # t
      <4>1. Apart(tx[t1], tx[t2])
        BY <2>1 DEF BillingTxInv, Exclusive
      <4>2. QED BY <1>2, <3>3, <4>1
    <3>4. QED BY <3>1, <3>2, <3>3
  <2>2. QED BY <2>1 DEF Exclusive
<1>4. \A o \in Transactions : Proper(calls', late', o, tx'[o])
  BY <1>2
<1>5. IsFiniteSet({s \in Sweeps : tx'[s] # Idle})
  <2>1. IsFiniteSet({s \in Sweeps : tx[s] # Idle} \cup {t})
    BY FS_AddElement DEF BillingTxInv
  <2>2. {s \in Sweeps : tx'[s] # Idle} \subseteq {s \in Sweeps : tx[s] # Idle} \cup {t}
    BY <1>2 DEF Transactions
  <2>3. QED BY <2>1, <2>2, FS_Subset
<1>6. QED BY <1>2, <1>3, <1>4, <1>5

\* A step that commits nothing.
LEMMA PrivateStep ==
  ASSUME BillingTxInv, UNCHANGED <<accounts, calls, late>>,
         NEW t \in Transactions, NEW x, tx' = [tx EXCEPT ![t] = x], Proper(calls, late, t, x),
         \A o \in Transactions \ {t} : Apart(x, tx[o])
  PROVE  BillingTxInv'
<1>1. \A o \in Transactions : Proper(calls', late', o, tx[o])
  BY DEF BillingTxInv
<1>2. /\ DOMAIN tx' = Transactions
      /\ Exclusive'
      /\ \A o \in Transactions : Proper(calls', late', o, tx'[o])
      /\ IsFiniteSet({s \in Sweeps : tx'[s] # Idle})
  BY <1>1, Others
<1>3. Tables'
  BY <1>2 DEF BillingTxInv, Tables
<1>4. StatusFollowsJournal'
  BY DEF BillingTxInv, StatusFollowsJournal
<1>5. QED BY <1>2, <1>3, <1>4 DEF BillingTxInv

\* A step that commits the accounts and calls of t and gives up its locks.
LEMMA CommitStep ==
  ASSUME BillingTxInv, NEW t \in Transactions, NEW x, NEW locked,
         CommitAs(t, locked, x), x = Idle \/ (x = Done /\ t \in CallIds),
         DOMAIN locked.accounts \subseteq UserIds,
         \A u \in DOMAIN locked.accounts : Sound(u, locked.accounts[u]),
         DOMAIN locked.calls \subseteq CallIds,
         \A c \in DOMAIN locked.calls : /\ locked.calls[c] \in CallRecords
                                        /\ locked.calls[c].status # "running"
                                        /\ Payer[c] \in DOMAIN locked.accounts,
         \A o \in Transactions \ {t} :
           DOMAIN locked.accounts \cap DOMAIN tx[o].locked.accounts = {},
         \A c \in CallIds : Payer[c] \in DOMAIN locked.accounts =>
           (/\ calls[c].status = "running"
            /\ c \notin DOMAIN locked.calls)
             <=> locked.accounts[Payer[c]].row[c].state = "pending_usage"
  PROVE  BillingTxInv'
<1>1. /\ Tables
      /\ \A u \in UserIds : accounts'[u] = IF u \in DOMAIN locked.accounts THEN locked.accounts[u]
                                                                      ELSE accounts[u]
      /\ DOMAIN accounts' = UserIds
      /\ \A c \in CallIds : calls'[c] = IF c \in DOMAIN locked.calls THEN locked.calls[c] ELSE calls[c]
      /\ DOMAIN calls' = CallIds /\ calls' = [c \in CallIds |-> calls'[c]]
      /\ tx' = [tx EXCEPT ![t] = x] /\ late' = late
  BY DEF BillingTxInv, Tables, CommitAs, Overlay, Become
<1>2. calls' \in [CallIds -> CallRecords]
  <2>1. \A c \in CallIds : calls'[c] \in CallRecords
    BY <1>1 DEF Tables
  <2>2. QED BY <1>1, <2>1
<1>3. \A u \in UserIds : Sound(u, accounts'[u])
  BY <1>1 DEF Tables
<1>4. \A o \in Transactions \ {t} : Proper(calls', late', o, tx[o])
  <2>1. SUFFICES ASSUME NEW o \in Transactions \ {t}
                 PROVE  Proper(calls', late', o, tx[o])
    OBVIOUS
  <2>2. Proper(calls, late, o, tx[o]) /\ late \in SUBSET CallIds /\ late \subseteq late'
    BY <1>1 DEF BillingTxInv, Tables
  <2>3. \A c \in CallIds : Payer[c] \in DOMAIN tx[o].locked.accounts
                           => (calls'[c].status = "running" <=> calls[c].status = "running")
    BY <1>1
  <2>4. QED BY <2>2, <2>3, ProperKept
<1>5. Proper(calls', late', t, x)
  BY IdleProper, BillingAssumption
<1>6. \A o \in Transactions \ {t} : Apart(x, tx[o])
  BY IdleProper DEF Apart
<1>7. /\ DOMAIN tx' = Transactions
      /\ Exclusive'
      /\ \A o \in Transactions : Proper(calls', late', o, tx'[o])
      /\ IsFiniteSet({s \in Sweeps : tx'[s] # Idle})
  BY <1>1, <1>4, <1>5, <1>6, Others
<1>8. Tables'
  BY <1>1, <1>2, <1>3, <1>7 DEF Tables
<1>9. StatusFollowsJournal'
  <2>1. SUFFICES ASSUME NEW c \in CallIds
                 PROVE  calls'[c].status = "running"
                          <=> accounts'[Payer[c]].row[c].state = "pending_usage"
    BY DEF StatusFollowsJournal
  <2>2. Payer[c] \in UserIds
    BY BillingAssumption
  <2>3. CASE Payer[c] \in DOMAIN locked.accounts
    BY <1>1, <2>2, <2>3
  <2>4. CASE Payer[c] \notin DOMAIN locked.accounts
    BY <1>1, <2>2, <2>4 DEF BillingTxInv, StatusFollowsJournal
  <2>5. QED BY <2>3, <2>4
<1>10. QED BY <1>7, <1>8, <1>9 DEF BillingTxInv

-----------------------------------------------------------------------------
(* The steps.                                                              *)

\* What a transaction that holds no rows knows of itself and of the others.
LEMMA OwnState ==
  ASSUME BillingTxInv, NEW t \in Transactions
  PROVE  /\ Proper(calls, late, t, tx[t])
         /\ Versions(tx[t])
         /\ t \in CallIds => Finishing(t, tx[t])
         /\ t \in Sweeps => Covered(calls, tx[t]) /\ Sweeping(calls, late, tx[t])
         /\ t \in Reviews => Covered(calls, tx[t]) /\ Reviewing(calls, late, tx[t])
         /\ \A o \in Transactions \ {t} : Apart(tx[t], tx[o])
BY DEF BillingTxInv, Proper, Exclusive

LEMMA GiveUp ==
  ASSUME BillingTxInv, NEW t \in Transactions,
         UNCHANGED <<accounts, calls, late>>,
         \/ tx' = [tx EXCEPT ![t] = Idle]
         \/ t \in CallIds /\ tx' = [tx EXCEPT ![t] = Done]
  PROVE  BillingTxInv'
<1>1. \A o \in Transactions : Apart(Idle, tx[o]) /\ Apart(Done, tx[o])
  BY IdleProper DEF Apart
<1>2. Proper(calls, late, t, Idle) /\ (t \in CallIds => Proper(calls, late, t, Done))
  BY IdleProper, BillingAssumption
<1>3. QED BY <1>1, <1>2, PrivateStep

LEMMA GraceStep ==
  ASSUME BillingTxInv, NEW c \in CallIds, BecomesLate(c)
  PROVE  BillingTxInv'
<1>1. /\ UNCHANGED <<accounts, calls, tx>> /\ late \subseteq late' /\ late' \subseteq CallIds
      /\ late \in SUBSET CallIds
  BY DEF BecomesLate, BillingTxInv, Tables
<1>2. \A t \in Transactions : Proper(calls', late', t, tx'[t])
  <2>1. SUFFICES ASSUME NEW t \in Transactions
                 PROVE  Proper(calls, late', t, tx[t])
    BY <1>1
  <2>2. QED BY <1>1, OwnState, ProperKept
<1>3. Tables' /\ StatusFollowsJournal' /\ Exclusive'
  BY <1>1 DEF BillingTxInv, Tables, StatusFollowsJournal, Exclusive
<1>4. QED BY <1>1, <1>2, <1>3 DEF BillingTxInv

LEMMA WriteStatusStep ==
  ASSUME BillingTxInv, NEW c \in CallIds,
         NEW status \in {"succeeded", "failed"}, NEW usage \in Usages \cup {Null},
         NEW actual \in Nat \cup {Null}, NEW final \in {"settled", "released"},
         WriteStatus(c, status, usage, actual, final)
  PROVE  BillingTxInv'
<1> DEFINE row == [status |-> status, usage |-> usage]
           x == [stage |-> "settle", actual |-> actual, final |-> final,
                 seen |-> accounts[Payer[c]].row[c],
                 locked |-> [accounts |-> <<>>, calls |-> With(<<>>, c, row)]]
<1>1. row \in CallRecords /\ row.status # "running"
  BY BillingAssumption DEF CallRecords
<1> HIDE DEF row
<1>2. DOMAIN With(<<>>, c, row) = {c} /\ With(<<>>, c, row)[c] = row
  BY OneRow
<1>3. /\ {"stage", "locked"} \subseteq DOMAIN x /\ DOMAIN x.locked = {"accounts", "calls"}
      /\ x.stage = "settle" /\ x.actual = actual /\ x.final = final
      /\ DOMAIN x.locked.accounts = {} /\ DOMAIN x.locked.calls = {c}
      /\ x.locked.calls[c] = row
  BY <1>2, NoRowsLocked
<1>4. tx' = [tx EXCEPT ![c] = x] /\ UNCHANGED <<accounts, calls, late>> /\ CallFree(c, c)
  BY DEF WriteStatus, Become, row
<1> HIDE DEF x
<1>5. Versions(x)
  BY <1>1, <1>3 DEF Versions
<1>6. Proper(calls, late, c, x)
  BY <1>3, <1>5, BillingAssumption DEF Proper, Finishing
<1>7. \A o \in Transactions \ {c} : Apart(x, tx[o])
  BY <1>3, <1>4 DEF Apart, CallFree, CallHolders, CallRows
<1>8. QED BY <1>4, <1>6, <1>7, PrivateStep DEF Transactions

LEMMA SettleStep ==
  ASSUME BillingTxInv, NEW c \in CallIds, SettleCall(c)
  PROVE  BillingTxInv'
<1> DEFINE u == Payer[c]
           after == Settled(accounts[u], c, tx[c].actual, tx[c].final)
           locked == [tx[c].locked EXCEPT !.accounts = With(<<>>, u, after)]
<1>1. /\ tx[c].stage = "settle" /\ AccountFree(c, u)
      /\ CommitAs(c, locked, Done)
  BY DEF SettleCall
<1>2. /\ tx[c].actual \in Nat \cup {Null} /\ tx[c].final \in {"settled", "released"}
      /\ DOMAIN tx[c].locked.calls = {c} /\ Versions(tx[c])
  BY <1>1, OwnState DEF Finishing, Idle, Done, Transactions
<1>3. u \in UserIds /\ c \in PaidBy(u) /\ Sound(u, accounts[u]) /\ accounts[u] \in AccountRows(u)
  BY BillingAssumption DEF PaidBy, BillingTxInv, Tables, Sound
<1>4. Charged(u, accounts[u], c, tx[c].actual, after) /\ Sound(u, after)
  BY <1>2, <1>3, SettledRows, SettledSound
<1> HIDE DEF after
<1>5. /\ DOMAIN locked.accounts = {u} /\ locked.accounts[u] = after
      /\ locked.calls = tx[c].locked.calls
  <2>1. DOMAIN With(<<>>, u, after) = {u} /\ With(<<>>, u, after)[u] = after
    BY OneRow
  <2>2. DOMAIN tx[c].locked = {"accounts", "calls"}
    BY <1>2 DEF Versions
  <2>3. QED BY <2>1, <2>2
<1> HIDE DEF locked
<1>6. \A d \in DOMAIN locked.calls : /\ locked.calls[d] \in CallRecords
                                     /\ locked.calls[d].status # "running"
                                     /\ Payer[d] \in DOMAIN locked.accounts
  BY <1>2, <1>5 DEF Versions
<1>7. \A o \in Transactions \ {c} : DOMAIN locked.accounts \cap DOMAIN tx[o].locked.accounts = {}
  BY <1>1, <1>5 DEF AccountFree, AccountHolders, Accounts
<1>8. ASSUME NEW d \in CallIds, Payer[d] \in DOMAIN locked.accounts
      PROVE  (calls[d].status = "running" /\ d \notin DOMAIN locked.calls)
               <=> locked.accounts[Payer[d]].row[d].state = "pending_usage"
  <2>1. Payer[d] = u /\ d \in PaidBy(u)
    BY <1>5, <1>8 DEF PaidBy
  <2>2. CASE d = c
    BY <1>2, <1>4, <1>5, <2>1, <2>2 DEF Charged
  <2>3. CASE d # c
    <3>1. after.row[d] = accounts[u].row[d]
      BY <1>4, <2>1, <2>3 DEF Charged
    <3>2. QED BY <1>2, <1>5, <2>1, <2>3, <3>1 DEF BillingTxInv, StatusFollowsJournal
  <2>4. QED BY <2>2, <2>3
<1>9. QED BY <1>1, <1>2, <1>3, <1>4, <1>5, <1>6, <1>7, <1>8, CommitStep DEF Transactions

LEMMA StartSweepStep ==
  ASSUME BillingTxInv, NEW s \in Sweeps, StartSweep(s)
  PROVE  BillingTxInv'
<1> DEFINE todo == {c \in CallIds : Unresolved(c) /\ (c \in late \/ calls[c].status # "running")}
           x == [stage |-> "sweep", late |-> late, locked |-> NoLocks, todo |-> todo]
<1>1. tx' = [tx EXCEPT ![s] = x] /\ UNCHANGED <<accounts, calls, late>>
  BY DEF StartSweep, Become
<1>2. todo \subseteq CallIds
  OBVIOUS
<1> HIDE DEF todo
<1>3. /\ {"stage", "locked", "todo", "late"} \subseteq DOMAIN x
      /\ DOMAIN x.locked = {"accounts", "calls"}
      /\ x.stage = "sweep" /\ x.late = late /\ x.todo = todo
      /\ DOMAIN x.locked.accounts = {} /\ DOMAIN x.locked.calls = {}
  BY NoRowsLocked DEF NoLocks
<1> HIDE DEF x
<1>4. Versions(x) /\ Covered(calls, x) /\ Sweeping(calls, late, x)
  BY <1>2, <1>3 DEF Versions, Covered, Sweeping
<1>5. Proper(calls, late, s, x)
  BY <1>4, BillingAssumption DEF Proper
<1>6. \A o \in Transactions \ {s} : Apart(x, tx[o])
  BY <1>3 DEF Apart
<1>7. QED BY <1>1, <1>5, <1>6, PrivateStep DEF Transactions

LEMMA StartReviewStep ==
  ASSUME BillingTxInv, NEW r \in Reviews, NEW c \in CallIds,
         NEW actual \in Usages, StartReview(r, c, actual)
  PROVE  BillingTxInv'
<1> DEFINE x == [stage |-> "review", at |-> c, actual |-> actual, locked |-> NoLocks]
<1>1. tx' = [tx EXCEPT ![r] = x] /\ UNCHANGED <<accounts, calls, late>>
  BY DEF StartReview, Become
<1>2. /\ {"stage", "locked", "at", "actual"} \subseteq DOMAIN x
      /\ DOMAIN x.locked = {"accounts", "calls"}
      /\ x.stage = "review" /\ x.at = c /\ x.actual = actual
      /\ DOMAIN x.locked.accounts = {} /\ DOMAIN x.locked.calls = {}
  BY NoRowsLocked DEF NoLocks
<1> HIDE DEF x
<1>3. Versions(x) /\ Covered(calls, x) /\ Reviewing(calls, late, x)
  BY <1>2 DEF Versions, Covered, Reviewing
<1>4. Proper(calls, late, r, x)
  BY <1>3, BillingAssumption DEF Proper
<1>5. \A o \in Transactions \ {r} : Apart(x, tx[o])
  BY <1>2 DEF Apart
<1>6. QED BY <1>1, <1>4, <1>5, PrivateStep DEF Transactions

\* Of a sweep between two rows, and of an account it has locked or finds free.
LEMMA SweepSees ==
  ASSUME BillingTxInv, NEW s \in Sweeps, tx[s].stage = "sweep",
         NEW u \in UserIds
  PROVE  /\ Sound(u, AccountSeenBy(s, u))
         /\ Matches(calls, tx[s], u, AccountSeenBy(s, u), {})
<1>1. Tables /\ Versions(tx[s]) /\ Covered(calls, tx[s])
  BY OwnState DEF BillingTxInv, Transactions
<1>2. CASE u \in DOMAIN Accounts(s)
  <2>1. AccountSeenBy(s, u) = tx[s].locked.accounts[u] /\ u \in DOMAIN tx[s].locked.accounts
    BY <1>1, <1>2, AccountSeen DEF Accounts
  <2>2. InHand(tx[s]) = {}
    BY DEF InHand
  <2>3. QED BY <1>1, <2>1, <2>2 DEF Versions, Covered
<1>3. CASE u \notin DOMAIN Accounts(s)
  <2>1. AccountSeenBy(s, u) = accounts[u]
    BY <1>1, <1>3, AccountSeen
  <2>2. \A c \in PaidBy(u) : c \notin DOMAIN tx[s].locked.calls
    BY <1>1, <1>3 DEF Covered, PaidBy, Accounts
  <2>3. \A c \in PaidBy(u) : calls[c].status = "running" <=> accounts[u].row[c].state = "pending_usage"
    BY DEF BillingTxInv, StatusFollowsJournal, PaidBy
  <2>4. QED BY <1>1, <2>1, <2>2, <2>3 DEF Tables, Matches, SeenRunning
<1>4. QED BY <1>2, <1>3

LEMMA RefreshStep ==
  ASSUME BillingTxInv, NEW s \in Sweeps, NEW c \in CallIds, RefreshCandidate(s, c)
  PROVE  BillingTxInv'
<1> DEFINE u == Payer[c]
           acc == AccountSeenBy(s, u)
           running == calls[c].status = "running"
           after == IF acc.row[c].state = "pending_usage" /\ (c \in tx[s].late \/ calls[c].status # "running")
                      THEN Settled(acc, c, TerminalUsage(calls[c]), "settled")
                      ELSE acc
           newAccounts == With(tx[s].locked.accounts, u, after)
           locked == [tx[s].locked EXCEPT !.accounts = newAccounts]
           todo == tx[s].todo \ {c}
           closes == ~Terminal(acc.row[c]) /\ c \in tx[s].late /\ calls[c].status = "running"
           x == IF closes
                  THEN [stage |-> "close", next |-> "sweep", at |-> c, late |-> tx[s].late,
                        todo |-> todo, locked |-> locked]
                  ELSE [tx[s] EXCEPT !.todo = todo, !.locked = locked]
<1>1. /\ tx[s].stage = "sweep" /\ c \in NextCandidates(tx[s].todo) /\ AccountFree(s, u)
      /\ tx' = [tx EXCEPT ![s] = x] /\ UNCHANGED <<accounts, calls, late>>
  BY DEF RefreshCandidate, Become
<1>2. u \in UserIds /\ c \in PaidBy(u)
  BY BillingAssumption DEF PaidBy
<1>3. /\ Tables /\ Versions(tx[s]) /\ Covered(calls, tx[s]) /\ Sweeping(calls, late, tx[s])
      /\ \A o \in Transactions \ {s} : Apart(tx[s], tx[o])
      /\ s \in Transactions /\ s \notin CallIds \cup Reviews
  BY OwnState, BillingAssumption DEF BillingTxInv, Transactions
<1>4. Sound(u, acc) /\ acc \in AccountRows(u) /\ Matches(calls, tx[s], u, acc, {})
  BY <1>1, <1>2, SweepSees DEF Sound
<1>5. /\ {"todo", "late"} \subseteq DOMAIN tx[s]
      /\ tx[s].late \subseteq late
      /\ tx[s].todo \subseteq CallIds \ DOMAIN tx[s].locked.calls
      /\ \A v \in DOMAIN tx[s].locked.accounts, d \in tx[s].todo : v <= Payer[d]
  BY <1>1, <1>3 DEF Sweeping, Idle
<1>6. c \in tx[s].todo /\ \A d \in tx[s].todo : u <= Payer[d]
  BY <1>1 DEF NextCandidates
<1>7. running <=> acc.row[c].state = "pending_usage"
  BY <1>2, <1>4, <1>5, <1>6 DEF Matches, SeenRunning
<1>8. IF closes THEN /\ after.row[c].state = "needs_reconciliation" /\ running
                     /\ Sound(u, after)
                     /\ \A d \in PaidBy(u) \ {c} : after.row[d] = acc.row[d]
                ELSE after = acc
  <2>1. CASE closes
    <3>1. TerminalUsage(calls[c]) = Null
      BY <2>1 DEF TerminalUsage
    <3>2. after = Settled(acc, c, Null, "settled")
      BY <1>7, <2>1, <3>1
    <3> HIDE DEF acc, after
    <3>3. Charged(u, acc, c, Null, Settled(acc, c, Null, "settled"))
      BY <1>2, <1>4, SettledRows
    <3>4. Sound(u, after)
      BY <1>2, <1>4, <3>2, SettledSound
    <3>5. Null \notin Nat
      BY BillingAssumption
    <3>6. QED BY <2>1, <3>2, <3>3, <3>4, <3>5 DEF Charged
  <2>2. CASE ~closes
    BY <1>7, <2>2 DEF Terminal
  <2>3. QED BY <2>1, <2>2
<1> HIDE DEF acc, after, todo
<1>9. /\ DOMAIN newAccounts = DOMAIN tx[s].locked.accounts \cup {u} /\ newAccounts[u] = after
      /\ \A v \in DOMAIN tx[s].locked.accounts \ {u} : newAccounts[v] = tx[s].locked.accounts[v]
  BY DEF With
<1> HIDE DEF newAccounts
<1>10. /\ DOMAIN locked = {"accounts", "calls"}
       /\ locked.accounts = newAccounts /\ locked.calls = tx[s].locked.calls
  BY <1>3 DEF Versions
<1> HIDE DEF locked
<1>11. /\ {"stage", "locked", "todo", "late"} \subseteq DOMAIN x
       /\ x.locked = locked /\ x.todo = todo /\ x.late = tx[s].late
       /\ closes => x.stage = "close" /\ x.next = "sweep" /\ x.at = c
       /\ ~closes => x.stage = "sweep"
  BY <1>1, <1>3, <1>5 DEF Versions
<1>12. todo = tx[s].todo \ {c}
  BY DEF todo
<1> HIDE DEF x, closes
<1>13. Sound(u, after)
  BY <1>4, <1>8
<1>14. Versions(x)
  BY <1>2, <1>3, <1>9, <1>10, <1>11, <1>13 DEF Versions
<1>15. \A d \in CallIds : SeenRunning(calls, x, d) <=> SeenRunning(calls, tx[s], d)
  BY <1>10, <1>11 DEF SeenRunning
<1>16. InHand(x) = IF closes THEN {c} ELSE {}
  BY <1>11 DEF InHand
<1>17. Covered(calls, x)
  <2>1. \A d \in DOMAIN x.locked.calls : Payer[d] \in DOMAIN x.locked.accounts
    BY <1>3, <1>9, <1>10, <1>11 DEF Covered
  <2>2. ASSUME NEW v \in DOMAIN x.locked.accounts
        PROVE  Matches(calls, x, v, x.locked.accounts[v], InHand(x))
    <3>1. CASE v = u
      <4>1. Matches(calls, tx[s], u, after, InHand(x))
        BY <1>4, <1>8, <1>16 DEF Matches
      <4>2. QED BY <1>9, <1>10, <1>11, <1>15, <3>1, <4>1 DEF Matches, PaidBy
    <3>2. CASE v # u
      <4>1. Matches(calls, tx[s], v, tx[s].locked.accounts[v], {})
        BY <1>1, <1>3, <1>9, <1>10, <1>11, <2>2, <3>2 DEF Covered, InHand
      <4>2. x.locked.accounts[v] = tx[s].locked.accounts[v]
        BY <1>9, <1>10, <1>11, <2>2, <3>2
      <4>3. QED BY <1>15, <4>1, <4>2 DEF Matches, PaidBy
    <3>3. QED BY <3>1, <3>2
  <2>3. QED BY <2>1, <2>2 DEF Covered
<1>18. Sweeping(calls, late, x)
  <2>1. \A v \in DOMAIN x.locked.accounts, d \in x.todo : v <= Payer[d]
    BY <1>5, <1>6, <1>9, <1>10, <1>11, <1>12
  <2>2. x.todo \subseteq CallIds \ DOMAIN x.locked.calls
    BY <1>5, <1>10, <1>11, <1>12
  <2>3. ASSUME closes
        PROVE  Closing(calls, late, x)
    <3>1. c \in tx[s].late
      BY <2>3 DEF closes
    <3>2. SeenRunning(calls, x, c)
      BY <1>5, <1>6, <1>8, <1>10, <1>11, <2>3 DEF SeenRunning
    <3>3. QED BY <1>5, <1>9, <1>10, <1>11, <2>3, <3>1, <3>2 DEF Closing
  <2>4. closes => x.locked.accounts[Payer[x.at]].row[x.at].state = "needs_reconciliation"
    BY <1>8, <1>9, <1>10, <1>11
  <2>5. QED BY <1>5, <1>11, <1>12, <2>1, <2>2, <2>3, <2>4 DEF Sweeping
<1>19. Proper(calls, late, s, x)
  BY <1>3, <1>14, <1>17, <1>18 DEF Proper
<1>20. \A o \in Transactions \ {s} : Apart(x, tx[o])
  BY <1>1, <1>3, <1>9, <1>10, <1>11 DEF Apart, AccountFree, AccountHolders, Accounts
<1>21. QED BY <1>1, <1>3, <1>19, <1>20, PrivateStep

LEMMA CloseStep ==
  ASSUME BillingTxInv, NEW t \in Sweeps \cup Reviews, CloseStale(t)
  PROVE  BillingTxInv'
<1> DEFINE c == tx[t].at
           newCalls == With(tx[t].locked.calls, c, Closed(calls[c]))
           x == [tx[t] EXCEPT !.stage = tx[t].next, !.locked.calls = newCalls]
<1>1. /\ tx[t].stage = "close" /\ CallFree(t, c) /\ UNCHANGED <<accounts, calls, late>>
  BY DEF CloseStale
<1>2. /\ Tables /\ Versions(tx[t]) /\ Covered(calls, tx[t])
      /\ t \in Sweeps => Sweeping(calls, late, tx[t])
      /\ t \in Reviews => Reviewing(calls, late, tx[t])
      /\ \A o \in Transactions \ {t} : Apart(tx[t], tx[o])
      /\ t \in Transactions /\ t \notin CallIds /\ ~(t \in Sweeps /\ t \in Reviews)
  BY OwnState, BillingAssumption DEF BillingTxInv, Transactions
<1>3. /\ Closing(calls, late, tx[t])
      /\ t \in Sweeps => tx[t].next = "sweep"
      /\ t \in Reviews => tx[t].next = "decide"
  <2>1. tx[t] # Idle
    BY <1>1 DEF Idle
  <2>2. CASE t \in Sweeps
    BY <1>1, <1>2, <2>1, <2>2 DEF Sweeping
  <2>3. CASE t \in Reviews
    BY <1>1, <1>2, <2>1, <2>3 DEF Reviewing
  <2>4. QED BY <1>2, <2>2, <2>3
<1>4. c \in CallIds /\ calls[c].status = "running" /\ c \notin DOMAIN tx[t].locked.calls
  BY <1>2, <1>3 DEF Closing, SeenRunning, Tables
<1>5. tx' = [tx EXCEPT ![t] = x]
  BY <1>4 DEF CloseStale, Become
<1>6. Closed(calls[c]) \in CallRecords /\ Closed(calls[c]).status # "running"
  BY <1>2, <1>4 DEF Closed, Tables, CallRecords
<1>7. /\ DOMAIN newCalls = DOMAIN tx[t].locked.calls \cup {c} /\ newCalls[c] = Closed(calls[c])
      /\ \A d \in DOMAIN tx[t].locked.calls \ {c} : newCalls[d] = tx[t].locked.calls[d]
  BY DEF With
<1> HIDE DEF newCalls
<1>8. /\ DOMAIN x = DOMAIN tx[t] /\ x.stage = tx[t].next
      /\ DOMAIN x.locked = {"accounts", "calls"}
      /\ x.locked.accounts = tx[t].locked.accounts /\ x.locked.calls = newCalls
      /\ \A f \in DOMAIN x \ {"stage", "locked"} : x[f] = tx[t][f]
  BY <1>2 DEF Versions
<1> HIDE DEF x
<1>9. Versions(x)
  BY <1>2, <1>4, <1>6, <1>7, <1>8 DEF Versions
<1>10. \A d \in CallIds \ {c} : SeenRunning(calls, x, d) <=> SeenRunning(calls, tx[t], d)
  BY <1>7, <1>8 DEF SeenRunning
<1>11. ~SeenRunning(calls, x, c)
  BY <1>7, <1>8 DEF SeenRunning
<1>12. InHand(tx[t]) = {c}
  BY <1>1 DEF InHand
<1>13. \A d \in DOMAIN x.locked.calls : Payer[d] \in DOMAIN x.locked.accounts
  BY <1>2, <1>3, <1>7, <1>8 DEF Covered, Closing
<1>14. \A u \in DOMAIN x.locked.accounts : Matches(calls, x, u, x.locked.accounts[u], {c})
  BY <1>2, <1>8, <1>10, <1>12 DEF Covered, Matches, PaidBy
<1>15. ASSUME t \in Sweeps
       PROVE  Proper(calls, late, t, x)
  <2>1. tx[t] # Idle
    BY <1>1 DEF Idle
  <2>2. /\ {"todo", "late"} \subseteq DOMAIN tx[t]
        /\ tx[t].late \subseteq late /\ c \notin tx[t].todo
        /\ tx[t].todo \subseteq CallIds \ DOMAIN tx[t].locked.calls
        /\ \A v \in DOMAIN tx[t].locked.accounts, d \in tx[t].todo : v <= Payer[d]
        /\ tx[t].locked.accounts[Payer[c]].row[c].state = "needs_reconciliation"
    BY <1>1, <1>2, <1>15, <2>1 DEF Sweeping
  <2>3. x.stage = "sweep" /\ x.todo = tx[t].todo /\ x.late = tx[t].late
        /\ {"todo", "late"} \subseteq DOMAIN x
    BY <1>3, <1>8, <1>15, <2>2
  <2>4. Sweeping(calls, late, x)
    BY <1>7, <1>8, <2>2, <2>3 DEF Sweeping
  <2>5. ASSUME NEW u \in DOMAIN x.locked.accounts
        PROVE  Matches(calls, x, u, x.locked.accounts[u], {})
    <3>1. Matches(calls, x, u, x.locked.accounts[u], {c})
      BY <1>14
    <3>2. c \in PaidBy(u) => x.locked.accounts[u].row[c].state # "pending_usage"
      BY <1>8, <2>2 DEF PaidBy
    <3>3. QED BY <1>11, <3>1, <3>2 DEF Matches
  <2>6. InHand(x) = {}
    BY <2>3 DEF InHand
  <2>7. Covered(calls, x)
    BY <1>13, <2>5, <2>6 DEF Covered
  <2>8. QED BY <1>2, <1>9, <1>15, <2>4, <2>7 DEF Proper
<1>16. ASSUME t \in Reviews
       PROVE  Proper(calls, late, t, x)
  <2>1. tx[t] # Idle
    BY <1>1 DEF Idle
  <2>2. /\ {"at", "actual"} \subseteq DOMAIN tx[t]
        /\ tx[t].actual \in Usages
        /\ DOMAIN tx[t].locked.accounts = {Payer[c]}
    BY <1>1, <1>2, <1>16, <2>1 DEF Reviewing
  <2>3. x.stage = "decide" /\ x.at = c /\ x.actual = tx[t].actual
        /\ {"at", "actual"} \subseteq DOMAIN x
    BY <1>3, <1>8, <1>16, <2>2
  <2>4. Reviewing(calls, late, x)
    BY <1>4, <1>8, <1>11, <2>2, <2>3 DEF Reviewing
  <2>5. InHand(x) = {c}
    BY <2>3 DEF InHand
  <2>6. Covered(calls, x)
    BY <1>13, <1>14, <2>5 DEF Covered
  <2>7. QED BY <1>2, <1>9, <1>16, <2>4, <2>6 DEF Proper
<1>17. \A o \in Transactions \ {t} : Apart(x, tx[o])
  BY <1>1, <1>2, <1>7, <1>8 DEF Apart, CallFree, CallHolders, CallRows
<1>18. QED
  <2>1. Proper(calls, late, t, x)
    BY <1>15, <1>16
  <2>2. QED BY <1>1, <1>2, <1>5, <1>17, <2>1, PrivateStep

LEMMA EndSweepStep ==
  ASSUME BillingTxInv, NEW s \in Sweeps, EndSweep(s)
  PROVE  BillingTxInv'
<1> DEFINE locked == tx[s].locked
<1>1. tx[s].stage = "sweep" /\ CommitAs(s, locked, Idle)
  BY DEF EndSweep
<1>2. /\ Versions(tx[s]) /\ Covered(calls, tx[s]) /\ s \in Transactions
      /\ \A o \in Transactions \ {s} : Apart(tx[s], tx[o])
  BY OwnState DEF Transactions
<1>3. InHand(tx[s]) = {}
  BY <1>1 DEF InHand
<1>4. \A u \in DOMAIN locked.accounts : Matches(calls, tx[s], u, locked.accounts[u], {})
  BY <1>2, <1>3 DEF Covered
<1>5. ASSUME NEW c \in CallIds, Payer[c] \in DOMAIN locked.accounts
      PROVE  (calls[c].status = "running" /\ c \notin DOMAIN locked.calls)
               <=> locked.accounts[Payer[c]].row[c].state = "pending_usage"
  BY <1>4, <1>5 DEF Matches, PaidBy, SeenRunning
<1>6. /\ DOMAIN locked.accounts \subseteq UserIds
      /\ \A u \in DOMAIN locked.accounts : Sound(u, locked.accounts[u])
      /\ DOMAIN locked.calls \subseteq CallIds
      /\ \A c \in DOMAIN locked.calls : /\ locked.calls[c] \in CallRecords
                                        /\ locked.calls[c].status # "running"
                                        /\ Payer[c] \in DOMAIN locked.accounts
  BY <1>2 DEF Versions, Covered
<1>7. \A o \in Transactions \ {s} : DOMAIN locked.accounts \cap DOMAIN tx[o].locked.accounts = {}
  BY <1>2 DEF Apart
<1> HIDE DEF locked
<1>8. QED BY <1>1, <1>2, <1>5, <1>6, <1>7, CommitStep

LEMMA LockReviewedStep ==
  ASSUME BillingTxInv, NEW r \in Reviews, LockReviewed(r)
  PROVE  BillingTxInv'
<1> DEFINE c == tx[r].at
           u == Payer[c]
           closes == c \in late /\ calls[c].status = "running"
           newAccounts == With(<<>>, u, accounts[u])
           x == [stage |-> IF closes THEN "close" ELSE "decide", next |-> "decide",
                 at |-> c, actual |-> tx[r].actual,
                 locked |-> [accounts |-> newAccounts, calls |-> <<>>]]
<1>1. /\ tx[r].stage = "review" /\ AccountFree(r, u)
      /\ accounts[u].row[c].state = "pending_usage" => c \in late \/ calls[c].status # "running"
      /\ tx' = [tx EXCEPT ![r] = x] /\ UNCHANGED <<accounts, calls, late>>
  BY DEF LockReviewed, Become
<1>2. Reviewing(calls, late, tx[r]) /\ r \in Transactions
  BY OwnState DEF Transactions
<1>3. c \in CallIds /\ tx[r].actual \in Usages
  BY <1>1, <1>2 DEF Reviewing, Idle
<1>4. u \in UserIds /\ c \in PaidBy(u) /\ Sound(u, accounts[u])
  BY <1>3, BillingAssumption DEF PaidBy, BillingTxInv, Tables
<1>5. \A d \in PaidBy(u) : calls[d].status = "running" <=> accounts[u].row[d].state = "pending_usage"
  BY DEF BillingTxInv, StatusFollowsJournal, PaidBy
<1>6. DOMAIN newAccounts = {u} /\ newAccounts[u] = accounts[u]
  BY OneRow
<1> HIDE DEF newAccounts
<1>7. /\ {"stage", "locked", "at", "actual"} \subseteq DOMAIN x
      /\ DOMAIN x.locked = {"accounts", "calls"}
      /\ x.at = c /\ x.actual = tx[r].actual /\ x.next = "decide"
      /\ x.stage = IF closes THEN "close" ELSE "decide"
      /\ x.locked.accounts = newAccounts /\ DOMAIN x.locked.calls = {}
  BY NoRowsLocked
<1> HIDE DEF x
<1>8. Versions(x)
  BY <1>4, <1>6, <1>7 DEF Versions
<1>9. Matches(calls, x, u, x.locked.accounts[u], InHand(x))
  BY <1>5, <1>6, <1>7 DEF Matches, SeenRunning
<1>10. Covered(calls, x)
  BY <1>6, <1>7, <1>9 DEF Covered
<1>11. ~closes => calls[c].status # "running"
  BY <1>1, <1>4, <1>5
<1>12. Reviewing(calls, late, x)
  <2>1. closes => Closing(calls, late, x)
    BY <1>6, <1>7 DEF Closing, SeenRunning
  <2>2. ~closes => ~SeenRunning(calls, x, x.at)
    BY <1>7, <1>11 DEF SeenRunning
  <2>3. DOMAIN x.locked.accounts = {Payer[x.at]}
    BY <1>6, <1>7
  <2> HIDE DEF c, closes
  <2>4. QED BY <1>3, <1>7, <2>1, <2>2, <2>3 DEF Reviewing
<1>13. Proper(calls, late, r, x)
  BY <1>8, <1>10, <1>12, BillingAssumption DEF Proper
<1>14. \A o \in Transactions \ {r} : Apart(x, tx[o])
  BY <1>1, <1>6, <1>7 DEF Apart, AccountFree, AccountHolders, Accounts
<1>15. QED BY <1>1, <1>2, <1>13, <1>14, PrivateStep

LEMMA DecideStep ==
  ASSUME BillingTxInv, NEW r \in Reviews, Decide(r)
  PROVE  BillingTxInv'
<1> DEFINE c == tx[r].at
           u == Payer[c]
           acc == AccountSeenBy(r, u)
           after == Settled(acc, c, tx[r].actual, "settled")
           newAccounts == With(tx[r].locked.accounts, u, after)
           locked == [tx[r].locked EXCEPT !.accounts = newAccounts]
<1>1. tx[r].stage = "decide" /\ CommitAs(r, locked, Idle)
  BY DEF Decide
<1>2. /\ Tables /\ Versions(tx[r]) /\ Covered(calls, tx[r]) /\ Reviewing(calls, late, tx[r])
      /\ \A o \in Transactions \ {r} : Apart(tx[r], tx[o])
      /\ r \in Transactions
  BY OwnState DEF BillingTxInv, Transactions
<1>3. /\ c \in CallIds /\ tx[r].actual \in Usages
      /\ DOMAIN tx[r].locked.accounts = {u}
      /\ ~SeenRunning(calls, tx[r], c)
  <2>1. tx[r] # Idle
    BY <1>1 DEF Idle
  <2>2. QED BY <1>1, <1>2, <2>1 DEF Reviewing
<1>4. u \in UserIds /\ c \in PaidBy(u) /\ tx[r].actual \in Nat
  BY <1>3, BillingAssumption DEF PaidBy
<1>5. acc = tx[r].locked.accounts[u]
  BY <1>2, <1>3, <1>4, AccountSeen DEF Accounts
<1>6. Sound(u, acc) /\ acc \in AccountRows(u) /\ Matches(calls, tx[r], u, acc, {c})
  <2>1. InHand(tx[r]) = {c}
    BY <1>1 DEF InHand
  <2>2. Sound(u, acc)
    BY <1>2, <1>3, <1>5 DEF Versions
  <2>3. Matches(calls, tx[r], u, acc, {c})
    BY <1>2, <1>3, <1>5, <2>1 DEF Covered
  <2>4. QED BY <2>2, <2>3 DEF Sound
<1> HIDE DEF acc
<1>7. Charged(u, acc, c, tx[r].actual, after) /\ Sound(u, after)
  BY <1>4, <1>6, SettledRows, SettledSound
<1> HIDE DEF after
<1>8. DOMAIN newAccounts = {u} /\ newAccounts[u] = after
  BY <1>3 DEF With
<1> HIDE DEF newAccounts
<1>9. locked.accounts = newAccounts /\ locked.calls = tx[r].locked.calls
  BY <1>2 DEF Versions
<1> HIDE DEF locked
<1>10. ASSUME NEW d \in CallIds, Payer[d] \in DOMAIN locked.accounts
       PROVE  (calls[d].status = "running" /\ d \notin DOMAIN locked.calls)
                <=> locked.accounts[Payer[d]].row[d].state = "pending_usage"
  <2>1. Payer[d] = u /\ d \in PaidBy(u) /\ locked.accounts[u] = after
    BY <1>8, <1>9, <1>10 DEF PaidBy
  <2>2. CASE d = c
    BY <1>3, <1>7, <1>9, <2>1, <2>2 DEF Charged, SeenRunning
  <2>3. CASE d # c
    <3>1. after.row[d] = acc.row[d]
      BY <1>7, <2>1, <2>3 DEF Charged
    <3>2. QED BY <1>6, <1>9, <2>1, <2>3, <3>1 DEF Matches, SeenRunning
  <2>4. QED BY <2>2, <2>3
<1>11. /\ DOMAIN locked.accounts \subseteq UserIds
       /\ \A v \in DOMAIN locked.accounts : Sound(v, locked.accounts[v])
       /\ DOMAIN locked.calls \subseteq CallIds
       /\ \A d \in DOMAIN locked.calls : /\ locked.calls[d] \in CallRecords
                                         /\ locked.calls[d].status # "running"
                                         /\ Payer[d] \in DOMAIN locked.accounts
  BY <1>2, <1>3, <1>4, <1>7, <1>8, <1>9 DEF Versions, Covered
<1>12. \A o \in Transactions \ {r} : DOMAIN locked.accounts \cap DOMAIN tx[o].locked.accounts = {}
  BY <1>2, <1>3, <1>8, <1>9 DEF Apart
<1>13. QED BY <1>1, <1>2, <1>10, <1>11, <1>12, CommitStep

-----------------------------------------------------------------------------
(* The theorems.                                                           *)

LEMMA InitInv ==
  ASSUME TxInit
  PROVE  BillingTxInv
<1>1. ASSUME NEW u \in UserIds
      PROVE  Sound(u, accounts[u])
  <2>1. /\ Funds[u] \in Nat
        /\ accounts[u].funded = Funds[u] /\ accounts[u].available = Funds[u]
        /\ accounts[u].row = [c \in PaidBy(u) |-> Open]
        /\ accounts[u] = [funded |-> Funds[u], available |-> Funds[u],
                          row |-> [c \in PaidBy(u) |-> Open]]
    BY BillingAssumption DEF TxInit
  <2>2. Open \in Rows /\ ~Terminal(Open)
    BY DEF Open, Rows, Terminal
  <2>3. accounts[u] \in AccountRows(u)
    BY <2>1, <2>2 DEF AccountRows
  <2>4. {c \in PaidBy(u) : Terminal(accounts[u].row[c])} = {}
    BY <2>1, <2>2
  <2>5. Used(accounts[u]) = 0
    <3> DEFINE f == [c \in {c \in DOMAIN accounts[u].row : Terminal(accounts[u].row[c])}
                       |-> accounts[u].row[c].actual]
    <3>1. DOMAIN f = {}
      BY <2>1, <2>2
    <3>2. SumFunction(f) = 0
      BY <3>1, SumEmpty DEF SumFunction
    <3>3. QED BY <3>2 DEF Used
  <2>6. QED BY <2>1, <2>3, <2>4, <2>5, FS_EmptySet DEF Sound
<1>2. Tables
  <2>1. calls \in [CallIds -> CallRecords]
    BY DEF TxInit, CallRecords
  <2>2. QED BY <1>1, <2>1 DEF TxInit, Tables
<1>3. StatusFollowsJournal
  <2>1. ASSUME NEW c \in CallIds
        PROVE  /\ accounts[Payer[c]].row[c].state = "pending_usage"
               /\ calls[c].status = "running"
    <3>1. Payer[c] \in UserIds /\ c \in PaidBy(Payer[c])
      BY BillingAssumption DEF PaidBy
    <3>2. accounts[Payer[c]].row[c] = Open
      BY <3>1 DEF TxInit
    <3>3. QED BY <3>2 DEF TxInit, Open
  <2>2. QED BY <2>1 DEF StatusFollowsJournal
<1>4. Exclusive
  BY IdleProper DEF TxInit, Exclusive, Apart
<1>5. \A t \in Transactions : Proper(calls, late, t, tx[t])
  BY IdleProper DEF TxInit
<1>6. IsFiniteSet({s \in Sweeps : tx[s] # Idle})
  <2>1. {s \in Sweeps : tx[s] # Idle} = {}
    BY DEF TxInit, Transactions
  <2>2. QED BY <2>1, FS_EmptySet
<1>7. QED BY <1>2, <1>3, <1>4, <1>5, <1>6 DEF BillingTxInv

\* What the settled calls have used is a number.
LEMMA UsedType ==
  ASSUME NEW u \in UserIds, NEW acc, Sound(u, acc)
  PROVE  Used(acc) \in Nat
<1> DEFINE f == [c \in {c \in DOMAIN acc.row : Terminal(acc.row[c])} |-> acc.row[c].actual]
<1>1. DOMAIN acc.row = PaidBy(u) /\ \A c \in PaidBy(u) : acc.row[c].actual \in Nat \cup {Null}
  BY DEF Sound, AccountRows, Rows
<1>2. /\ DOMAIN f = {c \in PaidBy(u) : Terminal(acc.row[c])}
      /\ \A c \in DOMAIN f : f[c] = acc.row[c].actual
  BY <1>1
<1>3. Used(acc) = SumFunction(f)
  BY DEF Used
<1> HIDE DEF f
<1>4. IsFiniteSet(DOMAIN f) /\ \A c \in DOMAIN f : f[c] \in Nat
  BY <1>1, <1>2 DEF Sound
<1>5. QED BY <1>3, <1>4, SumType DEF SumFunction

LEMMA AdjustStep ==
  ASSUME BillingTxInv, NEW u \in UserIds, NEW delta \in Adjustments, AdjustAccount(u, delta)
  PROVE  BillingTxInv'
<1> DEFINE acc == accounts[u]
<1>1. Sound(u, acc) /\ delta \in Int
  BY BillingAssumption DEF BillingTxInv, Tables
<1>2. /\ accounts' = [accounts EXCEPT ![u].funded = @ + delta, ![u].available = @ + delta]
      /\ acc.available + delta >= 0
      /\ UNCHANGED <<calls, late, tx>>
  BY DEF AdjustAccount
<1>3. /\ DOMAIN accounts' = UserIds
      /\ accounts'[u] = [acc EXCEPT !.funded = @ + delta, !.available = @ + delta]
      /\ \A v \in UserIds \ {u} : accounts'[v] = accounts[v]
  BY <1>2 DEF BillingTxInv, Tables
<1>4. /\ acc.funded \in Nat /\ acc.available \in Nat /\ acc.row \in [PaidBy(u) -> Rows]
      /\ acc = [funded |-> acc.funded, available |-> acc.available, row |-> acc.row]
  BY <1>1 DEF Sound, AccountRows
<1>5. accounts'[u] = [funded |-> acc.funded + delta, available |-> acc.available + delta, row |-> acc.row]
  BY <1>3, <1>4
<1>6. accounts'[u].row = acc.row
  BY <1>5
<1>7. Used(accounts'[u]) = Used(acc) /\ Used(acc) \in Nat
  BY <1>1, <1>6, UsedType DEF Used
<1>8. acc.available = acc.funded - Used(acc)
  BY <1>1 DEF Sound
<1>9. acc.funded + delta \in Nat /\ acc.available + delta \in Nat
  BY <1>1, <1>2, <1>4, <1>7, <1>8
<1>10. Sound(u, accounts'[u])
  <2>1. accounts'[u] \in AccountRows(u)
    BY <1>4, <1>5, <1>9 DEF AccountRows
  <2>2. accounts'[u].available = accounts'[u].funded - Used(accounts'[u])
    BY <1>1, <1>4, <1>5, <1>7, <1>8
  <2>3. QED BY <1>1, <1>6, <2>1, <2>2 DEF Sound
<1>11. Tables'
  BY <1>2, <1>3, <1>10 DEF BillingTxInv, Tables
<1>12. StatusFollowsJournal'
  <2>1. \A c \in CallIds : accounts'[Payer[c]].row = accounts[Payer[c]].row
    BY <1>3, <1>6, BillingAssumption
  <2>2. QED BY <1>2, <2>1 DEF BillingTxInv, StatusFollowsJournal
<1>13. QED BY <1>2, <1>11, <1>12 DEF BillingTxInv, Exclusive

LEMMA StepInv ==
  ASSUME BillingTxInv, [TxNext]_txVars
  PROVE  BillingTxInv'
<1>1. CASE UNCHANGED txVars
  BY <1>1 DEF txVars, BillingTxInv, Tables, StatusFollowsJournal, Exclusive
<1>2. ASSUME NEW c \in CallIds, FinishCall(c)
      PROVE  BillingTxInv'
  <2>1. ASSUME NEW status \in {"succeeded", "failed"}, NEW n \in Usages \cup {Null},
               WriteStatus(c, status, n, n, "settled")
        PROVE  BillingTxInv'
    <3>1. n \in Nat \cup {Null}
      BY BillingAssumption
    <3>2. QED BY <2>1, <3>1, WriteStatusStep
  <2>2. CASE WriteStatus(c, "failed", Null, 0, "released")
    BY <2>2, WriteStatusStep
  <2>3. CASE SettleCall(c)
    BY <2>3, SettleStep
  <2>4. CASE Vanish(c)
    BY <2>4, GiveUp DEF Vanish, Become, Transactions
  <2>5. QED BY <1>2, <2>1, <2>2, <2>3, <2>4 DEF FinishCall
<1>3. ASSUME NEW c \in CallIds, BecomesLate(c)
      PROVE  BillingTxInv'
  BY <1>3, GraceStep
<1>4. ASSUME NEW s \in Sweeps, Sweep(s)
      PROVE  BillingTxInv'
  BY <1>4, StartSweepStep, RefreshStep, EndSweepStep DEF Sweep
<1>5. ASSUME NEW r \in Reviews, Review(r)
      PROVE  BillingTxInv'
  BY <1>5, StartReviewStep, LockReviewedStep, DecideStep DEF Review
<1>6. ASSUME NEW t \in Sweeps \cup Reviews, CloseStale(t)
      PROVE  BillingTxInv'
  BY <1>6, CloseStep
<1>7. ASSUME NEW t \in Transactions, Abort(t)
      PROVE  BillingTxInv'
  BY <1>7, GiveUp DEF Abort, Become
<1>8. ASSUME NEW u \in UserIds, NEW delta \in Adjustments, AdjustAccount(u, delta)
      PROVE  BillingTxInv'
  BY <1>8, AdjustStep
<1>9. QED BY <1>1, <1>2, <1>3, <1>4, <1>5, <1>6, <1>7, <1>8 DEF TxNext

THEOREM BillingTxInvariant == TxSpec => []BillingTxInv
<1>1. TxInit => BillingTxInv
  BY InitInv
<1>2. BillingTxInv /\ [TxNext]_txVars => BillingTxInv'
  BY StepInv
<1>3. QED BY <1>1, <1>2, PTL DEF TxSpec

\* Every version of a row has its shape, no balance is negative and no row is
\* locked twice.
THEOREM BillingTxType == TxSpec => []TxTypeOK
<1>1. BillingTxInv => TxTypeOK
  <2>1. SUFFICES ASSUME BillingTxInv
                 PROVE  TxTypeOK
    OBVIOUS
  <2>2. ASSUME NEW t \in Transactions
        PROVE  /\ \A u \in DOMAIN Accounts(t) : Accounts(t)[u] \in AccountRows(u) /\ AccountFree(t, u)
               /\ \A c \in DOMAIN CallRows(t) : CallRows(t)[c] \in CallRecords /\ CallFree(t, c)
    <3>1. Versions(tx[t]) /\ \A o \in Transactions \ {t} : Apart(tx[t], tx[o])
      BY <2>1, OwnState
    <3>2. \A u \in DOMAIN Accounts(t) : Accounts(t)[u] \in AccountRows(u)
      BY <3>1 DEF Versions, Sound, Accounts
    <3>3. \A c \in DOMAIN CallRows(t) : CallRows(t)[c] \in CallRecords
      BY <3>1 DEF Versions, CallRows
    <3>4. \A u \in DOMAIN Accounts(t) : AccountFree(t, u)
      BY <3>1 DEF Apart, AccountFree, AccountHolders, Accounts
    <3>5. \A c \in DOMAIN CallRows(t) : CallFree(t, c)
      BY <3>1 DEF Apart, CallFree, CallHolders, CallRows
    <3>6. QED BY <3>2, <3>3, <3>4, <3>5
  <2>3. \A u \in UserIds : accounts[u] \in AccountRows(u)
    BY <2>1 DEF BillingTxInv, Tables, Sound
  <2>4. QED BY <2>1, <2>2, <2>3 DEF TxTypeOK, BillingTxInv, Tables
<1>2. QED BY <1>1, BillingTxInvariant, PTL

\* A balance is what the user started with less what the settled calls used,
\* each charged once, whichever of finish(), sweep and review came first.
THEOREM BillingTxCharges == TxSpec => []ChargedOnce
<1>1. BillingTxInv => ChargedOnce
  BY DEF BillingTxInv, Tables, Sound, ChargedOnce
<1>2. QED BY <1>1, BillingTxInvariant, PTL

\* A call is shown running exactly as long as its row awaits its usage.
THEOREM BillingTxStatus == TxSpec => []StatusFollowsJournal
<1>1. BillingTxInv => StatusFollowsJournal
  BY DEF BillingTxInv
<1>2. QED BY <1>1, BillingTxInvariant, PTL

-----------------------------------------------------------------------------
(* What a version may differ in from what is committed, and what a commit  *)
(* may change.                                                             *)

\* acc differs from base, as a version of an account of u that is not yet
\* settled by the decision of an administrator may: in rows that await usage.
Carries(base, u, acc) ==
  /\ acc.funded = base.funded
  /\ \A c \in PaidBy(u) : base.row[c].state # "pending_usage" => acc.row[c] = base.row[c]

\* ... and as what is committed in the place of base may: in rows not settled.
KeepsBills(base, u, acc) ==
  /\ acc.funded = base.funded
  /\ \A c \in PaidBy(u) : Terminal(base.row[c]) => acc.row[c] = base.row[c]

CarriesAll(x) ==
  \A u \in DOMAIN x.locked.accounts : Carries(accounts[u], u, x.locked.accounts[u])

VersionsCarry == \A t \in Transactions : CarriesAll(tx[t])

\* A step of t that commits it.
CommittedBy(t) ==
  /\ \A u \in UserIds : KeepsBills(accounts[u], u, accounts'[u])
  /\ \A o \in Transactions \ {t} :
       tx'[o] = tx[o] /\ \A u \in DOMAIN tx[o].locked.accounts : accounts'[u] = accounts[u]
  /\ DOMAIN tx'[t].locked.accounts = {}

LEMMA PrivateCarries ==
  ASSUME BillingTxInv, VersionsCarry, accounts' = accounts,
         NEW t \in Transactions, NEW x, tx' = [tx EXCEPT ![t] = x], CarriesAll(x)
  PROVE  VersionsCarry'
<1>1. tx'[t] = x /\ \A o \in Transactions \ {t} : tx'[o] = tx[o]
  BY DEF BillingTxInv, Tables
<1>2. QED BY <1>1 DEF VersionsCarry, CarriesAll

\* A transaction that holds no account carries nothing that differs.
LEMMA NothingCarried ==
  ASSUME NEW x, DOMAIN x.locked.accounts = {}
  PROVE  CarriesAll(x)
BY DEF CarriesAll

\* A settlement leaves alone what is settled, and other calls altogether.
LEMMA SettledKeeps ==
  ASSUME NEW u \in UserIds, NEW base, NEW acc \in AccountRows(u), NEW c \in PaidBy(u),
         NEW actual \in Nat \cup {Null}, NEW final \in {"settled", "released"}
  PROVE  /\ KeepsBills(base, u, acc) => KeepsBills(base, u, Settled(acc, c, actual, final))
         /\ Carries(base, u, acc) /\ acc.row[c].state = "pending_usage"
              => Carries(base, u, Settled(acc, c, actual, final))
<1> DEFINE after == Settled(acc, c, actual, final)
<1>1. Charged(u, acc, c, actual, after)
  BY SettledRows
<1>2. Terminal(acc.row[c]) => after = acc
  BY DEF Settled
<1> HIDE DEF after
<1>3. KeepsBills(base, u, acc) => KeepsBills(base, u, after)
  BY <1>1, <1>2 DEF KeepsBills, Charged
<1>4. Carries(base, u, acc) /\ acc.row[c].state = "pending_usage" => Carries(base, u, after)
  BY <1>1 DEF Carries, Charged
<1>5. QED BY <1>3, <1>4 DEF after

LEMMA CarriesKeeps ==
  ASSUME NEW base, NEW u, NEW acc, Carries(base, u, acc)
  PROVE  KeepsBills(base, u, acc)
BY DEF Carries, KeepsBills, Terminal

\* A commit of versions that keep the bills.
LEMMA CommitKeeps ==
  ASSUME BillingTxInv, NEW t \in Transactions, NEW x \in {Idle, Done}, NEW locked,
         CommitAs(t, locked, x),
         \A u \in DOMAIN locked.accounts : KeepsBills(accounts[u], u, locked.accounts[u]),
         \A o \in Transactions \ {t} :
           DOMAIN locked.accounts \cap DOMAIN tx[o].locked.accounts = {}
  PROVE  CommittedBy(t)
<1>1. /\ \A u \in UserIds : accounts'[u] = IF u \in DOMAIN locked.accounts THEN locked.accounts[u]
                                                                      ELSE accounts[u]
      /\ tx' = [tx EXCEPT ![t] = x] /\ DOMAIN tx = Transactions
  BY DEF BillingTxInv, Tables, CommitAs, Overlay, Become
<1>2. \A u \in UserIds : KeepsBills(accounts[u], u, accounts'[u])
  BY <1>1 DEF KeepsBills
<1>3. ASSUME NEW o \in Transactions \ {t}
      PROVE  tx'[o] = tx[o] /\ \A u \in DOMAIN tx[o].locked.accounts : accounts'[u] = accounts[u]
  <2>1. DOMAIN tx[o].locked.accounts \subseteq UserIds
    BY OwnState DEF Versions
  <2>2. QED BY <1>1, <2>1
<1>4. tx'[t] = x /\ DOMAIN x.locked.accounts = {}
  BY <1>1, IdleProper
<1>5. QED BY <1>2, <1>3, <1>4 DEF CommittedBy

LEMMA SettleCommits ==
  ASSUME BillingTxInv, NEW c \in CallIds, SettleCall(c)
  PROVE  CommittedBy(c)
<1> DEFINE u == Payer[c]
           after == Settled(accounts[u], c, tx[c].actual, tx[c].final)
           locked == [tx[c].locked EXCEPT !.accounts = With(<<>>, u, after)]
<1>1. tx[c].stage = "settle" /\ AccountFree(c, u) /\ CommitAs(c, locked, Done)
  BY DEF SettleCall
<1>2. /\ tx[c].actual \in Nat \cup {Null} /\ tx[c].final \in {"settled", "released"}
      /\ Versions(tx[c]) /\ c \in Transactions
  BY <1>1, OwnState DEF Finishing, Idle, Done, Transactions
<1>3. u \in UserIds /\ c \in PaidBy(u) /\ accounts[u] \in AccountRows(u)
  BY BillingAssumption DEF PaidBy, BillingTxInv, Tables, Sound
<1>4. KeepsBills(accounts[u], u, accounts[u])
  BY DEF KeepsBills
<1>5. KeepsBills(accounts[u], u, after)
  BY <1>2, <1>3, <1>4, SettledKeeps
<1> HIDE DEF after
<1>6. DOMAIN locked.accounts = {u} /\ locked.accounts[u] = after
  <2>1. DOMAIN With(<<>>, u, after) = {u} /\ With(<<>>, u, after)[u] = after
    BY OneRow
  <2>2. DOMAIN tx[c].locked = {"accounts", "calls"}
    BY <1>2 DEF Versions
  <2>3. QED BY <2>1, <2>2
<1> HIDE DEF locked
<1>7. \A o \in Transactions \ {c} : DOMAIN locked.accounts \cap DOMAIN tx[o].locked.accounts = {}
  BY <1>1, <1>6 DEF AccountFree, AccountHolders, Accounts
<1>8. QED BY <1>1, <1>2, <1>5, <1>6, <1>7, CommitKeeps

LEMMA EndSweepCommits ==
  ASSUME BillingTxInv, VersionsCarry, NEW s \in Sweeps, EndSweep(s)
  PROVE  CommittedBy(s)
<1>1. CommitAs(s, tx[s].locked, Idle) /\ s \in Transactions
  BY DEF EndSweep, Transactions
<1>2. \A u \in DOMAIN tx[s].locked.accounts : KeepsBills(accounts[u], u, tx[s].locked.accounts[u])
  BY <1>1, CarriesKeeps DEF VersionsCarry, CarriesAll
<1>3. \A o \in Transactions \ {s} :
        DOMAIN tx[s].locked.accounts \cap DOMAIN tx[o].locked.accounts = {}
  BY <1>1, OwnState DEF Apart
<1>4. QED BY <1>1, <1>2, <1>3, CommitKeeps

LEMMA DecideCommits ==
  ASSUME BillingTxInv, VersionsCarry, NEW r \in Reviews, Decide(r)
  PROVE  CommittedBy(r)
<1> DEFINE c == tx[r].at
           u == Payer[c]
           acc == AccountSeenBy(r, u)
           after == Settled(acc, c, tx[r].actual, "settled")
           newAccounts == With(tx[r].locked.accounts, u, after)
           locked == [tx[r].locked EXCEPT !.accounts = newAccounts]
<1>1. tx[r].stage = "decide" /\ CommitAs(r, locked, Idle)
  BY DEF Decide
<1>2. /\ Tables /\ Versions(tx[r]) /\ Reviewing(calls, late, tx[r])
      /\ \A o \in Transactions \ {r} : Apart(tx[r], tx[o])
      /\ r \in Transactions
  BY OwnState DEF BillingTxInv, Transactions
<1>3. /\ c \in CallIds /\ tx[r].actual \in Usages
      /\ DOMAIN tx[r].locked.accounts = {u}
  <2>1. tx[r] # Idle
    BY <1>1 DEF Idle
  <2>2. QED BY <1>1, <1>2, <2>1 DEF Reviewing
<1>4. u \in UserIds /\ c \in PaidBy(u) /\ tx[r].actual \in Nat
  BY <1>3, BillingAssumption DEF PaidBy
<1>5. acc = tx[r].locked.accounts[u]
  BY <1>2, <1>3, <1>4, AccountSeen DEF Accounts
<1>6. acc \in AccountRows(u) /\ KeepsBills(accounts[u], u, acc)
  BY <1>2, <1>3, <1>5, CarriesKeeps DEF Versions, Sound, VersionsCarry, CarriesAll
<1> HIDE DEF acc
<1>7. KeepsBills(accounts[u], u, after)
  BY <1>4, <1>6, SettledKeeps
<1> HIDE DEF after
<1>8. DOMAIN newAccounts = {u} /\ newAccounts[u] = after
  BY <1>3 DEF With
<1> HIDE DEF newAccounts
<1>9. locked.accounts = newAccounts
  BY <1>2 DEF Versions
<1> HIDE DEF locked
<1>10. \A o \in Transactions \ {r} : DOMAIN locked.accounts \cap DOMAIN tx[o].locked.accounts = {}
  BY <1>2, <1>3, <1>8, <1>9 DEF Apart
<1>11. QED BY <1>1, <1>2, <1>7, <1>8, <1>9, <1>10, CommitKeeps

LEMMA RefreshCarries ==
  ASSUME BillingTxInv, VersionsCarry, NEW s \in Sweeps, NEW c \in CallIds, RefreshCandidate(s, c)
  PROVE  accounts' = accounts /\ VersionsCarry'
<1> DEFINE u == Payer[c]
           acc == AccountSeenBy(s, u)
           after == IF acc.row[c].state = "pending_usage" /\ (c \in tx[s].late \/ calls[c].status # "running")
                      THEN Settled(acc, c, TerminalUsage(calls[c]), "settled")
                      ELSE acc
           newAccounts == With(tx[s].locked.accounts, u, after)
           locked == [tx[s].locked EXCEPT !.accounts = newAccounts]
           todo == tx[s].todo \ {c}
           closes == ~Terminal(acc.row[c]) /\ c \in tx[s].late /\ calls[c].status = "running"
           x == IF closes
                  THEN [stage |-> "close", next |-> "sweep", at |-> c, late |-> tx[s].late,
                        todo |-> todo, locked |-> locked]
                  ELSE [tx[s] EXCEPT !.todo = todo, !.locked = locked]
<1>1. tx[s].stage = "sweep" /\ tx' = [tx EXCEPT ![s] = x] /\ accounts' = accounts
  BY DEF RefreshCandidate, Become
<1>2. u \in UserIds /\ c \in PaidBy(u) /\ s \in Transactions
  BY BillingAssumption DEF PaidBy, Transactions
<1>3. Tables /\ Versions(tx[s])
  BY <1>2, OwnState DEF BillingTxInv
<1>4. acc \in AccountRows(u)
  BY <1>1, <1>2, SweepSees DEF Sound
<1>5. Carries(accounts[u], u, acc)
  <2>1. CASE u \in DOMAIN Accounts(s)
    BY <1>2, <1>3, <2>1, AccountSeen DEF Accounts, VersionsCarry, CarriesAll
  <2>2. CASE u \notin DOMAIN Accounts(s)
    BY <1>2, <1>3, <2>2, AccountSeen DEF Carries
  <2>3. QED BY <2>1, <2>2
<1>6. Carries(accounts[u], u, after)
  <2>1. TerminalUsage(calls[c]) \in Nat \cup {Null}
    BY <1>3 DEF TerminalUsage, Tables, CallRecords
  <2> HIDE DEF acc
  <2>2. QED BY <1>2, <1>4, <1>5, <2>1, SettledKeeps
<1> HIDE DEF acc, after, todo, closes
<1>7. /\ DOMAIN newAccounts = DOMAIN tx[s].locked.accounts \cup {u} /\ newAccounts[u] = after
      /\ \A v \in DOMAIN tx[s].locked.accounts \ {u} : newAccounts[v] = tx[s].locked.accounts[v]
  BY DEF With
<1> HIDE DEF newAccounts
<1>8. x.locked.accounts = newAccounts
  <2>1. locked.accounts = newAccounts
    BY <1>3 DEF Versions
  <2> HIDE DEF locked
  <2>2. x.locked = locked
    BY <1>3 DEF Versions
  <2>3. QED BY <2>1, <2>2
<1> HIDE DEF x
<1>9. CarriesAll(x)
  <2>1. \A v \in DOMAIN tx[s].locked.accounts : Carries(accounts[v], v, tx[s].locked.accounts[v])
    BY <1>2 DEF VersionsCarry, CarriesAll
  <2>2. QED BY <1>6, <1>7, <1>8, <2>1 DEF CarriesAll
<1>10. QED BY <1>1, <1>2, <1>9, PrivateCarries

LEMMA CloseCarries ==
  ASSUME BillingTxInv, VersionsCarry, NEW t \in Sweeps \cup Reviews, CloseStale(t)
  PROVE  accounts' = accounts /\ VersionsCarry'
<1> DEFINE rows == IF calls[tx[t].at].status = "running"
                     THEN With(tx[t].locked.calls, tx[t].at, Closed(calls[tx[t].at]))
                     ELSE tx[t].locked.calls
           x == [tx[t] EXCEPT !.stage = tx[t].next, !.locked.calls = rows]
<1>1. tx' = [tx EXCEPT ![t] = x] /\ accounts' = accounts /\ t \in Transactions
  BY DEF CloseStale, Become, Transactions
<1> HIDE DEF rows
<1>2. x.locked.accounts = tx[t].locked.accounts
  BY <1>1, OwnState DEF Versions
<1> HIDE DEF x
<1>3. CarriesAll(x)
  BY <1>1, <1>2 DEF VersionsCarry, CarriesAll
<1>4. QED BY <1>1, <1>3, PrivateCarries

LEMMA LockReviewedCarries ==
  ASSUME BillingTxInv, VersionsCarry, NEW r \in Reviews, LockReviewed(r)
  PROVE  accounts' = accounts /\ VersionsCarry'
<1> DEFINE c == tx[r].at
           u == Payer[c]
           closes == c \in late /\ calls[c].status = "running"
           newAccounts == With(<<>>, u, accounts[u])
           x == [stage |-> IF closes THEN "close" ELSE "decide", next |-> "decide",
                 at |-> c, actual |-> tx[r].actual,
                 locked |-> [accounts |-> newAccounts, calls |-> <<>>]]
<1>1. tx' = [tx EXCEPT ![r] = x] /\ accounts' = accounts /\ r \in Transactions
  BY DEF LockReviewed, Become, Transactions
<1>2. DOMAIN newAccounts = {u} /\ newAccounts[u] = accounts[u]
  BY OneRow
<1> HIDE DEF newAccounts
<1>3. x.locked.accounts = newAccounts
  OBVIOUS
<1> HIDE DEF x
<1>4. CarriesAll(x)
  BY <1>2, <1>3 DEF CarriesAll, Carries
<1>5. QED BY <1>1, <1>4, PrivateCarries

\* A step that takes no account into its hands, or gives up all it had.
LEMMA LightCarries ==
  ASSUME BillingTxInv, VersionsCarry, accounts' = accounts,
         NEW t \in Transactions, NEW x, tx' = [tx EXCEPT ![t] = x],
         x \in {Idle, Done} \/ x.locked = NoLocks \/ DOMAIN x.locked.accounts = {}
  PROVE  VersionsCarry'
<1>1. DOMAIN x.locked.accounts = {}
  BY IdleProper, NoRowsLocked DEF NoLocks
<1>2. QED BY <1>1, NothingCarried, PrivateCarries

\* What a step does to the accounts, and to the versions of them.
LEMMA TxEffect ==
  ASSUME BillingTxInv, VersionsCarry, [TxNext]_txVars
  PROVE  \/ accounts' = accounts /\ VersionsCarry'
         \/ \E u \in UserIds, delta \in Adjustments : AdjustAccount(u, delta)
         \/ \E t \in Transactions : CommittedBy(t)
<1>1. CASE UNCHANGED txVars
  BY <1>1 DEF txVars, VersionsCarry, CarriesAll
<1>2. ASSUME NEW c \in CallIds, FinishCall(c)
      PROVE  (accounts' = accounts /\ VersionsCarry') \/ CommittedBy(c)
  <2>1. c \in Transactions
    BY DEF Transactions
  <2>2. ASSUME NEW status, NEW usage, NEW actual, NEW final,
               WriteStatus(c, status, usage, actual, final)
        PROVE  accounts' = accounts /\ VersionsCarry'
    <3> DEFINE rows == With(<<>>, c, [status |-> status, usage |-> usage])
               x == [stage |-> "settle", actual |-> actual, final |-> final,
                     seen |-> accounts[Payer[c]].row[c],
                     locked |-> [accounts |-> <<>>, calls |-> rows]]
    <3>1. tx' = [tx EXCEPT ![c] = x] /\ accounts' = accounts
      BY <2>2 DEF WriteStatus, Become
    <3> HIDE DEF rows
    <3>2. DOMAIN x.locked.accounts = {}
      BY NoRowsLocked
    <3> HIDE DEF x
    <3>3. QED BY <2>1, <3>1, <3>2, LightCarries
  <2>3. CASE SettleCall(c)
    BY <2>3, SettleCommits
  <2>4. CASE Vanish(c)
    BY <2>1, <2>4, LightCarries DEF Vanish, Become
  <2>5. QED BY <1>2, <2>2, <2>3, <2>4 DEF FinishCall
<1>3. ASSUME NEW c \in CallIds, BecomesLate(c)
      PROVE  accounts' = accounts /\ VersionsCarry'
  BY <1>3 DEF BecomesLate, VersionsCarry, CarriesAll
<1>4. ASSUME NEW s \in Sweeps, Sweep(s)
      PROVE  (accounts' = accounts /\ VersionsCarry') \/ CommittedBy(s)
  <2>1. CASE StartSweep(s)
    <3> DEFINE x == [stage |-> "sweep", late |-> late, locked |-> NoLocks,
                     todo |-> {c \in CallIds : Unresolved(c) /\ (c \in late \/ calls[c].status # "running")}]
    <3>1. tx' = [tx EXCEPT ![s] = x] /\ accounts' = accounts /\ x.locked = NoLocks
      BY <2>1 DEF StartSweep, Become
    <3> HIDE DEF x
    <3>2. QED BY <3>1, LightCarries DEF Transactions
  <2>2. QED BY <1>4, <2>1, RefreshCarries, EndSweepCommits DEF Sweep
<1>5. ASSUME NEW r \in Reviews, Review(r)
      PROVE  (accounts' = accounts /\ VersionsCarry') \/ CommittedBy(r)
  <2>1. ASSUME NEW c, NEW actual, StartReview(r, c, actual)
        PROVE  accounts' = accounts /\ VersionsCarry'
    <3> DEFINE x == [stage |-> "review", at |-> c, actual |-> actual, locked |-> NoLocks]
    <3>1. tx' = [tx EXCEPT ![r] = x] /\ accounts' = accounts /\ x.locked = NoLocks
      BY <2>1 DEF StartReview, Become
    <3> HIDE DEF x
    <3>2. QED BY <3>1, LightCarries DEF Transactions
  <2>2. QED BY <1>5, <2>1, LockReviewedCarries, DecideCommits DEF Review
<1>6. ASSUME NEW t \in Sweeps \cup Reviews, CloseStale(t)
      PROVE  accounts' = accounts /\ VersionsCarry'
  BY <1>6, CloseCarries
<1>7. ASSUME NEW t \in Transactions, Abort(t)
      PROVE  accounts' = accounts /\ VersionsCarry'
  <2>1. PICK x \in {Idle, Done} : tx' = [tx EXCEPT ![t] = x] /\ accounts' = accounts
    BY <1>7 DEF Abort, Become
  <2>2. QED BY <2>1, LightCarries
<1>8. QED BY <1>1, <1>2, <1>3, <1>4, <1>5, <1>6, <1>7 DEF TxNext, Transactions

LEMMA StepCarries ==
  ASSUME BillingTxInv, VersionsCarry, [TxNext]_txVars
  PROVE  VersionsCarry'
<1>1. ASSUME NEW u \in UserIds, NEW delta \in Adjustments, AdjustAccount(u, delta)
      PROVE  VersionsCarry'
  <2>1. tx' = tx /\ \A v \in UserIds \ {u} : accounts'[v] = accounts[v]
    BY <1>1 DEF AdjustAccount, BillingTxInv, Tables
  <2>2. ASSUME NEW t \in Transactions, NEW v \in DOMAIN tx[t].locked.accounts
        PROVE  accounts'[v] = accounts[v]
    <3>1. v \in UserIds
      BY OwnState DEF Versions
    <3>2. v # u
      BY <1>1 DEF AdjustAccount, AccountHolders, Accounts
    <3>3. QED BY <2>1, <3>1, <3>2
  <2>3. QED BY <2>1, <2>2 DEF VersionsCarry, CarriesAll
<1>2. ASSUME NEW t \in Transactions, CommittedBy(t)
      PROVE  VersionsCarry'
  BY <1>2 DEF CommittedBy, VersionsCarry, CarriesAll
<1>3. QED BY <1>1, <1>2, TxEffect

LEMMA Carrying == TxSpec => [](BillingTxInv /\ VersionsCarry)
<1>1. TxInit => BillingTxInv
  BY InitInv
<1>2. TxInit => VersionsCarry
  BY IdleProper DEF TxInit, VersionsCarry, CarriesAll
<1>3. BillingTxInv /\ VersionsCarry /\ [TxNext]_txVars => BillingTxInv' /\ VersionsCarry'
  BY StepInv, StepCarries
<1>4. QED BY <1>1, <1>2, <1>3, PTL DEF TxSpec

\* A sweep carries the rows that are under review over as they are, whatever
\* was paid in since: only the decision of an administrator settles them.
THEOREM FundedLaterNotCharged == TxSpec => []NeverSilentlyCharged
<1>1. VersionsCarry => NeverSilentlyCharged
  BY DEF VersionsCarry, CarriesAll, Carries, NeverSilentlyCharged, Transactions, Accounts
<1>2. QED BY <1>1, Carrying, PTL

-----------------------------------------------------------------------------
(* What is committed implements the abstract wallet.                       *)

\* The sums of the wallet are the sums of above.
LEMMA TxWalletSum ==
  ASSUME NEW f
  PROVE  TxWallet!SumFunction(f) = SumFunction(f)
BY DEF TxWallet!SumFunction, SumFunction, TxWallet!SumFunctionOnSet, SumFunctionOnSet,
       TxWallet!FoldFunctionOnSet, FoldFunctionOnSet, TxWallet!MapThenFoldSet, MapThenFoldSet

\* What an account has used is what it had used before, and what the calls that
\* are settled since have used.
LEMMA UsedSplit ==
  ASSUME NEW u \in UserIds, NEW acc, NEW after, Sound(u, acc), Sound(u, after),
         KeepsBills(acc, u, after),
         NEW T, T = {c \in PaidBy(u) : Terminal(after.row[c]) /\ ~Terminal(acc.row[c])},
         NEW g, DOMAIN g = T, \A c \in T : g[c] = after.row[c].actual
  PROVE  /\ IsFiniteSet(T)
         /\ SumFunction(g) \in Nat
         /\ Used(after) = Used(acc) + SumFunction(g)
<1> DEFINE e == [c \in {c \in DOMAIN acc.row : Terminal(acc.row[c])} |-> acc.row[c].actual]
           f == [c \in {c \in DOMAIN after.row : Terminal(after.row[c])} |-> after.row[c].actual]
<1>1. /\ DOMAIN acc.row = PaidBy(u) /\ DOMAIN after.row = PaidBy(u)
      /\ \A c \in PaidBy(u) : after.row[c].actual \in Nat \cup {Null}
  BY DEF Sound, AccountRows, Rows
<1>2. /\ DOMAIN e = {c \in PaidBy(u) : Terminal(acc.row[c])}
      /\ \A c \in DOMAIN e : e[c] = acc.row[c].actual
      /\ DOMAIN f = {c \in PaidBy(u) : Terminal(after.row[c])}
      /\ \A c \in DOMAIN f : f[c] = after.row[c].actual
  BY <1>1
<1>3. Used(acc) = SumFunction(e) /\ Used(after) = SumFunction(f)
  BY DEF Used
<1> HIDE DEF e, f
<1>4. /\ IsFiniteSet(DOMAIN f) /\ \A c \in DOMAIN f : f[c] \in Nat
  BY <1>1, <1>2 DEF Sound
<1>5. DOMAIN e \subseteq DOMAIN f /\ \A c \in DOMAIN e : e[c] = f[c]
  BY <1>2 DEF KeepsBills
<1>6. T = DOMAIN f \ DOMAIN e /\ \A c \in T : g[c] = f[c]
  BY <1>2
<1>7. IsFiniteSet(T) /\ IsFiniteSet(DOMAIN e)
  BY <1>4, <1>5, <1>6, FS_Subset
<1>8. SumFunctionOnSet(f, DOMAIN f) = SumFunctionOnSet(f, DOMAIN e) + SumFunctionOnSet(f, T)
  <2>1. \A c \in DOMAIN f : f[c] \in Int
    BY <1>4
  <2>2. QED BY <1>4, <1>5, <1>6, <2>1, SumSplit
<1>9. SumFunctionOnSet(e, DOMAIN e) = SumFunctionOnSet(f, DOMAIN e)
  BY <1>5, <1>7, SumAgree
<1>10. SumFunctionOnSet(g, T) = SumFunctionOnSet(f, T)
  BY <1>6, <1>7, SumAgree
<1>11. SumFunctionOnSet(g, T) \in Nat
  <2>1. \A c \in T : g[c] \in Nat
    BY <1>4, <1>6
  <2>2. QED BY <1>7, <2>1, SumType
<1>12. QED BY <1>3, <1>7, <1>8, <1>9, <1>10, <1>11 DEF SumFunction

LEMMA CommitCharges ==
  ASSUME Tables, Tables', \A u \in UserIds : KeepsBills(accounts[u], u, accounts'[u])
  PROVE  TxWallet!Next
<1> DEFINE funds == [u \in UserIds |-> accounts[u].available]
           bill == [c \in CallIds |-> BillOf(c)]
           T(u) == {c \in PaidBy(u) : /\ Terminal(accounts'[u].row[c])
                                      /\ ~Terminal(accounts[u].row[c])}
<1>0. PICK S \in SUBSET CallIds :
        S = {c \in CallIds : /\ Terminal(accounts'[Payer[c]].row[c])
                             /\ ~Terminal(accounts[Payer[c]].row[c])}
  OBVIOUS
<1>1. ASSUME NEW c \in CallIds
      PROVE  /\ Payer[c] \in UserIds /\ c \in PaidBy(Payer[c])
             /\ Sound(Payer[c], accounts[Payer[c]]) /\ Sound(Payer[c], accounts'[Payer[c]])
             /\ KeepsBills(accounts[Payer[c]], Payer[c], accounts'[Payer[c]])
  BY BillingAssumption DEF PaidBy, Tables
<1>2. ASSUME NEW u \in UserIds
      PROVE  TxWallet!BillsOf(u, S) = T(u)
  BY <1>0 DEF TxWallet!BillsOf, PaidBy
<1>3. ASSUME NEW c \in S
      PROVE  BillOf(c) = Null /\ BillOf(c)' = accounts'[Payer[c]].row[c].actual /\ BillOf(c)' \in Nat
  <2>1. /\ c \in CallIds
        /\ Terminal(accounts'[Payer[c]].row[c]) /\ ~Terminal(accounts[Payer[c]].row[c])
    BY <1>0
  <2>2. accounts'[Payer[c]].row[c].actual \in Nat
    <3>1. PICK u \in UserIds : u = Payer[c] /\ c \in PaidBy(u) /\ Sound(u, accounts'[u])
      BY <1>1, <2>1
    <3>2. accounts'[u].row \in [PaidBy(u) -> Rows] /\ accounts'[u].row[c].actual # Null
      BY <2>1, <3>1 DEF Sound, AccountRows
    <3>3. QED BY <3>1, <3>2 DEF Rows
  <2>3. QED BY <2>1, <2>2 DEF BillOf
<1>4. ASSUME NEW c \in CallIds \ S
      PROVE  BillOf(c)' = BillOf(c)
  <2>1. CASE Terminal(accounts[Payer[c]].row[c])
    BY <1>1, <2>1 DEF KeepsBills, BillOf
  <2>2. CASE ~Terminal(accounts[Payer[c]].row[c])
    BY <1>0, <2>2 DEF BillOf
  <2>3. QED BY <2>1, <2>2
<1>5. ASSUME NEW u \in UserIds
      PROVE  /\ IsFiniteSet(TxWallet!BillsOf(u, S))
             /\ TxWallet!Total(u, S) <= funds[u]
             /\ funds'[u] = funds[u] - TxWallet!Total(u, S)
  <2> DEFINE g == [c \in TxWallet!BillsOf(u, S) |-> bill'[c]]
  <2>1. TxWallet!Total(u, S) = SumFunction(g)
    <3>1. TxWallet!Total(u, S) = TxWallet!SumFunction(g)
      BY DEF TxWallet!Total
    <3>2. QED BY <3>1, TxWalletSum
  <2>2. DOMAIN g = T(u) /\ \A c \in T(u) : g[c] = accounts'[u].row[c].actual
    <3>1. \A c \in T(u) : c \in S /\ c \in CallIds /\ Payer[c] = u
      BY <1>0 DEF PaidBy
    <3>2. \A c \in T(u) : BillOf(c)' = accounts'[u].row[c].actual
      BY <1>3, <3>1
    <3>3. DOMAIN g = T(u) /\ \A c \in T(u) : g[c] = BillOf(c)'
      BY <1>2, <3>1
    <3> HIDE DEF g
    <3>4. QED BY <3>2, <3>3
  <2>3. Sound(u, accounts[u]) /\ Sound(u, accounts'[u]) /\ KeepsBills(accounts[u], u, accounts'[u])
    BY DEF Tables
  <2> HIDE DEF g
  <2>4. /\ IsFiniteSet(T(u)) /\ SumFunction(g) \in Nat
        /\ Used(accounts'[u]) = Used(accounts[u]) + SumFunction(g)
    BY <2>2, <2>3, UsedSplit
  <2>5. /\ accounts[u].funded \in Nat /\ accounts[u].available \in Nat /\ accounts'[u].available \in Nat
        /\ accounts'[u].funded = accounts[u].funded
        /\ accounts[u].available = accounts[u].funded - Used(accounts[u])
        /\ accounts'[u].available = accounts'[u].funded - Used(accounts'[u])
        /\ Used(accounts[u]) \in Nat
    BY <2>3, UsedType DEF Sound, AccountRows, KeepsBills
  <2>6. accounts'[u].available = accounts[u].available - SumFunction(g)
        /\ SumFunction(g) <= accounts[u].available
    BY <2>4, <2>5
  <2>7. QED BY <1>2, <2>1, <2>4, <2>6
<1>6. TxWallet!Charge(S)
  <2>1. \A c \in S : Payer[c] \in UserIds /\ bill[c] = Null /\ bill'[c] \in Nat
    BY <1>1, <1>3
  <2>2. bill' = [c \in CallIds |-> IF c \in S THEN bill'[c] ELSE bill[c]]
    BY <1>4
  <2>3. \A u \in UserIds : TxWallet!IsFiniteSet(TxWallet!BillsOf(u, S))
    BY <1>5 DEF TxWallet!IsFiniteSet, IsFiniteSet
  <2>4. funds' = [u \in UserIds |-> funds[u] - TxWallet!Total(u, S)]
    BY <1>5
  <2>5. \A u \in UserIds : TxWallet!Total(u, S) <= funds[u]
    BY <1>5
  <2>6. QED BY <2>1, <2>2, <2>3, <2>4, <2>5 DEF TxWallet!Charge
<1>7. QED BY <1>6 DEF TxWallet!Next

LEMMA AdjustFunds ==
  ASSUME Tables, NEW u \in UserIds, NEW delta \in Adjustments, AdjustAccount(u, delta)
  PROVE  TxWallet!Next
<1>1. /\ accounts[u].available + delta >= 0
      /\ \A v \in UserIds : accounts'[v].row = accounts[v].row
      /\ accounts'[u].available = accounts[u].available + delta
      /\ \A v \in UserIds \ {u} : accounts'[v].available = accounts[v].available
  <2>1. /\ DOMAIN accounts = UserIds
        /\ accounts[u] = [funded |-> accounts[u].funded, available |-> accounts[u].available,
                          row |-> accounts[u].row]
    BY DEF Tables, Sound, AccountRows
  <2>2. accounts' = [accounts EXCEPT ![u].funded = @ + delta, ![u].available = @ + delta]
    BY DEF AdjustAccount
  <2>3. /\ accounts'[u] = [accounts[u] EXCEPT !.funded = @ + delta, !.available = @ + delta]
        /\ \A v \in UserIds \ {u} : accounts'[v] = accounts[v]
    BY <2>1, <2>2
  <2>4. accounts'[u].row = accounts[u].row /\ accounts'[u].available = accounts[u].available + delta
    BY <2>1, <2>3
  <2>5. QED BY <2>3, <2>4 DEF AdjustAccount
<1>2. \A c \in CallIds : BillOf(c)' = BillOf(c)
  BY <1>1, BillingAssumption DEF BillOf
<1>3. TxWallet!Fund(u, delta)
  BY <1>1, <1>2 DEF TxWallet!Fund
<1>4. QED BY <1>3 DEF TxWallet!Next

LEMMA TxInitRefines == TxInit => TxWallet!Init
<1>1. SUFFICES ASSUME TxInit PROVE TxWallet!Init
  OBVIOUS
<1>2. Funds = [u \in UserIds |-> accounts[u].available]
  BY <1>1, BillingAssumption DEF TxInit
<1>3. \A c \in CallIds : BillOf(c) = Null
  BY <1>1, BillingAssumption DEF TxInit, BillOf, PaidBy, Open, Terminal
<1>4. QED BY <1>2, <1>3 DEF TxWallet!Init

\* What is committed is a history of the wallet, for any number of users, calls,
\* sweeps and reviews: every commit bills the calls it settles to their payers,
\* who can afford them all together, and no call twice; nothing but adjustments
\* moves funds besides.
THEOREM TxWalletRefined == TxSpec => TxImplementsWallet
<1>1. BillingTxInv /\ BillingTxInv' /\ VersionsCarry /\ [TxNext]_txVars
        => [TxWallet!Next]_(TxWallet!vars)
  <2>1. SUFFICES ASSUME BillingTxInv, BillingTxInv', VersionsCarry, [TxNext]_txVars
                 PROVE  [TxWallet!Next]_(TxWallet!vars)
    OBVIOUS
  <2>2. Tables /\ Tables'
    BY <2>1 DEF BillingTxInv
  <2>3. CASE accounts' = accounts
    BY <2>3 DEF TxWallet!vars, BillOf
  <2>4. CASE \E u \in UserIds, delta \in Adjustments : AdjustAccount(u, delta)
    BY <2>2, <2>4, AdjustFunds
  <2>5. CASE \E t \in Transactions : CommittedBy(t)
    BY <2>2, <2>5, CommitCharges DEF CommittedBy
  <2>6. QED BY <2>1, <2>3, <2>4, <2>5, TxEffect
<1>2. QED BY <1>1, TxInitRefines, Carrying, PTL DEF TxSpec, TxImplementsWallet, TxWallet!Spec

-----------------------------------------------------------------------------
(* Who waits for whom.                                                     *)

\* Among finitely many numbers one is the greatest.
LEMMA Greatest ==
  ASSUME NEW B, IsFiniteSet(B), B # {}, NEW w, \A b \in B : w[b] \in Nat
  PROVE  \E b \in B : \A d \in B : ~(w[b] < w[d])
<1> DEFINE C == {A \in SUBSET B : A # {} /\ \A a \in A : \E d \in A : w[a] < w[d]}
<1>1. SUFFICES ASSUME B \in C
               PROVE  FALSE
  OBVIOUS
<1>2. C \subseteq SUBSET B /\ C # {}
  BY <1>1
<1> HIDE DEF C
<1>3. PICK s \in C : IsFiniteSet(s) /\ \A A \in SUBSET s : A # s => A \notin C
  BY <1>2, SmallestSet
<1> USE DEF C
<1>4. s \subseteq B /\ s # {} /\ \A a \in s : \E d \in s : w[a] < w[d]
  BY <1>3
<1>5. PICK a \in s : TRUE
  BY <1>4
<1>6. PICK b \in s : w[a] < w[b]
  BY <1>4, <1>5
<1>7. b # a
  BY <1>4, <1>6
<1>8. ASSUME NEW x \in s \ {a}
      PROVE  \E y \in s \ {a} : w[x] < w[y]
  <2>1. PICK y \in s : w[x] < w[y]
    BY <1>4
  <2>2. CASE y # a
    BY <2>1, <2>2
  <2>3. CASE y = a
    <3>1. w[x] < w[b]
      BY <1>4, <1>6, <2>1, <2>3
    <3>2. QED BY <1>7, <3>1
  <2>4. QED BY <2>2, <2>3
<1>9. s \ {a} \in C
  BY <1>4, <1>7, <1>8
<1>10. QED BY <1>3, <1>5, <1>9

\* Only sweeps and reviews hold accounts.
LEMMA HoldsAccount ==
  ASSUME BillingTxInv, NEW u, NEW t \in AccountHolders(u)
  PROVE  t \in Sweeps \cup Reviews
<1>1. t \in Transactions /\ DOMAIN tx[t].locked.accounts # {}
  BY DEF AccountHolders, Accounts
<1>2. t \in CallIds => Finishing(t, tx[t])
  BY <1>1, OwnState
<1>3. t \notin CallIds
  BY <1>1, <1>2, IdleProper DEF Finishing
<1>4. QED BY <1>1, <1>3 DEF Transactions

\* Who closes a call waits for nobody but the finish() of that late call.
LEMMA CloserWaits ==
  ASSUME BillingTxInv, NEW t \in Transactions, tx[t].stage = "close",
         NEW o \in Waits(t)
  PROVE  o \in CallIds \cap late
<1> DEFINE c == tx[t].at
<1>1. o \in Transactions /\ o # t /\ c \in DOMAIN tx[o].locked.calls
  BY DEF Waits, CallHolders, CallRows
<1>2. t \notin CallIds
  BY OwnState DEF Finishing, Idle, Done
<1>3. Closing(calls, late, tx[t])
  <2>1. tx[t] # Idle
    BY DEF Idle
  <2>2. t \in Sweeps \/ t \in Reviews
    BY <1>2 DEF Transactions
  <2>3. (t \in Sweeps => Sweeping(calls, late, tx[t])) /\ (t \in Reviews => Reviewing(calls, late, tx[t]))
    BY OwnState
  <2>4. QED BY <2>1, <2>2, <2>3 DEF Sweeping, Reviewing
<1>4. o \notin Sweeps \cup Reviews
  <2>1. SUFFICES ASSUME o \in Sweeps \cup Reviews
                 PROVE  FALSE
    OBVIOUS
  <2>2. Covered(calls, tx[o])
    BY <1>1, <2>1, OwnState
  <2>3. Payer[c] \in DOMAIN tx[o].locked.accounts
    BY <1>1, <2>2 DEF Covered
  <2>4. Payer[c] \in DOMAIN tx[t].locked.accounts
    BY <1>3 DEF Closing
  <2>5. Apart(tx[t], tx[o])
    BY <1>1, OwnState
  <2>6. QED BY <2>3, <2>4, <2>5 DEF Apart
<1>5. o \in CallIds
  BY <1>1, <1>4 DEF Transactions
<1>6. Finishing(o, tx[o])
  BY <1>1, <1>5, OwnState
<1>7. o = c
  BY <1>1, <1>6, IdleProper DEF Finishing
<1>8. QED BY <1>3, <1>5, <1>7 DEF Closing

\* The user whose account a sweep takes next.
Wanted(s, u) == \E c \in NextCandidates(tx[s].todo) : Payer[c] = u

\* A sweep that waits wants one account, which another sweep or review has, and
\* has none of a greater user.
LEMMA SweepWaits ==
  ASSUME BillingTxInv, NEW s \in Sweeps, tx[s].stage = "sweep",
         NEW o \in Waits(s)
  PROVE  \E u \in UserIds :
           /\ Wanted(s, u) /\ \A v : Wanted(s, v) => v = u
           /\ u \in DOMAIN tx[o].locked.accounts
           /\ u \notin DOMAIN tx[s].locked.accounts
           /\ \A v \in DOMAIN tx[s].locked.accounts : v <= u
           /\ o \in Sweeps \cup Reviews
<1>1. PICK c \in NextCandidates(tx[s].todo) : o \in AccountHolders(Payer[c]) /\ o # s
  BY DEF Waits
<1> DEFINE u == Payer[c]
<1>2. /\ Sweeping(calls, late, tx[s]) /\ s \in Transactions
      /\ \A t \in Transactions \ {s} : Apart(tx[s], tx[t])
  BY OwnState DEF Transactions
<1>3. /\ tx[s].todo \subseteq CallIds
      /\ \A v \in DOMAIN tx[s].locked.accounts, d \in tx[s].todo : v <= Payer[d]
  BY <1>2 DEF Sweeping, Idle
<1>4. c \in tx[s].todo /\ \A d \in tx[s].todo : u <= Payer[d]
  BY <1>1 DEF NextCandidates
<1>5. u \in UserIds /\ \A d \in tx[s].todo : Payer[d] \in Nat
  BY <1>3, <1>4, BillingAssumption
<1>6. ASSUME NEW d \in NextCandidates(tx[s].todo)
      PROVE  Payer[d] = u
  <2>1. d \in tx[s].todo /\ Payer[d] <= u
    BY <1>4 DEF NextCandidates
  <2>2. u <= Payer[d] /\ u \in Nat /\ Payer[d] \in Nat
    BY <1>4, <1>5, <2>1
  <2>3. QED BY <2>1, <2>2
<1>7. Wanted(s, u) /\ \A v : Wanted(s, v) => v = u
  BY <1>1, <1>6 DEF Wanted
<1>8. u \in DOMAIN tx[o].locked.accounts /\ o \in Transactions
  BY <1>1 DEF AccountHolders, Accounts
<1>9. u \notin DOMAIN tx[s].locked.accounts
  BY <1>1, <1>2, <1>8 DEF Apart
<1>10. o \in Sweeps \cup Reviews
  BY <1>1, HoldsAccount
<1>11. QED BY <1>3, <1>4, <1>5, <1>7, <1>8, <1>9, <1>10

\* Transactions that wait for each other in a circle have among them the finish()
\* of a late call; in all else the locks are taken in one order.
THEOREM BillingTxDeadlock == TxSpec => []DeadlockOnlyWhenLate
<1>1. BillingTxInv => DeadlockOnlyWhenLate
  <2> SUFFICES ASSUME BillingTxInv, NEW stuck \in SUBSET Transactions, stuck # {},
                      \A t \in stuck : Waits(t) \cap stuck # {},
                      stuck \cap CallIds \cap late = {}
               PROVE  FALSE
    BY DEF DeadlockOnlyWhenLate
  <2>1. \A t \in stuck : tx[t].stage # "close"
    BY CloserWaits
  <2>2. ASSUME NEW t \in stuck, t \in Sweeps \cup Reviews, DOMAIN tx[t].locked.accounts # {}
        PROVE  t \in Sweeps /\ tx[t].stage = "sweep"
    <3>1. tx[t].stage \in {"settle", "sweep", "review", "close"}
      BY DEF Waits
    <3>2. tx[t] # Idle
      BY <2>2, IdleProper
    <3>3. ~(t \in Reviews)
      <4>1. ASSUME t \in Reviews
            PROVE  FALSE
        <5>1. Reviewing(calls, late, tx[t])
          BY <4>1, OwnState
        <5>2. QED BY <2>1, <2>2, <3>1, <3>2, <5>1 DEF Reviewing
      <4>2. QED BY <4>1
    <3>4. t \in Sweeps /\ Sweeping(calls, late, tx[t])
      BY <2>2, <3>3, OwnState
    <3>5. QED BY <2>1, <3>2, <3>4 DEF Sweeping
  <2> DEFINE B == {s \in stuck : /\ s \in Sweeps /\ tx[s].stage = "sweep"
                                 /\ DOMAIN tx[s].locked.accounts # {}}
             w == [s \in B |-> CHOOSE u \in UserIds : Wanted(s, u)]
  <2>3. ASSUME NEW t \in stuck, tx[t].stage # "close", NEW o \in Waits(t) \cap stuck
        PROVE  o \in B
    <3>1. o \in Sweeps \cup Reviews /\ DOMAIN tx[o].locked.accounts # {}
      <4>1. \E u : o \in AccountHolders(u)
        BY <2>3 DEF Waits
      <4>2. QED BY <4>1, HoldsAccount DEF AccountHolders, Accounts
    <3>2. QED BY <2>2, <3>1
  <2>4. B # {}
    BY <2>1, <2>3
  <2>5. IsFiniteSet(B)
    <3>1. B \subseteq {s \in Sweeps : tx[s] # Idle}
      BY DEF Idle
    <3>2. QED BY <3>1, FS_Subset DEF BillingTxInv
  <2>6. ASSUME NEW s \in B
        PROVE  /\ w[s] \in UserIds /\ Wanted(s, w[s])
               /\ \A v \in DOMAIN tx[s].locked.accounts : v <= w[s] /\ v # w[s]
               /\ \E o \in B : w[s] \in DOMAIN tx[o].locked.accounts
    <3>1. PICK o \in Waits(s) : o \in stuck
      OBVIOUS
    <3>2. o \in B
      BY <2>1, <2>3, <3>1
    <3>3. PICK u \in UserIds : /\ Wanted(s, u) /\ \A v : Wanted(s, v) => v = u
                             /\ u \in DOMAIN tx[o].locked.accounts
                             /\ u \notin DOMAIN tx[s].locked.accounts
                             /\ \A v \in DOMAIN tx[s].locked.accounts : v <= u
      BY <3>1, SweepWaits
    <3>4. w[s] = u
      BY <3>3
    <3>5. QED BY <3>2, <3>3, <3>4
  <2> HIDE DEF B, w
  <2>7. \A s \in B : w[s] \in Nat
    BY <2>6, BillingAssumption
  <2>8. PICK s \in B : \A o \in B : ~(w[s] < w[o])
    BY <2>4, <2>5, <2>7, Greatest
  <2>9. PICK o \in B : w[s] \in DOMAIN tx[o].locked.accounts
    BY <2>6
  <2>10. w[s] <= w[o] /\ w[s] # w[o]
    BY <2>6, <2>9
  <2>11. QED BY <2>7, <2>8, <2>10
<1>2. QED BY <1>1, BillingTxInvariant, PTL

=============================================================================
