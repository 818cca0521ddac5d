------------------------------ MODULE Credits ------------------------------
(***************************************************************************)
(* The token wallet of a user and the accounting journal of official model *)
(* calls: src/app/credits.py with its callers in gateway.py and            *)
(* accounts.py.                                                            *)
(*                                                                         *)
(* One step is one committed database transaction (or, for the reconcili-  *)
(* ation sweep, the part of it done under one per-account lock).  Only the *)
(* adjustment of a balance, which reads before it locks anything, takes    *)
(* two.  Between two steps anything may happen: the process may restart,   *)
(* an administrator may intervene, the grace period of a call may run out  *)
(* while the gateway is still serving it.                                  *)
(***************************************************************************)
EXTENDS Integers, Sequences, FiniteSetsExt

CONSTANTS
  Users,        \* accounts that can be registered
  Calls,        \* identities of ModelCall rows
  Keys,         \* Idempotency-Key values of model requests
  AdjustKeys,   \* idempotency keys of administrative adjustments
  Requests,     \* administrators' adjustments that may be under way at once
  Grants,       \* initial_tokens of the registration policy
  Deltas,       \* amounts an administrator may credit or debit
  Holds,        \* amounts a historical reservation may freeze
  Tokens,       \* token counts a provider reports or an administrator types
  NoValue       \* SQL NULL

ASSUME AmountAssumption ==
  /\ Grants \subseteq Nat
  /\ Deltas \subseteq Int
  /\ Holds \subseteq Nat \ {0}
  /\ Tokens \subseteq Nat
  /\ NoValue \notin Int

VARIABLES
  account,   \* CreditAccount: available and reserved tokens of a user
  ledger,    \* CreditLedger: the posted changes of a user, oldest first
  res,       \* ModelReservation: the journal row of a call
  call,      \* ModelCall: terminal status and persisted usage
  handler,   \* the gateway coroutine that serves the call, in memory only
  aged,      \* calls older than RECONCILIATION_GRACE_SECONDS
  adjusting  \* adjustments that found their key free and have yet to write

vars == <<account, ledger, res, call, handler, aged, adjusting>>

-----------------------------------------------------------------------------
(* Records.                                                                *)

OpenStates       == {"reserved", "pending_usage"}
UnresolvedStates == OpenStates \cup {"needs_reconciliation"}
TerminalStates   == {"settled", "released"}
FinalStatuses    == {"succeeded", "failed", "cancelled"}

Account == [available : Nat, reserved : Nat]

\* operation_key is a prefix and the identity of what it is about.
OperationKey ==
  {"registration", "adjust", "reserve", "reserve_adjustment", "settle"}
    \X (Users \cup AdjustKeys \cup Calls)

Entry == [key : OperationKey, delta : Int, reservedDelta : Int,
          availableAfter : Nat, reservedAfter : Nat]

Row == [user : Users, key : Keys, amount : Nat, actual : Nat \cup {NoValue},
        state : UnresolvedStates \cup TerminalStates]
NoRow == [state |-> "absent"]

Adjustment == [request : Requests, user : Users, key : AdjustKeys, delta : Deltas]

CallRow == [status : FinalStatuses \cup {"absent", "running"},
            usage : Nat \cup {NoValue}]

Registered(u) == ledger[u] # << >>
Posts(entries, key) == \E i \in DOMAIN entries : entries[i].key = key
Posted(u, key) == Posts(ledger[u], key)
KeyTaken(u, k) == \E c \in Calls : res[c].state # "absent"
                                     /\ res[c].user = u /\ res[c].key = k
Finished(c) == call[c].status \in FinalStatuses

-----------------------------------------------------------------------------
(* credits.change: the conditional update and its ledger row.              *)

Moved(acc, delta, reservedDelta) ==
  [available |-> acc.available + delta, reserved |-> acc.reserved + reservedDelta]

\* Mutant: the conditional update guards the frozen part only.
FrozenFunded(acc) == acc.reserved >= 0

Funded(acc) == acc.available >= 0 /\ acc.reserved >= 0

Audit(key, delta, reservedDelta, after) ==
  [key |-> key, delta |-> delta, reservedDelta |-> reservedDelta,
   availableAfter |-> after.available, reservedAfter |-> after.reserved]

\* Mutant: the audit row is written from the balance read before the update.
StaleAuditChange(u, key, delta, reservedDelta) ==
  LET after == Moved(account[u], delta, reservedDelta) IN
    /\ Funded(after)
    /\ account' = [account EXCEPT ![u] = after]
    /\ ledger' = [ledger EXCEPT
                    ![u] = Append(@, Audit(key, delta, reservedDelta, account[u]))]

Change(u, key, delta, reservedDelta) ==
  LET after == Moved(account[u], delta, reservedDelta) IN
    /\ Funded(after)
    /\ account' = [account EXCEPT ![u] = after]
    /\ ledger' = [ledger EXCEPT
                    ![u] = Append(@, Audit(key, delta, reservedDelta, after))]

-----------------------------------------------------------------------------
(* credits.settle and settle_direct_call.  A refusal (409, 402) rolls the  *)
(* transaction back, so a refused settlement is no step at all.            *)

\* The columns a settlement writes; the other columns keep their values.
Rewrite(row, amount, actual, state) ==
  [user |-> row.user, key |-> row.key,
   amount |-> amount, actual |-> actual, state |-> state]

\* A provider-confirmed amount binds: another amount is ALREADY_RECONCILED.
Agrees(row, actual) == row.actual = NoValue \/ row.actual = actual

MarkForReview(c) ==
  /\ res' = [res EXCEPT ![c] = Rewrite(@, @.amount, @.actual, "needs_reconciliation")]
  /\ UNCHANGED <<account, ledger>>

\* Mutant: usage beyond the balance settles the row, the debit is skipped.
SettleUnpaid(c, actual, final) ==
  LET u == res[c].user IN
    \/ actual = NoValue /\ MarkForReview(c)
    \/ /\ actual # NoValue
       /\ Agrees(res[c], actual)
       /\ IF actual = 0 \/ actual > account[u].available
            THEN UNCHANGED <<account, ledger>>
            ELSE Change(u, <<"settle", c>>, -actual, 0)
       /\ res' = [res EXCEPT ![c] = Rewrite(@, 0, actual, final)]

SettleDirect(c, actual, final) ==
  LET u == res[c].user IN
    \/ /\ actual = NoValue
       /\ MarkForReview(c)
    \/ /\ actual # NoValue
       /\ Agrees(res[c], actual)
       /\ actual > account[u].available
       /\ res' = [res EXCEPT ![c] = Rewrite(@, 0, actual, "needs_reconciliation")]
       /\ UNCHANGED <<account, ledger>>
    \/ /\ actual # NoValue
       /\ Agrees(res[c], actual)
       /\ actual <= account[u].available
       /\ IF actual = 0 THEN UNCHANGED <<account, ledger>>
                        ELSE Change(u, <<"settle", c>>, -actual, 0)
       /\ res' = [res EXCEPT ![c] = Rewrite(@, 0, actual, final)]

\* Mutant: usage above the hold is recorded, only the hold is charged.
ChargeHoldOnly(c, actual) ==
  /\ Change(res[c].user, <<"settle", c>>, 0, -res[c].amount)
  /\ res' = [res EXCEPT ![c] = Rewrite(@, actual, actual, "settled")]

\* Usage above the hold: an administrator first extends the hold, then settles.
SettleOverage(c, actual) ==
  LET u == res[c].user
      extra == actual - res[c].amount
      extended == Moved(account[u], -extra, extra)
      after == Moved(extended, 0, -actual)
  IN /\ Funded(extended)
     /\ Funded(after)
     /\ account' = [account EXCEPT ![u] = after]
     /\ ledger' = [ledger EXCEPT ![u] =
          Append(Append(@, Audit(<<"reserve_adjustment", c>>, -extra, extra, extended)),
                 Audit(<<"settle", c>>, 0, -actual, after))]
     /\ res' = [res EXCEPT ![c] = Rewrite(@, actual, actual, "settled")]

\* Mutant: the hold shrinks by what was used, the rest stays frozen.
ReleaseUsedOnly(c, actual, final, manual) ==
  LET amount == res[c].amount IN
    \/ /\ actual # NoValue /\ actual <= amount
       /\ Change(res[c].user, <<"settle", c>>, 0, -actual)
       /\ res' = [res EXCEPT ![c] = Rewrite(@, amount, actual, final)]
    \/ actual = NoValue /\ MarkForReview(c)

SettleHeld(c, actual, final, manual) ==
  LET amount == res[c].amount IN
    \/ /\ actual # NoValue
       /\ actual <= amount
       /\ Change(res[c].user, <<"settle", c>>, amount - actual, -amount)
       /\ res' = [res EXCEPT ![c] = Rewrite(@, amount, actual, final)]
    \/ /\ actual # NoValue => actual > amount /\ ~manual
       /\ MarkForReview(c)
    \/ /\ actual # NoValue
       /\ actual > amount
       /\ manual
       /\ SettleOverage(c, actual)

\* Mutant: a terminal row is settled again.
SettleAnyRow(c, reported, noDispatch, manual) ==
  LET actual == IF noDispatch THEN 0 ELSE reported
      final  == IF noDispatch THEN "released" ELSE "settled"
  IN \/ res[c].amount = 0 /\ SettleDirect(c, actual, final)
     \/ res[c].amount > 0 /\ SettleHeld(c, actual, final, manual)

Settle(c, reported, noDispatch, manual) ==
  LET actual == IF noDispatch THEN 0 ELSE reported
      final  == IF noDispatch THEN "released" ELSE "settled"
  IN \/ /\ res[c].state \in TerminalStates
        /\ ~manual
        /\ UNCHANGED <<account, ledger, res>>
     \/ /\ res[c].state \in UnresolvedStates
        /\ res[c].amount = 0
        /\ SettleDirect(c, actual, final)
     \/ /\ res[c].state \in UnresolvedStates
        /\ res[c].amount > 0
        /\ SettleHeld(c, actual, final, manual)

-----------------------------------------------------------------------------
Init ==
  /\ account = [u \in Users |-> [available |-> 0, reserved |-> 0]]
  /\ ledger  = [u \in Users |-> << >>]
  /\ res     = [c \in Calls |-> NoRow]
  /\ call    = [c \in Calls |-> [status |-> "absent", usage |-> NoValue]]
  /\ handler = [c \in Calls |-> "none"]
  /\ aged    = {}
  /\ adjusting = {}

\* accounts.register: the account and its initial grant, even a grant of zero.
Register(u, grant) ==
  /\ ~Registered(u)
  /\ Change(u, <<"registration", u>>, grant, 0)
  /\ UNCHANGED <<res, call, handler, aged>>

\* accounts.adjust looks for the key first; one that is posted is answered from
\* the ledger, or refused for a different content.
StartAdjust(r, u, k, delta) ==
  /\ \A a \in adjusting : a.request # r
  /\ Registered(u)
  /\ ~Posted(u, <<"adjust", k>>)
  /\ adjusting' = adjusting \cup {[request |-> r, user |-> u, key |-> k, delta |-> delta]}
  /\ UNCHANGED <<account, ledger, res, call, handler, aged>>

\* Mutant: the ledger has no UNIQUE(user_id, operation_key).
AdjustUnchecked(a) ==
  /\ a \in adjusting
  /\ Change(a.user, <<"adjust", a.key>>, a.delta, 0)
  /\ adjusting' = adjusting \ {a}
  /\ UNCHANGED <<res, call, handler, aged>>

\* It writes later, without another look: what keeps a second request with the
\* same key from being posted is UNIQUE(user_id, operation_key).
Adjust(a) ==
  /\ a \in adjusting
  /\ ~Posted(a.user, <<"adjust", a.key>>)
  /\ Change(a.user, <<"adjust", a.key>>, a.delta, 0)
  /\ adjusting' = adjusting \ {a}
  /\ UNCHANGED <<res, call, handler, aged>>

\* ADJUSTMENT_CONFLICT or INSUFFICIENT_CREDITS: all is rolled back.
RefuseAdjust(a) ==
  /\ a \in adjusting
  /\ \/ Posted(a.user, <<"adjust", a.key>>)
     \/ ~Funded(Moved(account[a.user], a.delta, 0))
  /\ adjusting' = adjusting \ {a}
  /\ UNCHANGED <<account, ledger, res, call, handler, aged>>

\* What admission writes: the journal row and the running call.
Journal(c, u, k, amount, state) ==
  /\ res' = [res EXCEPT ![c] = [user |-> u, key |-> k, amount |-> amount,
                                actual |-> NoValue, state |-> state]]
  /\ call' = [call EXCEPT ![c] = [status |-> "running", usage |-> NoValue]]
  /\ handler' = [handler EXCEPT ![c] = "serving"]
  /\ UNCHANGED aged

\* credits.begin_direct_call: a positive balance admits, nothing is frozen.
BeginDirectCall(c, u, k) ==
  /\ call[c].status = "absent"
  /\ Registered(u)
  /\ ~KeyTaken(u, k)
  /\ account[u].available > 0
  /\ Journal(c, u, k, 0, "pending_usage")
  /\ UNCHANGED <<account, ledger>>

\* gateway.completions: a call refused for want of credits leaves an audit row.
RejectAdmission(c, u, k) ==
  /\ call[c].status = "absent"
  /\ Registered(u)
  /\ ~KeyTaken(u, k)
  /\ account[u].available <= 0
  /\ call' = [call EXCEPT ![c] = [status |-> "failed", usage |-> NoValue]]
  /\ UNCHANGED <<account, ledger, res, handler, aged>>

\* credits.reserve: how earlier releases admitted calls, and tests still do.
Reserve(c, u, k, amount) ==
  /\ call[c].status = "absent"
  /\ Registered(u)
  /\ ~KeyTaken(u, k)
  /\ \A d \in Calls : ~(res[d].state = "needs_reconciliation" /\ res[d].user = u)
  /\ Change(u, <<"reserve", c>>, -amount, amount)
  /\ Journal(c, u, k, amount, "reserved")

\* gateway finish(): the terminal status and the settlement commit together.
\* It may come long after an administrator has reviewed or settled the call.  An
\* answer of the provider that says it failed is passed on like any other.
Finish(c, status, usage) ==
  /\ handler[c] = "serving"
  /\ call' = [call EXCEPT ![c] = [status |-> status, usage |-> usage]]
  /\ Settle(c, usage, FALSE, FALSE)
  /\ \E next \in {"none", "rendering"} :
       /\ status = "succeeded" => next = "rendering"
       /\ status = "cancelled" => next = "none"
       /\ handler' = [handler EXCEPT ![c] = next]
  /\ UNCHANGED aged

\* The same for a call that never reached the provider.
FinishUndispatched(c, status) ==
  /\ handler[c] = "serving"
  /\ call' = [call EXCEPT ![c] = [status |-> status, usage |-> NoValue]]
  /\ Settle(c, NoValue, TRUE, FALSE)
  /\ handler' = [handler EXCEPT ![c] = "none"]
  /\ UNCHANGED aged

Respond(c) ==
  /\ handler[c] = "rendering"
  /\ handler' = [handler EXCEPT ![c] = "none"]
  /\ UNCHANGED <<account, ledger, res, call, aged>>

\* The answer cannot be encoded: the ValueError handler calls finish() again.
RenderFails(c) ==
  /\ handler[c] = "rendering"
  /\ call' = [call EXCEPT ![c] = [status |-> "failed", usage |-> @.usage]]
  /\ Settle(c, call[c].usage, FALSE, FALSE)
  /\ handler' = [handler EXCEPT ![c] = "none"]
  /\ UNCHANGED aged

\* settle() refuses what finish() reports, or the database does: the handler's
\* transaction is lost, the call's outcome with it.
FinishLost(c) ==
  /\ handler[c] # "none"
  /\ handler' = [handler EXCEPT ![c] = "none"]
  /\ UNCHANGED <<account, ledger, res, call, aged>>

\* The process stops; every coroutine is gone, every committed row remains.
Restart ==
  /\ adjusting # {} \/ \E c \in Calls : handler[c] # "none"
  /\ handler' = [c \in Calls |-> "none"]
  /\ adjusting' = {}
  /\ UNCHANGED <<account, ledger, res, call, aged>>

\* A release in which the status and the settlement were two transactions
\* stopped between them; refresh_reconciliations exists to repair the pair.
SplitFinish(c, status, usage) ==
  /\ handler[c] = "serving"
  /\ res[c].state \in OpenStates
  /\ call' = [call EXCEPT ![c] = [status |-> status, usage |-> usage]]
  /\ handler' = [handler EXCEPT ![c] = "none"]
  /\ UNCHANGED <<account, ledger, res, aged>>

GracePeriodEnds(c) ==
  /\ c \notin aged
  /\ res[c].state \in UnresolvedStates
  /\ aged' = aged \cup {c}
  /\ UNCHANGED <<account, ledger, res, call, handler>>

\* credits.close_stale_call
CloseStaleCall(c) ==
  call' = IF call[c].status = "running" /\ c \in aged
            THEN [call EXCEPT ![c] = [status |-> "failed", usage |-> @.usage]]
            ELSE call

\* credits._trusted_terminal_usage
TrustedUsage(c) == IF call[c].status = "succeeded" THEN call[c].usage ELSE NoValue

\* Mutant: what never finished in time is released instead of reviewed.
ReleaseTimedOut(c) ==
  /\ res[c].state \in OpenStates
  /\ Finished(c) \/ c \in aged
  /\ Settle(c, TrustedUsage(c), TrustedUsage(c) = NoValue, FALSE)
  /\ CloseStaleCall(c)
  /\ UNCHANGED <<handler, aged>>

\* credits.refresh_reconciliations, for one candidate row.
RefreshRow(c) ==
  /\ res[c].state \in UnresolvedStates
  /\ Finished(c) \/ c \in aged
  /\ \/ /\ res[c].state \in OpenStates
        /\ TrustedUsage(c) # NoValue
        /\ Settle(c, TrustedUsage(c), FALSE, FALSE)
     \/ /\ res[c].state \in OpenStates
        /\ TrustedUsage(c) = NoValue
        /\ MarkForReview(c)
     \/ /\ res[c].state = "needs_reconciliation"
        /\ UNCHANGED <<account, ledger, res>>
  /\ CloseStaleCall(c)
  /\ UNCHANGED <<handler, aged>>

\* accounts.reconcile: an administrator states what the provider charged.
Reconcile(c, actual) ==
  /\ res[c].state \in UnresolvedStates
  /\ res[c].state = "needs_reconciliation" \/ Finished(c) \/ c \in aged
  /\ CloseStaleCall(c)
  /\ Settle(c, actual, FALSE, TRUE)
  /\ UNCHANGED <<handler, aged>>

-----------------------------------------------------------------------------
\* Who may take which step, with which inputs.
AdjustmentNext ==
  \/ \E r \in Requests, u \in Users, k \in AdjustKeys, d \in Deltas : StartAdjust(r, u, k, d)
  \/ \E a \in adjusting : Adjust(a) \/ RefuseAdjust(a)

AdmissionNext(c) ==
  \E u \in Users, k \in Keys :
    \/ BeginDirectCall(c, u, k)
    \/ RejectAdmission(c, u, k)
    \/ \E n \in Holds : Reserve(c, u, k, n)

GatewayNext(c) ==
  \/ \E s \in {"succeeded", "failed"}, n \in Tokens \cup {NoValue} :
       Finish(c, s, n) \/ SplitFinish(c, s, n)
  \/ Finish(c, "cancelled", NoValue)
  \/ \E s \in {"failed", "cancelled"} : FinishUndispatched(c, s)
  \/ Respond(c)
  \/ RenderFails(c)
  \/ FinishLost(c)

ReviewNext(c) ==
  \/ GracePeriodEnds(c)
  \/ RefreshRow(c)
  \/ \E n \in Tokens : Reconcile(c, n)

CallNext(c) == AdmissionNext(c) \/ GatewayNext(c) \/ ReviewNext(c)

Next ==
  \/ /\ \/ \E u \in Users, g \in Grants : Register(u, g)
        \/ \E c \in Calls : CallNext(c)
     /\ UNCHANGED adjusting
  \/ AdjustmentNext
  \/ Restart

Spec == Init /\ [][Next]_vars

-----------------------------------------------------------------------------
(* Invariants.                                                             *)

\* Every table holds rows of its shape; balances are never negative.
TypeOK ==
  /\ account \in [Users -> Account]
  /\ ledger  \in [Users -> Seq(Entry)]
  /\ res     \in [Calls -> Row \cup {NoRow}]
  /\ call    \in [Calls -> CallRow]
  /\ handler \in [Calls -> {"none", "serving", "rendering"}]
  /\ aged    \in SUBSET Calls
  /\ adjusting \in SUBSET Adjustment

\* The balance after entry i; before the first entry it is zero.
BalanceAfter(entries, i) ==
  IF i = 0 THEN [available |-> 0, reserved |-> 0]
  ELSE [available |-> entries[i].availableAfter,
        reserved  |-> entries[i].reservedAfter]

\* Each entry continues from its predecessor and leaves nothing below zero, the
\* balance continues from the last one.
Explains(entries, balance) ==
  /\ \A i \in DOMAIN entries :
       /\ BalanceAfter(entries, i) =
            Moved(BalanceAfter(entries, i - 1), entries[i].delta, entries[i].reservedDelta)
       /\ entries[i].availableAfter >= 0 /\ entries[i].reservedAfter >= 0
  /\ balance = BalanceAfter(entries, Len(entries))

\* The ledger explains the balance: no sequence of settlements, adjustments and
\* reviews loses or repeats a change between two audit rows, and none of them
\* takes what is not there (credits.change).
LedgerExplainsBalance ==
  \A u \in Users : Explains(ledger[u], account[u])

KeysDiffer(entries) ==
  \A i, j \in DOMAIN entries : entries[i].key = entries[j].key => i = j

\* No operation is ever posted twice.  UNIQUE(user_id, operation_key) decides it
\* where two adjustments with one key have both found it free (accounts.py:539);
\* the model gives no other change that help, and none needs it: whatever the
\* order of finishes, sweeps and reviews, only an adjustment is ever refused for
\* its key and rolled back.
OperationsPostedOnce == \A u \in Users : KeysDiffer(ledger[u])

\* One journal row per user and idempotency key (reject_duplicate_request).
OneCallPerKey ==
  \A c, d \in Calls :
    /\ res[c].state # "absent"
    /\ res[d].state # "absent"
    /\ res[c].user = res[d].user
    /\ res[c].key = res[d].key
    => c = d

\* What the ledger must say about a terminal row: a direct call was debited
\* what it used, a held one gave its hold back less what it used.
Records(entries, key, delta, reservedDelta) ==
  \E i \in DOMAIN entries : /\ entries[i].key = key
                            /\ entries[i].delta = delta
                            /\ entries[i].reservedDelta = reservedDelta

BilledAs(row, entries, key) ==
  \/ row.amount = 0 /\ row.actual = 0 /\ ~Posts(entries, key)
  \/ row.amount = 0 /\ row.actual # 0 /\ Records(entries, key, -row.actual, 0)
  \/ row.amount > 0 /\ Records(entries, key, row.amount - row.actual, -row.amount)

Billed(c) == BilledAs(res[c], ledger[res[c].user], <<"settle", c>>)

\* The journal and the ledger agree: an unresolved row has cost nothing yet,
\* whatever usage it has recorded, and a terminal row has cost what it says;
\* nobody but the caller pays.
JournalMatchesLedger ==
  \A c \in Calls :
    /\ res[c].state \in TerminalStates => Billed(c)
    /\ \A u \in Users :
         Posted(u, <<"settle", c>>) => /\ res[c].state \in TerminalStates
                                       /\ res[c].user = u

\* An open row has no confirmed usage yet and a hold it can return: the sweep
\* of credits.refresh_reconciliations, one transaction for all rows, never
\* meets a row whose settlement is refused and would undo the whole sweep.
OpenRowsSettle ==
  \A c \in Calls :
    res[c].state \in OpenStates =>
      /\ res[c].actual = NoValue
      /\ res[c].amount <= account[res[c].user].reserved

CallsOf(u, states) ==
  {c \in Calls : res[c].state \in states /\ res[c].user = u}

\* What the unresolved calls of a user still freeze.
Frozen(u) == SumFunction([c \in CallsOf(u, UnresolvedStates) |-> res[c].amount])

\* Open rows can be settled, and the frozen part of a balance is exactly what
\* unresolved historical holds of the user still freeze: no hold is freed twice
\* or forgotten, and direct billing freezes nothing (credits.py:145).
HoldsBackReserved ==
  /\ OpenRowsSettle
  /\ \A u \in Users : account[u].reserved = Frozen(u)

-----------------------------------------------------------------------------
(* Action properties.                                                      *)

\* A settled or released row is final: no late finish, sweep or administrator
\* changes it.
TerminalRowsFrozen ==
  [][\A c \in Calls : res[c].state \in TerminalStates => res'[c] = res[c]]_vars

\* Usage the provider confirmed is never overwritten by another amount, not by
\* a late finish() and not by a manual reconciliation.
ConfirmedUsageKept ==
  [][\A c \in Calls :
       res[c].state # "absent" /\ res[c].actual # NoValue
         => res'[c].actual = res[c].actual]_vars

\* What is settled stands: no late finish, sweep, retry or administrator changes
\* a final row or replaces an amount that was confirmed.
SettlementsStand == TerminalRowsFrozen /\ ConfirmedUsageKept

\* Usage is never guessed: whoever settles a row or puts it under review does it
\* to a call that has ended, finished by its handler or failed for its age, and
\* only the handler that knows nothing was dispatched releases one.  A crash, a
\* timeout and an administrator lead to a charge or to a review.
UsageNeverGuessed ==
  [][\A c \in Calls :
       res'[c] # res[c] /\ res'[c].state \notin OpenStates
         => /\ call'[c].status \in FinalStatuses
            /\ res'[c].state = "released" => handler[c] = "serving"]_vars

-----------------------------------------------------------------------------
(* Refinement.                                                             *)

\* The abstract wallet sees the whole balance, the payer of an admitted call
\* and the bill of a terminal one.
W == INSTANCE Wallet WITH
       Amounts <- Grants \cup Deltas,
       InitialFunds  <- [u \in Users |-> 0],
       InitialPayers <- [c \in Calls |-> NoValue],
       funds   <- [u \in Users |-> account[u].available + account[u].reserved],
       payer   <- [c \in Calls |-> IF res[c].state = "absent" THEN NoValue
                                   ELSE res[c].user],
       bill    <- [c \in Calls |-> IF res[c].state \in TerminalStates
                                   THEN res[c].actual ELSE NoValue]

\* Billing implements the wallet: admission costs nothing, a call is billed
\* once, in one step, to its own payer and within the payer's funds.
ImplementsWallet == W!Spec
=============================================================================
