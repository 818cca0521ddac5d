----------------------------- MODULE BillingTx ------------------------------
(***************************************************************************)
(* The transactions behind the steps of Credits, statement by statement:   *)
(* finish() of the gateway, refresh_reconciliations and reconcile, with    *)
(* the row locks their UPDATEs take and keep until they commit, and the    *)
(* adjustments of the accounts meanwhile.                                  *)
(*                                                                         *)
(* Calls are billed directly (amount = 0).  The lock on an account also    *)
(* covers the journal rows of its user, which nobody writes without it, so *)
(* that what is done between two waits for a lock is one step.             *)
(***************************************************************************)
EXTENDS Integers, FiniteSetsExt

CONSTANTS
  UserIds,    \* user ids, in the order of ORDER BY user_id
  CallIds,    \* calls under way, each served by one coroutine
  Payer,    \* the user of each call
  Sweeps,   \* concurrent runs of refresh_reconciliations
  Reviews,  \* concurrent reconciliations by administrators
  Funds,    \* what each account starts with
  Adjustments, \* amounts by which administrators adjust an account
  MaxFunds, \* bound: what adjustments bring an account to, bills not counted
  Usages,   \* usage a provider reports or an administrator types
  Null   \* SQL NULL

ASSUME BillingAssumption ==
  /\ UserIds \subseteq Nat
  /\ Payer \in [CallIds -> UserIds]
  /\ Funds \in [UserIds -> Nat] /\ MaxFunds \in Nat
  /\ Adjustments \subseteq Int
  /\ Usages \subseteq Nat
  /\ Null \notin Int
  /\ CallIds \cap Sweeps = {} /\ CallIds \cap Reviews = {} /\ Sweeps \cap Reviews = {}

\* A coroutine settles its call in one transaction, named after the call.
Transactions == CallIds \cup Sweeps \cup Reviews

VARIABLES
  accounts,  \* committed: balance and journal rows of each user
  calls,     \* committed: ModelCall rows
  late,     \* calls older than RECONCILIATION_GRACE_SECONDS
  tx        \* the transactions, each with its own version of the rows it locked

txVars == <<accounts, calls, late, tx>>

PaidBy(u) == {c \in CallIds : Payer[c] = u}

Open == [state |-> "pending_usage", actual |-> Null]
Terminal(row) == row.state \in {"settled", "released"}

\* The rows a transaction has locked, in its version of them.
NoLocks == [accounts |-> <<>>, calls |-> <<>>]
Idle == [stage |-> "idle", locked |-> NoLocks]
Done == [stage |-> "done", locked |-> NoLocks]

TxInit ==
  /\ accounts = [u \in UserIds |->
                   [funded |-> Funds[u], available |-> Funds[u], row |-> [c \in PaidBy(u) |-> Open]]]
  /\ calls = [c \in CallIds |-> [status |-> "running", usage |-> Null]]
  /\ late = {}
  /\ tx = [t \in Transactions |-> Idle]

-----------------------------------------------------------------------------
(* Locks, versions, commit and rollback                                    *)

\* f with g in place of its values where g has one.
Overlay(g, f) == [x \in DOMAIN f |-> IF x \in DOMAIN g THEN g[x] ELSE f[x]]

With(f, x, value) ==
  [y \in DOMAIN f \cup {x} |-> IF y = x THEN value ELSE f[y]]

Accounts(t) == tx[t].locked.accounts
CallRows(t) == tx[t].locked.calls

AccountHolders(u) == {t \in Transactions : u \in DOMAIN Accounts(t)}
CallHolders(c) == {t \in Transactions : c \in DOMAIN CallRows(t)}

\* What t sees of an account it has locked or locks now.
AccountSeenBy(t, u) == Overlay(Accounts(t), accounts)[u]

AccountFree(t, u) == AccountHolders(u) \subseteq {t}
CallFree(t, c) == CallHolders(c) \subseteq {t}

Become(t, state) == tx' = [tx EXCEPT ![t] = state]

CommitAs(t, locked, state) ==
  /\ accounts' = Overlay(locked.accounts, accounts)
  /\ calls' = Overlay(locked.calls, calls)
  /\ Become(t, state)
  /\ UNCHANGED late

\* A refusal, a lost connection, the victim of a deadlock, or a process that
\* stops: nothing of the transaction remains.  A coroutine does not try again.
Abort(t) ==
  /\ tx[t].stage \notin {"idle", "done"}
  /\ Become(t, IF t \in CallIds THEN Done ELSE Idle)
  /\ UNCHANGED <<accounts, calls, late>>

\* The process stops before the coroutine comes to finish().
Vanish(c) ==
  /\ tx[c] = Idle
  /\ Become(c, Done)
  /\ UNCHANGED <<accounts, calls, late>>

BecomesLate(c) ==
  /\ c \notin late
  /\ late' = late \cup {c}
  /\ UNCHANGED <<accounts, calls, tx>>

-----------------------------------------------------------------------------
(* settle and settle_direct_call, on the account that is locked            *)

Refused(acc, c, actual) ==
  /\ ~Terminal(acc.row[c])
  /\ acc.row[c].actual \notin {Null, actual}
  /\ actual # Null

Settled(acc, c, actual, final) ==
  LET row == acc.row[c] IN
  CASE Terminal(row) -> acc
    [] ~Terminal(row) /\ actual = Null ->
         [acc EXCEPT !.row[c].state = "needs_reconciliation"]
    [] ~Terminal(row) /\ actual # Null /\ actual > acc.available ->
         [acc EXCEPT !.row[c] = [state |-> "needs_reconciliation", actual |-> actual]]
    [] OTHER ->
         [acc EXCEPT !.available = @ - actual,
                     !.row[c] = [state |-> final, actual |-> actual]]

\* The call is closed as failed, if it is (still) shown running; its usage
\* stays as it was.
Closed(row) == IF row.status = "running" THEN [row EXCEPT !.status = "failed"] ELSE row

-----------------------------------------------------------------------------
(* finish: the status is flushed first, then the account is locked.        *)
(* "failed" is also cancelled.  One process runs one finish() at a time;   *)
(* nothing here relies on that.                                            *)

WriteStatus(c, status, usage, actual, final) ==
  /\ tx[c] = Idle
  /\ CallFree(c, c)
  /\ Become(c, [stage |-> "settle", actual |-> actual, final |-> final,
                seen |-> accounts[Payer[c]].row[c],
                locked |-> [accounts |-> <<>>,
                            calls |-> With(<<>>, c, [status |-> status, usage |-> usage])]])
  /\ UNCHANGED <<accounts, calls, late>>

\* Mutant: settles the row as it was read before the account was locked.
SettleRowSeen(c) ==
  LET u == Payer[c]
      acc == [accounts[u] EXCEPT !.row[c] = tx[c].seen]
  IN /\ tx[c].stage = "settle"
     /\ AccountFree(c, u)
     /\ ~Refused(acc, c, tx[c].actual)
     /\ CommitAs(c, [tx[c].locked EXCEPT
                       !.accounts = With(<<>>, u, Settled(acc, c, tx[c].actual, tx[c].final))], Done)

\* The row is read again under the lock, settled, and all is committed.
SettleCall(c) ==
  LET u == Payer[c]
      acc == accounts[u]
  IN /\ tx[c].stage = "settle"
     /\ AccountFree(c, u)
     /\ ~Refused(acc, c, tx[c].actual)
     /\ CommitAs(c, [tx[c].locked EXCEPT
                       !.accounts = With(<<>>, u, Settled(acc, c, tx[c].actual, tx[c].final))], Done)

-----------------------------------------------------------------------------
(* refresh_reconciliations: one transaction over all candidates            *)

Unresolved(c) == ~Terminal(accounts[Payer[c]].row[c])

StartSweep(s) ==
  /\ tx[s] = Idle
  /\ Become(s, [stage |-> "sweep", late |-> late, locked |-> NoLocks,
                todo |-> {c \in CallIds : Unresolved(c) /\ (c \in late \/ calls[c].status # "running")}])
  /\ UNCHANGED <<accounts, calls, late>>

\* Mutant: the candidates come in any order.
AnyCandidate(todo) == todo

\* ORDER BY user_id; the order of one user's candidates is left open.
NextCandidates(todo) == {c \in todo : \A d \in todo : Payer[c] <= Payer[d]}

\* _trusted_terminal_usage
TerminalUsage(row) == IF row.status = "succeeded" THEN row.usage ELSE Null

\* Mutant: a call that outlived its grace period is left as it is.
RefreshCandidateOnly(s, c) ==
  LET u == Payer[c]
      acc == AccountSeenBy(s, u)
      after == IF acc.row[c].state = "pending_usage" /\ (c \in tx[s].late \/ calls[c].status # "running")
                 THEN Settled(acc, c, TerminalUsage(calls[c]), "settled")
                 ELSE acc
  IN /\ tx[s].stage = "sweep"
     /\ c \in NextCandidates(tx[s].todo)
     /\ AccountFree(s, u)
     /\ Become(s, [tx[s] EXCEPT !.todo = @ \ {c}, !.locked.accounts = With(@, u, after)])
     /\ UNCHANGED <<accounts, calls, late>>

\* Mutant: rows under review are settled too.
RefreshAnyRow(s, c) ==
  LET u == Payer[c]
      acc == AccountSeenBy(s, u)
      after == IF ~Terminal(acc.row[c]) /\ (c \in tx[s].late \/ calls[c].status # "running")
                 THEN Settled(acc, c, TerminalUsage(calls[c]), "settled")
                 ELSE acc
      locked == [tx[s].locked EXCEPT !.accounts = With(@, u, after)]
      todo == tx[s].todo \ {c}
  IN /\ tx[s].stage = "sweep"
     /\ c \in NextCandidates(tx[s].todo)
     /\ AccountFree(s, u)
     /\ Become(s,
          IF ~Terminal(acc.row[c]) /\ c \in tx[s].late /\ calls[c].status = "running"
            THEN [stage |-> "close", next |-> "sweep", at |-> c, late |-> tx[s].late,
                  todo |-> todo, locked |-> locked]
            ELSE [tx[s] EXCEPT !.todo = todo, !.locked = locked])
     /\ UNCHANGED <<accounts, calls, late>>

\* The account is locked, the row read again and settled or promoted; a call
\* that is late and shown running is closed next.
RefreshCandidate(s, c) ==
  LET u == Payer[c]
      acc == AccountSeenBy(s, u)
      after == IF acc.row[c].state = "pending_usage" /\ (c \in tx[s].late \/ calls[c].status # "running")
                 THEN Settled(acc, c, TerminalUsage(calls[c]), "settled")
                 ELSE acc
      locked == [tx[s].locked EXCEPT !.accounts = With(@, u, after)]
      todo == tx[s].todo \ {c}
  IN /\ tx[s].stage = "sweep"
     /\ c \in NextCandidates(tx[s].todo)
     /\ AccountFree(s, u)
     /\ Become(s,
          IF ~Terminal(acc.row[c]) /\ c \in tx[s].late /\ calls[c].status = "running"
            THEN [stage |-> "close", next |-> "sweep", at |-> c, late |-> tx[s].late,
                  todo |-> todo, locked |-> locked]
            ELSE [tx[s] EXCEPT !.todo = todo, !.locked = locked])
     /\ UNCHANGED <<accounts, calls, late>>

\* close_stale_call: the UPDATE waits for whoever has the row and then looks
\* at its condition again; it locks the row only if it still holds.
CloseStale(t) ==
  /\ tx[t].stage = "close"
  /\ CallFree(t, tx[t].at)
  /\ LET c == tx[t].at IN
       Become(t, [tx[t] EXCEPT
                    !.stage = tx[t].next,
                    !.locked.calls = IF calls[c].status = "running" THEN With(@, c, Closed(calls[c]))
                                                                   ELSE @])
  /\ UNCHANGED <<accounts, calls, late>>

EndSweep(s) ==
  /\ tx[s].stage = "sweep"
  /\ tx[s].todo = {}
  /\ CommitAs(s, tx[s].locked, Idle)

-----------------------------------------------------------------------------
(* reconcile                                                               *)

StartReview(r, c, actual) ==
  /\ tx[r] = Idle
  /\ Become(r, [stage |-> "review", at |-> c, actual |-> actual, locked |-> NoLocks])
  /\ UNCHANGED <<accounts, calls, late>>

\* Under the lock the row is unresolved and not in the hands of a live call.
LockReviewed(r) ==
  LET c == tx[r].at
      u == Payer[c]
      closes == c \in late /\ calls[c].status = "running"
  IN /\ tx[r].stage = "review"
     /\ AccountFree(r, u)
     /\ Unresolved(c)
     /\ accounts[u].row[c].state = "pending_usage" => c \in late \/ calls[c].status # "running"
     /\ Become(r, [stage |-> IF closes THEN "close" ELSE "decide", next |-> "decide",
                   at |-> c, actual |-> tx[r].actual,
                   locked |-> [accounts |-> With(<<>>, u, accounts[u]), calls |-> <<>>]])
     /\ UNCHANGED <<accounts, calls, late>>

\* What cannot be paid is committed too, as confirmed usage under review.
Decide(r) ==
  LET c == tx[r].at
      u == Payer[c]
      acc == AccountSeenBy(r, u)
  IN /\ tx[r].stage = "decide"
     /\ ~Refused(acc, c, tx[r].actual)
     /\ CommitAs(r, [tx[r].locked EXCEPT
                       !.accounts = With(@, u, Settled(acc, c, tx[r].actual, "settled"))], Idle)

-----------------------------------------------------------------------------
\* adjust: granted or taken by an administrator, never below zero.
AdjustAccount(u, delta) ==
  /\ AccountHolders(u) = {}
  /\ accounts[u].available + delta >= 0
  /\ accounts[u].funded + delta <= MaxFunds
  /\ accounts' = [accounts EXCEPT ![u].funded = @ + delta, ![u].available = @ + delta]
  /\ UNCHANGED <<calls, late, tx>>

FinishCall(c) ==
  \/ \E status \in {"succeeded", "failed"}, n \in Usages \cup {Null} :
       WriteStatus(c, status, n, n, "settled")
  \/ WriteStatus(c, "failed", Null, 0, "released")  \* nothing was dispatched
  \/ SettleCall(c)
  \/ Vanish(c)

Sweep(s) ==
  \/ StartSweep(s)
  \/ \E c \in CallIds : RefreshCandidate(s, c)
  \/ EndSweep(s)

Review(r) ==
  \/ \E c \in CallIds, actual \in Usages : StartReview(r, c, actual)
  \/ LockReviewed(r)
  \/ Decide(r)

TxNext ==
  \/ \E c \in CallIds : FinishCall(c) \/ BecomesLate(c)
  \/ \E u \in UserIds, delta \in Adjustments : AdjustAccount(u, delta)
  \/ \E s \in Sweeps : Sweep(s)
  \/ \E r \in Reviews : Review(r)
  \/ \E t \in Sweeps \cup Reviews : CloseStale(t)
  \/ \E t \in Transactions : Abort(t)

TxSpec == TxInit /\ [][TxNext]_txVars

-----------------------------------------------------------------------------
(* Properties                                                              *)

Rows == [state : {"pending_usage", "needs_reconciliation", "settled", "released"},
         actual : Nat \cup {Null}]
AccountRows(u) == [funded : Nat, available : Nat, row : [PaidBy(u) -> Rows]]
CallRecords == [status : {"running", "succeeded", "failed"},
                usage : Nat \cup {Null}]

\* The tables and every version of their rows have their shape; no balance is
\* negative, and no row is locked twice.
TxTypeOK ==
  /\ \A u \in UserIds : accounts[u] \in AccountRows(u)
  /\ calls \in [CallIds -> CallRecords]
  /\ late \subseteq CallIds
  /\ \A t \in Transactions :
       /\ \A u \in DOMAIN Accounts(t) : Accounts(t)[u] \in AccountRows(u) /\ AccountFree(t, u)
       /\ \A c \in DOMAIN CallRows(t) : CallRows(t)[c] \in CallRecords /\ CallFree(t, c)

\* Whom t waits for, were it to take its next step.
Waits(t) ==
  CASE tx[t].stage = "settle" -> AccountHolders(Payer[t]) \ {t}
    [] tx[t].stage = "sweep" ->
         (UNION {AccountHolders(Payer[c]) : c \in NextCandidates(tx[t].todo)}) \ {t}
    [] tx[t].stage = "review" -> AccountHolders(Payer[tx[t].at]) \ {t}
    [] tx[t].stage = "close" -> CallHolders(tx[t].at) \ {t}
    [] OTHER -> {}

\* Sweeps, reviews and settlements wait for each other in a circle only if one
\* of them is the finish() of a call that has outlived its grace period: then
\* it has the call and wants the account, while the other has the account and
\* wants to close the call.  In all else the locks are taken in one order.
DeadlockOnlyWhenLate ==
  \A stuck \in SUBSET Transactions :
    stuck # {} /\ (\A t \in stuck : Waits(t) \cap stuck # {}) => stuck \cap CallIds \cap late # {}

\* What the settled calls of an account have used.
Used(acc) ==
  SumFunction([c \in {c \in DOMAIN acc.row : Terminal(acc.row[c])} |-> acc.row[c].actual])

\* What is committed adds up: a balance is what the user was given less what
\* the settled calls say they used, each charged once, whichever of
\* finish(), sweep and review came first and whatever was rolled back.
ChargedOnce ==
  \A u \in UserIds : accounts[u].available = accounts[u].funded - Used(accounts[u])

\* The status of a call and its journal row change in one commit: a call is
\* shown running exactly as long as its row awaits its usage (credits.py:
\* close_stale_call, refresh_reconciliations; gateway.py: finish).
StatusFollowsJournal ==
  \A c \in CallIds :
    calls[c].status = "running" <=> accounts[Payer[c]].row[c].state = "pending_usage"

\* "Existing needs_reconciliation rows are never silently charged merely because
\* an account was funded later": a sweep carries a row that is under review over
\* as it is, whatever was paid in since (credits.py: refresh_reconciliations).
NeverSilentlyCharged ==
  \A s \in Sweeps : \A u \in DOMAIN Accounts(s) : \A c \in PaidBy(u) :
    accounts[u].row[c].state = "needs_reconciliation"
      => Accounts(s)[u].row[c] = accounts[u].row[c]

-----------------------------------------------------------------------------
(* Refinement                                                              *)

BillOf(c) == LET row == accounts[Payer[c]].row[c] IN IF Terminal(row) THEN row.actual ELSE Null

TxWallet == INSTANCE Wallet WITH
       Users   <- UserIds,
       Calls   <- CallIds,
       Amounts <- Adjustments,
       InitialFunds  <- Funds,
       InitialPayers <- Payer,
       NoValue <- Null,
       funds   <- [u \in UserIds |-> accounts[u].available],
       payer   <- Payer,
       bill    <- [c \in CallIds |-> BillOf(c)]

\* What is committed is a history of the wallet: a commit bills all the calls
\* that it settles to their payers, who can afford them, and no call twice.
TxImplementsWallet == TxWallet!Spec

=============================================================================
