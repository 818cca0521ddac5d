# Formal models of the Opsark platform server

These TLA+ modules model the server in `src/app/`: a FastAPI application over
PostgreSQL (or SQLite) that sells and forwards calls of language models, keeps
user accounts and their credits, synchronises skills, collects feedback and
publishes client and content releases. TLC checks the modules on small
instances; TLAPS proves theorems about eight of the modules for every instance.
`PROJECT.json` lists components, runs, mutants, findings, hazards, theorems and
the source lines behind every definition.

## 1. The system

| component | state | operations | talks to |
|---|---|---|---|
| Billing (`credits.py`, parts of `accounts.py`) | `credit_accounts`, `credit_ledger`, `model_reservations`, status and usage of `model_calls` | register, adjust, admission (`begin_direct_call`, historical `reserve`), `settle`, `refresh_reconciliations`, `reconcile` | called by the gateway and by administrators |
| Gateway (`gateway.py completions`, `model_delivery.py`) | a coroutine per call, the semaphore `app.state.model_slots`, `model_calls` | admission, forwarding, streams, errors, cancellation, status query | provider (httpx), billing, client |
| Sessions (`accounts.py`) | `user_accounts.disabled`, `user_sessions` | login, refresh, logout, ban, revoke one or all | every authenticated endpoint |
| Skills (`skill_sync.py`) | `user_skills`, `cloud_mutations` | `mutate`, listing | desktop client |
| Tickets (`feedback.py`) | `support_tickets`, `cloud_mutations` | submit, delete, reply, purge | user, staff, `maintenance.py` |
| GitHub sign-in (`github_auth.py`) | `github_flows`, `github_identities` | start, callback, complete | sessions, billing (grant) |
| Official content (`official_content.py`) | one draft and the releases of each kind | read, save, publish, withdraw, offer, download | staff, desktop client |
| Routing (`gateway.py` administration and listing, policy in `accounts.py`) | `model_providers`, `model_routes`, `model_keys`, `registration_policies`, `account_audits` | create and edit provider, save route, create and revoke key, save policy, list models, read for a call | administrators, clients, gateway |
| Parameters (`model_parameters.py`, `model_presets.py`) | none: a function of provider, route and request | merge, fit to the preset, advertise, validate, bound the output | gateway, listing |
| Client releases (`client_updates.py`) | client policy, releases | compare-and-set of a revision, publish | staff, desktop client |
| Rate limiter (`security.py`) | windows of time stamps in memory | `check` | most endpoints |
| Administration (`main.py`) | admins and their sessions | login | gateway administration |

**How they run.** One API process. `completions` is a coroutine on the event
loop; all the other handlers are plain functions that run in a thread pool, so
any two of them overlap. Each request has its own database session, whose
transaction ends with `commit` or, when the session is closed, with a rollback.
The engine keeps the default isolation, READ COMMITTED: a statement sees what is
committed when it runs; an UPDATE waits for a row's writer and evaluates its
WHERE again.

**What is hard.** Handlers that read, decide, and write in later statements;
conditional updates and unique keys that have to catch what happened between; a
call that ends long after others have settled it; the same request repeated
because its answer was lost; a process that stops between two commits; coroutines
that are cancelled at an await and generators that are closed at a yield, or
never started. `PROJECT.json` lists the hazards line by line.

**What makes each component correct.**
Billing: a call is billed once, to its payer, what the provider confirmed, within
the balance; the ledger explains every balance; rows get a final state.
Gateway: at most eight calls are forwarded; permits are conserved; clients are
told the truth about the dispatch; calls end.
Routing and parameters: a call is sent with what its client was quoted, to the
destination its key was entered for, with a combination that somebody checked;
configuration never raises the caller's budget or drops what the caller asked for;
what is advertised is served.
Sessions: a ban leaves no session; tokens are redeemed once; revocation is final.
Skills: no write is overwritten unseen, a repeated one is not applied twice;
tombstones hold; at most 200 ids.
Tickets: one ticket a submission, no reply lost, erased text stays erased.
GitHub sign-in: whoever proves to own a GitHub account gets into the one account
it is linked to, once a flow; links need consent; one GitHub account, one grant.
Official content: what is published is what an administrator had read; versions
increase and tell contents apart; clients are not led back.

## 2. The modules

### Credits, Wallet, MCCredits, CreditsProofs

`Credits` takes one transaction of the billing code as one step, but for an adjustment,
which looks for its key before it locks anything: `StartAdjust` is that reading,
`adjusting` holds the requests that found their key free, and `Adjust` writes under the
unique key of the ledger, or `RefuseAdjust` rolls back (409, or 402 without the balance). `account`,
`ledger`, `res` and `call` are the four tables; `handler[c]` is what remains of
`completions` for a call (serving it, or past `finish` and encoding the answer, also that of a response the
provider reports as failed);
`aged` holds the rows older than the grace period of `refresh_reconciliations`.
`Change` is `credits.change`: the conditional update with its ledger row. `Settle`
is `credits.settle` with both forms of billing, the direct one (`SettleDirect`)
and that of rows with a historical hold (`SettleHeld`, `SettleOverage`). A
settlement the code refuses with 409 or 402 rolls back: no step, or `FinishLost`
when the coroutine loses its transaction. `RefreshRow` and `Reconcile` are the
sweep and the administrator, `Restart` takes all coroutines away, `SplitFinish`
is the state that earlier releases left behind and the sweep exists to repair.

`Wallet` is the abstract promise: users have funds, a call has one payer and is
billed at most once, within the funds; calls may be billed together (`Charge`), as a sweep
does. `ImplementsWallet` maps funds to available plus reserved tokens, payer to the
journal row's user, bill to the final amount.

### BillingTx, MCBillingTx

What `Credits` takes as one step, statement by statement with the row locks. `tx[t]`
is a transaction: the `finish()` of a call, a sweep, or a review; `locked` holds its own
version of the rows it has locked, which `CommitAs` writes to `accounts` and `calls` and
`Abort` (the victim of a deadlock, a refusal, a lost connection, a crash) forgets.
`WriteStatus` flushes the `ModelCall` row and so locks it, `SettleCall` locks the account,
settles and commits; a sweep locks one account after the other in the order of user
ids (`RefreshCandidate`), closes late calls on the way (`CloseStale`, whose UPDATE looks at
its condition again after waiting) and commits at the end; a review locks the account,
closes, decides; an administrator adjusts an account that nobody has locked
(`AdjustAccount`, one statement and its commit). The lock of an account stands for those
of its journal rows too, since nobody writes one without the other. In the running system
one process with one event loop executes one `finish()` at a time; the model lets them overlap and does not rely
on it. A call can be alive and late: connecting, writing and reading each have a
timeout of their own of up to 900 seconds, the body another, and the grace period is
20 minutes. Calls with a historical hold and the second `finish()` after an answer that
cannot be encoded stay with `Credits`, as do the ledger rows and the keys that keep an
adjustment from being posted twice. `TxImplementsWallet` maps the committed balances to
funds and the rows they show settled to bills: both models of the billing implement the one
`Wallet`. The theorems are in `CreditsProofs`, which extends both; they share no names.

### Gateway, MCGateway, GatewayProofs

A step of `Gateway` is what a coroutine does from one await to the next. `at[c]`
is the await; `free` the semaphore; `answered`, `http`, `status`, `journal` are
what the gateway knows and writes; `told` is the `dispatchCertainty` the client
got; `reached` is the truth, which no program variable holds: whether the
provider got any of the request. `Finish`, `Tell` and `Release` are `finish()`,
`error_response()` and the return of the permit; `Close` is the `finally` clause, in which a
response is closed, an await, before its permit goes back. `code` is the error a later status
query goes by, as far as `NOT_DISPATCHED` tells errors apart. `Cancel` strikes at every await;
streams own their permit once they are handed over (`StartStream` to
`AbandonUnstarted`). `Restart` makes a new semaphore and loses the coroutines.
Settlement is reduced to its outcome here; `Credits` has the detail.

### Routing, MCRouting, RoutingProofs

`provider`, `route`, `modelKey`, `policy` and `audit` are the tables. An administrator's
request (`job`) reads row by row, each time what is committed by then, and writes at its
end; as the ORM does, an UPDATE writes the columns in which the new row differs from the
one read (`Updated`; for a route with its settings one by one, `UpdatedRoute`). `StartEdit`, `CheckEdit`, `WriteEdit` are `edit_provider`; `StartRoute`,
`CheckRoute`, `WriteRoute` are `save_route`; `ReadPolicy` is the page an administrator
decides on and `SavePolicy` the compare-and-set of its revision. A client (`call`) is
admitted (`AdmitUser`, `AdmitKey`), reads a route (`ReadRoute`) and then the provider, to
list (`Quote`) or to call (`Send`). `quote` is what the revision a client holds stands for: the
digest is modelled by what it is computed from. A provider and a route's settings fit (`Fits`)
if the defaults resolve with them and the address goes with the protocol, two constant
relations, `Resolvable` and `Reachable`; `Parameters` has the detail of the first. `overtaken` and
`raced` are history for `MisfitsNeedARace`: which administrators' edits another edit has
overtaken since they read, and whether one of these was written. An upstream key carries the
destination it was entered for, and `seen` in `audit` the policy an administrator had read:
both are kept for the properties. `MCRouting` adds a second initial state, an installation
that is set up, so that three more changes reach the interesting combinations.

### Parameters, MCParameters

Pure functions: `Merge`, `Canonical`, `Capped`, `Supported`, `Adapted`, `ResolveChat`, `ResolveResponses`,
`Capabilities` and `Sent` are `resolve_parameters` with its helpers, `resolve_route_parameters`,
`route_capabilities_v2` and the checks of `completions`. `Layer` is what validates as
`ModelParameters`; `Layers(group)` are those to choose from, in a run all that the names of a
group allow, in the theorems any. The state machine only chooses a
saved route, reads its capabilities and makes one call. The theorems are in `GatewayProofs`.

### Sessions, MCSessions, SessionsProofs

One account; requests on different accounts share no row. A request is a transaction of a worker: first reads (`Start...`),
`LockUser` (`lock_user`, the no-op UPDATE of the user row), `UpdateRow` for each
row its UPDATE reaches (it waits for the row's writer and evaluates the WHERE
clause `Matches` again), and a commit that makes the writes visible and frees the
locks. `Abort` is a refusal, a lost connection or a crash. `gen` numbers the pairs
of tokens of a session. `redeemed` counts successful exchanges of a refresh token,
`counted` the revocations that were reported and audited.

### Skills, MCSkills, SkillsProofs; Tickets, MCTickets, TicketsProofs

In both, a request reads in its first steps and writes in its last; the write and
the commit are one step, since unique keys and row locks make overlapping writers
wait and test again. In `Skills` the lookup of the mutation id, the check of the
row and the count, and the write are three statements (`Look`, `Check`, `Write`).
In `Tickets` a text is its number of replies; `Delete` writes the columns that differ from
the row it read first, the revision it computed from that row among them, as the ORM does;
`deleted` holds the tickets their author has deleted at some time, for the properties; `Reply` compares the revision
the staff member quotes; `Purge` is `purge_expired` with its commit.

### GithubFlow, MCGithubFlow, GithubFlowProofs

`account` and `linked` are `user_accounts` and `github_identities`, `flow` the rows
of `github_flows`, `expired` those whose time is over. A callback is three steps with
commits or awaits between them: `Claim` (the conditional update to `exchanging`,
committed), `Resolve` (GitHub's answer and the decision of `resolve_identity`) and
`Authorize` or `Fail` (the inserts, which the unique keys allow or refuse, and the
commit). A completion is `Read` and `Redeem`. `Lose` is a process that stops or a
request that is refused, `Purge` the update of `maintenance.py`, which strikes flows in
any state, also one whose callback is still waiting. `RegisterByPassword` and `SetDisabled` are
the other writers of accounts. The authorization code, PKCE and the desktop's
verifier identify the flow; a request that lacks them is refused and is no step.

### ContentReleases, MCContentReleases, ContentReleasesProofs

`drafts` is the history of the one draft row, whose length is its revision;
`releases` the publications in their order; `view[a]` the revision an administrator
has read. `SaveDraft` is one conditional update. A publication is one
transaction of three steps: `ClaimDraft` (the conditional update, which takes the row
lock), `Compose` (the reads and the versions of the items, `Bumped`) and `Insert`.
`Offered` is what `available_content` returns to a client of protocol 3.
A text stands for all the fields of a skill but its version.

## 3. What is checked

| run | instance | shows |
|---|---|---|
| `credits` | 1 user, 2 calls, 2 keys, 2 adjustments at once under 1 key, usage 0..2, holds of 1 | the ledger, the journal and `ImplementsWallet` (835,180 states) |
| `billing_tx` | 2 users with a call each, 2 sweeps, 1 review, usage 1, funds of 0 and 1, adjusted up to 1 | locks, status and journal in one commit, rows under review, `TxImplementsWallet` (841,269 states) |
| `gateway` | a call of an account, one of a model key, a stream; 1 permit | permits, honesty about the dispatch, status and journal together, calls end (22,506 states) |
| `routing` | 2 administrators, 1 client, 2 providers, 2 routes with 2 columns of settings, 2 aliases, 1 key, 3 changes | what is quoted is sent, misfits need a race, the policy and its audit (907,268 states) |
| `routing_keys` | the same, one choice for each column | **violated**: a key is sent to another destination |
| `parameters` | four groups of up to four names, budgets 1..3, gateway limit 1, preset limit 2, four kinds of call | budgets, precedence, explicit parameters, advertised formats (913,420 states) |
| `sessions` | 3 concurrent requests, 2 sessions, 1 rotation each | ban, redemption, revocation, deadlock freedom (320,907 states) |
| `skills` | 2 requests, 3 skills, room for 1, 4 mutation ids, 3 revisions | revisions explained, no silent revival, the limit (12,231 states) |
| `tickets` | 2 requests, 2 tickets, 2 keys, 2 replies, revisions up to 3 | one ticket a key, replies kept and limited, purged text gone (108,476 states) |
| `tickets_deleted` | 2 requests, 1 ticket | **violated**: deleted text can come back |
| `github` | 2 flows, 3 requests, 2 users, 2 GitHub accounts | link and consent, one registration, one redemption (555,410 states) |
| `content` | 2 administrators, 2 skills, 2 texts, 4 revisions, 3 versions, 2 Cores | publications and offers (724,129 states) |

The properties, by what they protect:

- *Billing.* `LedgerExplainsBalance` chains the ledger from zero to the balance, never below zero.
  `JournalMatchesLedger`, `OperationsPostedOnce`: the journal and the ledger tell
  the same story of every call, nothing is posted twice; of two adjustments that both found
  their key free the unique key lets one through, and nothing else needs it. `SettlementsStand` joins
  `TerminalRowsFrozen` and `ConfirmedUsageKept`: late or repeated settlements change
  nothing. `UsageNeverGuessed`: whoever settles a call or puts it under review leaves it finished,
  and only the handler that knows nothing was dispatched releases it at no cost.
  `HoldsBackReserved`: the frozen part of a balance is the sum of the holds, and an open
  row has no confirmed usage and a hold it can return (`OpenRowsSettle`), so that one
  refused row cannot undo a whole sweep.
- *Its transactions.* `DeadlockOnlyWhenLate`: `finish()` takes call then account, sweep and
  review account then call, so they can wait in a circle, but only around the
  `finish()` of a call that has outlived its grace period. `StatusFollowsJournal` and
  `TxImplementsWallet` hold across such a deadlock, whoever is its victim: a commit bills
  the calls it settles to payers who can afford them, and no call twice.
  `NeverSilentlyCharged`: a sweep carries a row under review over as it is, although its
  user was funded since. The step it excludes looks to the tables like an administrator's;
  it is told apart in the version of the row that the sweep holds.
- *Gateway.* `SlotsBalanced` (permits and their holders), `DispatchHonest` and
  `StatusAgreesWithAnswer` (what is said, now or later, is true), `JournalFollowsCall`,
  `CallsEnd` (every call ends, streams that their client abandoned at a yield apart).
- *Routing.* `DispatchedAsQuoted`; `MisfitsNeedARace`: `edit_provider` checks the routes,
  `save_route` the provider, and what they let through is stored only when saves overlap, never
  by way of a route that is switched off; `AllowedModelsExist`, `PolicyAudited`.
- *Parameters.* `CeilingKept`, `PrecedenceKept`, `ExplicitNeverDropped`, `AdvertisedServed`.
- *Sessions.* `BanRevokesAll`, `RedeemedOnce`, `RevokedForGood` (a revocation is final and
  counted once), `NoDeadlock` (no set of transactions waits for itself).
- *Skills.* `RevisionsExplained`, `NoSilentRevival`, `OvershootBounded` (the limit is passed by no
  more uploads than count at once). *Tickets.* `SubmittedOnce`, `RepliesKept` (with the limit of
  replies) and `PurgedStaysErased`, the latter two for tickets their author never deleted.
- *GitHub.* `AuthorizedAsLinked`, `LinkedByConsent` (with one registration for a GitHub
  account), `RedeemedOnce`.
- *Content.* `PublishedAsRead`, `VersionsIncrease` (publications, and from one to the next the items in both),
  `OffersOnlyFallByWithdrawal`.

Each of them has a mutant, a definition changed the way a plausible bug would
change the code, that makes TLC find it violated.

**Bounds.** The hazards of the billing involve one call settled by two parties or
two calls that compete for one balance, so two calls of one user suffice; users
share nothing. Two adjustments under one key can both find it free.
Usage 0, 1 and 2 gives free, affordable and unaffordable calls,
usage equal to and above the hold. One permit and three calls give a full gateway.
Three transactions give an issuing, a revoking and a third party to a deadlock
cycle. Two flows and two users with three requests give two callbacks and a completion
that race for one GitHub account or one e-mail. Three publications and two skills
let a skill change, leave and return. Two calls of two users with two sweeps and a
review are the smallest instance in which each kind of transaction meets each other
kind and two accounts are locked in an order; one user can pay at once, the other only
after an adjustment, so that a row comes under review and is funded later. Three changes suffice to save a provider and a route
at once around a call; two columns of settings, that two saves of a route mix them. Budgets 1, 2 and 3 lie at the gateway's limit, between it and the
preset's, and above both. `MaxRotations`, `MaxRevision`, `MaxVersion`, `MaxSaves` and the sets of ids and mutation ids bound
counters that only grow; where a run uses them up it may stop, and its cfg says
`CHECK_DEADLOCK FALSE` (also `gateway`, where all calls may be over).
Symmetry is used for safety only, never with `CallsEnd`.

**Fairness.** `FairSpec` of `Gateway` gives each call weak fairness of its own
steps (`Serve`), because each await there has a deadline: one second for the permit,
the httpx timeouts to connect, write and read, `asyncio.timeout` for the body.
Nothing is assumed of clients, of restarts, or of permits becoming free. No
other module states liveness.

### Findings

Two statements of the repository about itself that the runs refute:

- **Deleted tickets** (`feedback.py:204`, run `tickets_deleted`). The documents let the
  author delete a text. The deletion overwrites the revision, so the number other writers
  compare can repeat, and a reply under way writes the text back. Incrementing in SQL, as
  `purge_expired` does, would be enough. A consequence: with three requests at once a
  deletion that sets the revision back lets a reply revive a *purged* text in the same way,
  which is why `PurgedStaysErased` and `RepliesKept` speak of tickets never deleted.
- **Keys and destinations** (`gateway.py:163`, run `routing_keys`). The rule that a new
  address needs its key entered again is checked on the row as read, and the UPDATE writes the
  changed columns only. Two edits at once leave the address of one with the key of the other.

Behaviour worth knowing, without a run of its own:

- *Abandoned streams* (`gateway.py:847`). When the client goes while `events()` is suspended
  at a yield, `GeneratorExit` closes the generator: the `finally` frees the permit and the
  call stays `running` until a sweep finds it late. When the generator was never started, not even
  the `finally` runs and the permit is lost until the next restart (`leaked`).
- *Misfits* (`gateway.py:159`, `gateway.py:273`). Without the premise of `MisfitsNeedARace` its
  conclusion fails: two administrators at once can store a provider and a route that do not
  fit. Until one of them is saved again a call is refused (422), and a listing names the route
  without capabilities, or with them if only its protocol and the address do not match.
- *Skill limit* (`skill_sync.py:118`). Count and insert are not serialised: concurrent
  uploads pass the documented 200, by `OvershootBounded` no further than their number.
- *Versions of skills* (`official_content.py:274`). `publish` compares with the previous
  publication, so a skill that was dropped and returns with another text can get a
  version it had before.
- *Large budgets* (`model_presets.py:261`). A route whose default budget exceeds 16384 is
  advertised with 16384, yet every bounded call that names no budget is refused
  (`OUTPUT_LIMIT`); `AdvertisedServed` states this case apart. A Qwen route that thinks by
  default cannot be called without streaming.
- *Late deadlocks* (`credits.py:307`). The circle of `DeadlockOnlyWhenLate` is reachable.
  PostgreSQL breaks it; if `finish()` is the victim its report is lost and a sweep or an
  administrator decides the call.

## 4. What is proved

For any values of the constants that satisfy the named assumptions, and any number of
steps. Assumptions: `AmountAssumption` of `Credits` (grants, holds and tokens are naturals,
deltas integers, `NoValue` no integer), `BillingAssumption` of `BillingTx` (the same of funds,
adjustments and usage, users are numbers, as sweeps lock in the order of their ids, and no transaction is of two kinds),
`ParametersAssumption` (layers validate, limits are naturals), and the named ones of the other modules, which say
that limits and versions are naturals, that nobody is no request, user or administrator, and,
in `Gateway` and `Skills`, that the calls or the requests at once are finitely many. Calls and
sweeps of the billing may be infinitely many: that finitely many have begun is part of the
invariants.

| module | theorem | property |
|---|---|---|
| `CreditsProofs` | `TypeCorrect` | `TypeOK`: balances are never negative, rows keep their shape |
| | `LedgerCorrect` | `LedgerExplainsBalance` |
| | `BilledOnce`, `PostedOnce` | `JournalMatchesLedger`, `OperationsPostedOnce`, and `OneCallPerKey`: a user and a key have one row. Only adjustments are given the unique key of the ledger |
| | `SettlementsFinal` | `SettlementsStand` |
| | `NothingGuessed` | `UsageNeverGuessed` |
| | `HoldsBacked` | `HoldsBackReserved` |
| | `WalletRefined` | `ImplementsWallet` |
| | `BillingTxInvariant`, `BillingTxType` | of `BillingTx`: `BillingTxInv`, `TxTypeOK` |
| | `BillingTxCharges`, `BillingTxStatus`, `BillingTxDeadlock` | of `BillingTx`: `ChargedOnce`, `StatusFollowsJournal`, `DeadlockOnlyWhenLate` |
| | `FundedLaterNotCharged`, `TxWalletRefined` | of `BillingTx`: `NeverSilentlyCharged`, `TxImplementsWallet` |
| `GatewayProofs` | `GatewayTypeCorrect`, `PermitsConserved` | `TypeOK`, `SlotsBalanced` |
| | `ToldTheTruth`, `StatusRepeatsAnswer`, `JournalTracksCall` | `DispatchHonest`, `StatusAgreesWithAnswer`, `JournalFollowsCall` |
| | `ParametersInvariant`, `ParametersCeiling`, `ParametersPrecedence` | `ParametersInv`, `CeilingKept`, `PrecedenceKept` |
| | `ParametersExplicit`, `ParametersAdvertised` | `ExplicitNeverDropped`; `AdvertisedServed`, with the routes on which the advertised calls are refused |
| `RoutingProofs` | `RoutingTypeCorrect`, `SentAsQuoted`, `MisfitsAreRaces` | `TypeOK`, `DispatchedAsQuoted`, `MisfitsNeedARace` |
| | `AllowedStays`, `AuditComplete` | `AllowedModelsExist`, `PolicyAudited` |
| `SessionsProofs` | `SessionsTypeCorrect`, `BanIsFinal`, `TokensRedeemedOnce` | `TypeOK`, `BanRevokesAll`, `RedeemedOnce` |
| | `RevocationIsFinal`, `SessionsNoDeadlock` | `RevokedForGood`, `NoDeadlock`: of one account, with any number of sessions and requests |
| `SkillsProofs` | `SkillsTypeCorrect`, `EveryRevisionExplained`, `DeletionIsNotice`, `LimitNearlyKept` | `TypeOK`, `RevisionsExplained`, `NoSilentRevival`, `OvershootBounded` |
| `TicketsProofs` | `TicketsTypeCorrect`, `OneTicketPerSubmission`, `AcknowledgedRepliesKept`, `PurgeIsFinal` | `TypeOK`, `SubmittedOnce`, `RepliesKept`, `PurgedStaysErased` |
| `GithubFlowProofs` | `FlowTypeCorrect`, `AuthorizationFollowsLink`, `LinksNeedConsent`, `FlowRedeemedOnce` | `TypeOK`, `AuthorizedAsLinked`, `LinkedByConsent`, `RedeemedOnce` |
| `ContentReleasesProofs` | `ContentTypeCorrect`, `PublicationsAreRead`, `VersionsAreMonotone`, `OffersStand` | `TypeOK`, `PublishedAsRead`, `VersionsIncrease` (neighbouring publications), `OffersOnlyFallByWithdrawal` |

The bounds on counters (`MaxRevision`, `MaxVersion`, `MaxRotations`, `MaxSaves`) are any naturals there.
The modules' `TypeOK`s and `ChargedOnce` are proved only; no run repeats them.

**Billing.** The inductive invariant is `BillingInv`: `TypeOK`; `CallRecorded` (a row has its
call, and a call that is absent has no row, which makes the insertion at admission
safe); `UsageConsistent` (a row's confirmed amount agrees with its state);
`HoldPostings` (a hold was posted, and nothing but a hold, while the row is open);
`JournalMatchesLedger`, `OperationsPostedOnce`, `OneCallPerKey`. That a second
settlement cannot be posted follows from the row's state only because the ledger
has a settlement entry exactly for the final rows, and that agreement survives a
settlement only because open rows were known to have no entry. Each step is
proved from lemmas about `Change` and about the four ways to settle, which
all the actions share. `NothingGuessed` adds `ReviewedEnded`: a row comes under review only after
its call finished or was closed for its age; without it an administrator who
reconciles a row under review could leave a call shown running. `WalletRefined` maps
each action to `Fund`, `Admit`, `Charge` or a stutter.

`HoldsBackReserved` speaks of a sum over the calls of a user. What the proofs need of sums
(`SumEmpty`, `SumRemove`, `SumAgree`, `SumChange`, `SumSplit`) is proved without an induction principle: a
set for which it failed would have a smallest subset for which it fails (`SmallestSet`,
from the well-foundedness of the strict subsets of a finite set), and taking an element
away gives a smaller one. `HoldsInv` says that finitely many calls were admitted, that open
rows have no confirmed usage, and that `reserved` is the sum; each step moves both sides by
the same amount (`ReservedMove`).

**Its transactions.** `BillingTxInv`: the accounts are `Sound` (the balance is the funds less what the
settled rows used, the same sums), in the tables and in every version a transaction
holds; locks are `Exclusive`; and a transaction that holds an account sees the status of each
of its calls follow its row, in its own versions over the tables (`Covered`), but for
the call a sweep or a review is closing just then (`InHand`). This is why a `finish()` that
commits between two statements of a sweep does no harm: it would need the account. That
an `Abort` forgets the versions and a commit writes all of them gives `StatusFollowsJournal`.
For `DeadlockOnlyWhenLate`, take transactions that wait for one another, no `finish()` of a
late call among them. A closing one would wait for such a `finish()`; whoever is waited
for holds an account, and a review that holds one waits for no account; so all that are
waited for are sweeps between two rows. Sweeps that lock accounts have begun, hence
are finitely many; of these one wants the greatest account, and the sweep that
has that account wants a greater one (`Sweeping`: a sweep takes them in order).

`VersionsCarry`, inductive beside `BillingTxInv`: the versions a transaction holds are still based on
what is committed. They differ from it in rows that await usage only, and not in what the user
was given, since nobody commits or adjusts an account that is locked. `FundedLaterNotCharged` is a
case of it. It is also why a commit keeps the rows that are settled and the funds
(`CommittedBy`), which `TxWalletRefined` needs: every step leaves the accounts alone, or adjusts one, or
is such a commit (`TxEffect`). A commit bills the calls whose rows are settled after and were
not before; what an account has used splits into these and the former ones (`UsedSplit`), and
both versions are `Sound`, so the account pays just their sum and had it. Private steps, locks, aborts
and crashes are stutters of the wallet.

**Gateway.** `GatewayInv` says for each await what the coroutine there may have answered,
written and sent (`LocalInv`), and that the permits missing are those of its `Holders`. A step
of one call changes nothing of the others, so that the invariant is proved call by call.

**Parameters.** `ParametersInv` only says that the route was saved as it resolves and that the call
was sent as the gateway resolves it; the work is in the lemmas about the functions.
A function that holds `OneBudget` is followed through `Merge`, `Capped`, `Canonical`, `MergeCanonical`,
`Adapted` and `ForResponses`, for each with what it keeps of the budget (`Within`), of the names of
sampling (`KeepsExplicit`) and of thinking (`Decided`). The validator leaves at most one budget in a layer, which a
count by `Cardinality` says and the lemmas need as equality of names; merging keeps that,
so a budget the caller set is one when it is capped, under whatever name it is sent. The
canonical form says of thinking what the layer says under any alias (`CanonicalFacts`), so
the layers decide in their order. What DeepSeek ignores is omitted only if the caller
did not set it, since `Supported` refuses the call otherwise.

**Routing.** `RoutingInv` adds `RowsStay`: what a route or a request refers to exists, a request to
save a route keeps the alias it has read, and a page of the policy with the current
revision shows the current policy. `SentAsQuoted` needs nothing of the administrators: the
provider is read once and the digest covers all that is used. `MisfitsAreRaces` does: `FitInv`
says, as long as nothing has raced, that what an edit has read is still the row unless the edit
is `overtaken` (`Current`), that what it has checked still fits, and that the tables do. An edit
that is not overtaken then writes just the row it checked, although it writes columns.

**Sessions.** `SessionsInv` says of each transaction (`TxInv`) which locks it has at which stage, and
of each session (`Tokens`) how its pairs are counted. The holder of the user row is the only one that
inserts or rotates, hence a ban meets every session. For `SessionsNoDeadlock`: whoever has a
session row and still waits for something holds the user row, and a request waits for
others' session rows only; so in a set that waits for itself the holder of the user row would
wait for itself.

**Skills and tickets.** `SkillsInv`: each revision up to the current one has one maker and those to come have
none (`Explained`), the maker of the current one says whether the skill is deleted
(`Current`), and the skills there are plus the requests about to insert one exceed the limit by
less than the number of requests (`Counted`). `TicketsInv`: of a ticket never deleted a
reply quotes no revision to come, and if it quotes the current one it has read the replies
there are (`Fresh`).

**GitHub sign-in and content.** `GithubInv`: a callback has its flow to itself (`Owned`), and what
the tables said when it decided is still true or will be refused by a unique key (`AllDecided`).
`ContentInv`: publications are in the order of their versions; one under way has the draft it was
asked for and continues the last publication (`Publishing`). `HaveLast`, that any
publications have a last one, takes the place of an induction on their number.

Only model-checked: liveness, `CallsEnd`, which is out of the prover's reach, and the two
violations of section 3, which are about behaviours that exist. Every other property of a run is
a theorem for all values of the constants.

## 5. Not modelled

- *Client policy and releases* (`client_updates.py`): the compare-and-set of a revision that `Routing`
  has for the registration policy, and single insertions under a unique key.
- *Rate limiter* (`security.py`): a sliding window under one lock. Its pruning keeps every window
  of the last hour and no limit is longer, so there is nothing to interleave.
- *Administrator login* (`main.py`, `bootstrap.py`): one table of sessions, the shape of
  `Sessions` without rotation.
- *Call monitor, call details, token estimation*: read-only aggregation, redaction of text, and a
  function the running code no longer calls.
- *Payloads*: translation between providers' protocols (`model_protocols.py`), the parsing of
  requests, encryption, and the console are data or output without the state changes of interest.
- *Configuration, database setup, migrations*: assumed, with the isolation and the unique keys
  they give. SQLite's single writer allows fewer interleavings than PostgreSQL.

*Staff clients* are assumed to quote, in a reply to a ticket, a revision they were shown, as the
console does (`CloudPanel.vue:110`). The endpoint takes any revision from 1 on
(`feedback.py:247`): a client that made up the next one could, if another reply is committed
between the read and the write of its own, overwrite that reply.

Within the modelled parts: the expiry of access tokens, and the ways in which a
diagnostic write after `finish` fails (it is rolled back by itself); the names of providers and
routes, notes and expiry dates in `Routing`; messages, tools and the remaining parameters, which
are passed through, in `Parameters`; tools of official content, whose ids and versions
are fixed by the catalogue, clients of older protocols, and item versions near the limit
2147483647.

Every hazard in `PROJECT.json` names properties that watch over it; three are caught in part,
as their notes say. A row that its call left open (`gateway.py:609`) can be settled or reviewed
at any time, but that somebody ever does is not stated. A route whose default budget
exceeds the gateway's limit (`model_presets.py:261`) is advertised and refused, which the
property states as it is. A skill that was dropped from the publications and returns
(`official_content.py:279`) may repeat a version.

## 6. Plan

Written, in this order: `Wallet` (abstract), `Credits` (implements it), `Gateway`, `Sessions`,
`Skills`, `Tickets`, `GithubFlow`, `ContentReleases`, `BillingTx`, `Routing`, `Parameters`, and a module of
proofs for each, where those of `BillingTx` are with `Credits` and those of `Parameters` with
`Gateway`. To come:

1. `BillingTx` shown to implement `Credits` itself, ledger entry by entry. Both implement `Wallet`,
   which a sweep of many rows refines in one `Charge`; `Credits` would need a step for a set of
   rows and `BillingTx` the ledger.
2. `GatewayBilling`: `Gateway` shown to drive `Credits` only through its actions.
3. Official tools and the merge of their drafts with a new catalogue.
