------------------------------ MODULE Sessions ------------------------------
(***************************************************************************)
(* The login sessions of one user account, and the requests that issue,    *)
(* rotate and revoke them: src/app/accounts.py.                            *)
(*                                                                         *)
(* Every request is a transaction of one thread-pool worker.  Under READ   *)
(* COMMITTED a statement sees what is committed when it runs, an UPDATE    *)
(* waits for the row's writer and evaluates its WHERE again, and writes    *)
(* become visible, locks free, at commit.  The user row's lock is the one  *)
(* lock_user() takes.  Requests that are refused at their first read       *)
(* change nothing and are left out.                                        *)
(***************************************************************************)
EXTENDS Naturals, FiniteSets

CONSTANTS
  Workers,       \* concurrent requests
  Ids,           \* user_sessions.id
  MaxRotations,  \* bound: refresh tokens of a session that are redeemed
  Nobody         \* no worker

ASSUME SessionsAssumption ==
  /\ Nobody \notin Workers
  /\ MaxRotations \in Nat

VARIABLES
  disabled,   \* UserAccount.disabled
  row,        \* UserSession rows: state, and gen for the current pair of tokens
  aged,       \* sessions past refresh_expires
  pc,         \* where a request is
  job,        \* what it was asked
  todo,       \* rows its UPDATE has still to lock
  userLock,   \* the transaction that wrote the user row
  rowLock,    \* the transaction that wrote a session row
  redeemed,   \* refresh tokens exchanged for a new pair: [id, gen] -> times
  counted     \* times a revocation of the session was reported and audited

vars == <<disabled, row, aged, pc, job, todo, userLock, rowLock, redeemed, counted>>
locals == <<pc, job, todo>>
shared == <<disabled, row, aged, redeemed, counted>>

Gens == 0 .. MaxRotations
Row == [state : {"absent", "live", "revoked"}, gen : Gens]
Absent == [state |-> "absent", gen |-> 0]

\* Requests.  A login has chosen the id of its row; a refresh and a logout come
\* with the tokens of one generation; an administrator's with what was seen.
NoJob == [kind |-> "none"]
Jobs ==
  [kind : {"login", "revoke"}, id : Ids]
    \cup [kind : {"refresh", "logout"}, id : Ids, gen : Gens]
    \cup [kind : {"revoke_all"}]
    \cup [kind : {"set_status"}, expected : BOOLEAN, disabled : BOOLEAN]

Live(s) == row[s].state = "live"
Held(t) == {s \in Ids : rowLock[s] = t}

Init ==
  /\ disabled = FALSE
  /\ \E s \in Ids : row = [i \in Ids |-> IF i = s THEN [state |-> "live", gen |-> 0]
                                         ELSE Absent]
  /\ aged = {}
  /\ pc = [t \in Workers |-> "idle"]
  /\ job = [t \in Workers |-> NoJob]
  /\ todo = [t \in Workers |-> {}]
  /\ userLock = Nobody
  /\ rowLock = [s \in Ids |-> Nobody]
  /\ redeemed = [s \in Ids |-> [g \in Gens |-> 0]]
  /\ counted = [s \in Ids |-> 0]

-----------------------------------------------------------------------------
(* Transactions.                                                           *)

Begin(t, request, place, rows) ==
  /\ pc[t] = "idle"
  /\ pc' = [pc EXCEPT ![t] = place]
  /\ job' = [job EXCEPT ![t] = request]
  /\ todo' = [todo EXCEPT ![t] = rows]
  /\ UNCHANGED <<shared, userLock, rowLock>>

\* Commit or rollback: the worker is idle again and every lock is free.
End(t) ==
  /\ pc' = [pc EXCEPT ![t] = "idle"]
  /\ job' = [job EXCEPT ![t] = NoJob]
  /\ todo' = [todo EXCEPT ![t] = {}]
  /\ userLock' = IF userLock = t THEN Nobody ELSE userLock
  /\ rowLock' = [s \in Ids |-> IF rowLock[s] = t THEN Nobody ELSE rowLock[s]]

\* A refusal, a lost connection or a crash of the process.
Abort(t) ==
  /\ pc[t] # "idle"
  /\ End(t)
  /\ UNCHANGED shared

-----------------------------------------------------------------------------
(* The first, unlocked reads of each request.                              *)

\* The password (or the GitHub flow) is right and the account is not disabled.
StartLogin(t, s) ==
  /\ ~disabled
  /\ row[s].state = "absent"
  /\ \A u \in Workers : job[u].kind = "login" => job[u].id # s
  /\ Begin(t, [kind |-> "login", id |-> s], "locking", {})

\* The refresh token is known, of a revoked session or not.
StartRefresh(t, s) ==
  /\ row[s].state # "absent"
  /\ row[s].gen < MaxRotations
  /\ Begin(t, [kind |-> "refresh", id |-> s, gen |-> row[s].gen], "locking", {})

\* require_user reads the session first and the account in a second statement.
StartLogout(t, s) ==
  /\ Live(s)
  /\ Begin(t, [kind |-> "logout", id |-> s, gen |-> row[s].gen], "authenticating", {})

StartRevoke(t, s) == Begin(t, [kind |-> "revoke", id |-> s], "locking", {})

StartRevokeAll(t) == Begin(t, [kind |-> "revoke_all"], "locking", {})

StartSetStatus(t, expected, wanted) ==
  Begin(t, [kind |-> "set_status", expected |-> expected, disabled |-> wanted],
        "locking", {})

\* Logout takes no lock on the user row.
Authenticate(t) ==
  /\ pc[t] = "authenticating"
  /\ ~disabled
  /\ pc' = [pc EXCEPT ![t] = "updating"]
  /\ todo' = [todo EXCEPT ![t] = {job[t].id}]
  /\ UNCHANGED <<shared, job, userLock, rowLock>>

-----------------------------------------------------------------------------
(* lock_user: a no-op UPDATE of the user row, then the session rows that   *)
(* the request's own UPDATE selects.                                       *)

ActiveOnly(t) == job[t].kind \in {"login", "refresh"}

\* The rows of the second UPDATE, as its snapshot has them.
Selected(t) ==
  CASE job[t].kind = "login"      -> {}
    [] job[t].kind = "refresh"    -> {job[t].id}
    [] job[t].kind = "revoke"     -> {s \in {job[t].id} : Live(s)}
    [] job[t].kind = "revoke_all" -> {s \in Ids : Live(s)}
    [] job[t].kind = "set_status" ->
         {s \in Ids : Live(s) /\ job[t].disabled /\ ~disabled}

\* Mutant: issuing and rotating tokens need no lock on the user row.
LockRevokersOnly(t) ==
  /\ pc[t] = "locking"
  /\ ActiveOnly(t) => ~disabled
  /\ ~ActiveOnly(t) => userLock = Nobody
  /\ userLock' = IF ActiveOnly(t) THEN userLock ELSE t
  /\ job[t].kind = "set_status" => job[t].expected = disabled
  /\ job[t].kind = "revoke" => row[job[t].id].state # "absent"
  /\ pc' = [pc EXCEPT ![t] = "updating"]
  /\ todo' = [todo EXCEPT ![t] = Selected(t)]
  /\ UNCHANGED <<shared, job, rowLock>>

\* Mutant: a rotation writes the session row before it locks the user row.
LockSessionFirst(t) ==
  /\ pc[t] = "locking"
  /\ ActiveOnly(t) => ~disabled
  /\ job[t].kind = "set_status" => job[t].expected = disabled
  /\ job[t].kind = "revoke" => row[job[t].id].state # "absent"
  /\ IF job[t].kind = "refresh" /\ Held(t) = {}
       THEN /\ rowLock[job[t].id] = Nobody
            /\ rowLock' = [rowLock EXCEPT ![job[t].id] = t]
            /\ UNCHANGED <<locals, userLock>>
       ELSE /\ userLock = Nobody
            /\ userLock' = t
            /\ pc' = [pc EXCEPT ![t] = "updating"]
            /\ todo' = [todo EXCEPT ![t] = Selected(t) \ Held(t)]
            /\ UNCHANGED <<job, rowLock>>
  /\ UNCHANGED shared

\* A conflict with expected_disabled, an unknown session or a disabled account
\* ends the request instead (Abort).
LockUser(t) ==
  /\ pc[t] = "locking"
  /\ userLock = Nobody
  /\ ActiveOnly(t) => ~disabled
  /\ job[t].kind = "set_status" => job[t].expected = disabled
  /\ job[t].kind = "revoke" => row[job[t].id].state # "absent"
  /\ userLock' = t
  /\ pc' = [pc EXCEPT ![t] = "updating"]
  /\ todo' = [todo EXCEPT ![t] = Selected(t)]
  /\ UNCHANGED <<shared, job, rowLock>>

\* Mutant: the refresh token is looked up once, before the lock.
StillAsked(t, s) ==
  CASE job[t].kind = "refresh" -> Live(s) /\ s \notin aged
    [] job[t].kind = "logout"  -> TRUE
    [] OTHER                   -> Live(s)

\* Mutant: a rotation does not ask whether the session was revoked.
CurrentToken(t, s) ==
  CASE job[t].kind = "refresh" -> row[s].gen = job[t].gen /\ s \notin aged
    [] job[t].kind = "logout"  -> TRUE
    [] OTHER                   -> Live(s)

\* The WHERE clause of the second UPDATE on a row, when its turn comes.
Matches(t, s) ==
  CASE job[t].kind = "refresh" -> Live(s) /\ row[s].gen = job[t].gen /\ s \notin aged
    [] job[t].kind = "logout"  -> TRUE
    [] OTHER                   -> Live(s)

\* The UPDATE reaches a row that no other transaction has written.  A refresh
\* that finds no row to rotate is refused (Abort).
UpdateRow(t, s) ==
  /\ pc[t] = "updating"
  /\ s \in todo[t]
  /\ rowLock[s] = Nobody
  /\ job[t].kind = "refresh" => Matches(t, s)
  /\ todo' = [todo EXCEPT ![t] = @ \ {s}]
  /\ rowLock' = IF Matches(t, s) THEN [rowLock EXCEPT ![s] = t] ELSE rowLock
  /\ UNCHANGED <<shared, pc, job, userLock>>

-----------------------------------------------------------------------------
(* Commits.                                                                *)

Updated(t) == pc[t] = "updating" /\ todo[t] = {}

Revoke(t) == [s \in Ids |-> IF s \in Held(t) THEN [row[s] EXCEPT !.state = "revoked"]
                            ELSE row[s]]

CommitLogin(t) ==
  /\ Updated(t) /\ job[t].kind = "login"
  /\ row' = [row EXCEPT ![job[t].id] = [state |-> "live", gen |-> 0]]
  /\ End(t)
  /\ UNCHANGED <<disabled, aged, redeemed, counted>>

\* A new pair of tokens; refresh_expires stays what it was.
CommitRefresh(t) ==
  /\ Updated(t) /\ job[t].kind = "refresh"
  /\ row' = [row EXCEPT ![job[t].id].gen = job[t].gen + 1]
  /\ redeemed' = [redeemed EXCEPT ![job[t].id][job[t].gen] = @ + 1]
  /\ End(t)
  /\ UNCHANGED <<disabled, aged, counted>>

CommitLogout(t) ==
  /\ Updated(t) /\ job[t].kind = "logout"
  /\ row' = Revoke(t)
  /\ End(t)
  /\ UNCHANGED <<disabled, aged, redeemed, counted>>

\* set_user_status, revoke_all_sessions and revoke_user_session, with the count
\* they report and audit.
CommitSecurity(t) ==
  /\ Updated(t) /\ job[t].kind \in {"revoke", "revoke_all", "set_status"}
  /\ disabled' = IF job[t].kind = "set_status" THEN job[t].disabled ELSE disabled
  /\ row' = Revoke(t)
  /\ counted' = [s \in Ids |-> IF s \in Held(t) THEN counted[s] + 1 ELSE counted[s]]
  /\ End(t)
  /\ UNCHANGED <<aged, redeemed>>

-----------------------------------------------------------------------------
\* Thirty days go by since a session was issued.
Age(s) ==
  /\ row[s].state # "absent"
  /\ s \notin aged
  /\ aged' = aged \cup {s}
  /\ UNCHANGED <<disabled, row, locals, userLock, rowLock, redeemed, counted>>

Start(t) ==
  \/ \E s \in Ids : \/ StartLogin(t, s) \/ StartRefresh(t, s)
                    \/ StartLogout(t, s) \/ StartRevoke(t, s)
  \/ StartRevokeAll(t)
  \/ \E expected, wanted \in BOOLEAN : StartSetStatus(t, expected, wanted)

Step(t) ==
  \/ Authenticate(t) \/ LockUser(t)
  \/ \E s \in Ids : UpdateRow(t, s)
  \/ CommitLogin(t) \/ CommitRefresh(t) \/ CommitLogout(t) \/ CommitSecurity(t)

Next ==
  \/ \E t \in Workers : Start(t) \/ Step(t) \/ Abort(t)
  \/ \E s \in Ids : Age(s)

Spec == Init /\ [][Next]_vars

-----------------------------------------------------------------------------
(* Properties.                                                             *)

TypeOK ==
  /\ disabled \in BOOLEAN
  /\ row      \in [Ids -> Row]
  /\ aged     \subseteq Ids
  /\ pc       \in [Workers -> {"idle", "authenticating", "locking", "updating"}]
  /\ job      \in [Workers -> Jobs \cup {NoJob}]
  /\ todo     \in [Workers -> SUBSET Ids]
  /\ userLock \in Workers \cup {Nobody}
  /\ rowLock  \in [Ids -> Workers \cup {Nobody}]
  /\ redeemed \in [Ids -> [Gens -> Nat]]
  /\ counted  \in [Ids -> Nat]

\* "avoid a login that began before the revocation getting around the ban": no
\* login or rotation, however it interleaves with the ban, leaves a disabled
\* account with a session that is not revoked, so unbanning revives none.
BanRevokesAll == disabled => \A s \in Ids : ~Live(s)

\* Of concurrent refreshes with one token a single one gets a new pair.
RedeemedOnce == \A s \in Ids, g \in Gens : redeemed[s][g] <= 1

\* The transactions a request waits for.
WaitsFor(t) ==
  {u \in Workers \ {t} :
     \/ pc[t] = "locking" /\ userLock = u
     \/ \E s \in todo[t] : rowLock[s] = u}

\* No set of requests ever waits for one another: the user row is locked before
\* session rows, and only its holder locks more than one of these.
NoDeadlock ==
  \A W \in (SUBSET Workers) \ {{}} : \E t \in W : WaitsFor(t) \cap W = {}

\* A session that is revoked stays so and is given no further tokens, and
\* "repeated revocation does not record the change again": of concurrent bans,
\* revocations and logouts only one that revokes a session reports it.
RevokedForGood ==
  [][\A s \in Ids :
       /\ row[s].state = "revoked" => row'[s] = row[s]
       /\ counted'[s] # counted[s] => row[s].state = "live" /\ row'[s].state = "revoked"]_vars
=============================================================================
