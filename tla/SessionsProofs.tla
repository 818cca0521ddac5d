--------------------------- MODULE SessionsProofs ---------------------------
(***************************************************************************)
(* Theorems about Sessions: the ban, the redemption of refresh tokens, the *)
(* finality of a revocation and the absence of deadlocks, for any number   *)
(* of requests, sessions and rotations.                                    *)
(***************************************************************************)
EXTENDS Sessions, TLAPS

USE SessionsAssumption

-----------------------------------------------------------------------------
(* The inductive invariant.                                                *)

Kind(t) == job[t].kind
Working(t) == pc[t] = "updating"

\* A request has locks only while it updates; all but a logout, the one that
\* authenticates first, have the user row then.
Locks(t) ==
  /\ pc[t] = "idle" <=> job[t] = NoJob
  /\ pc[t] = "authenticating" => Kind(t) = "logout"
  /\ pc[t] = "locking" => Kind(t) # "logout"
  /\ userLock = t <=> Working(t) /\ Kind(t) # "logout"
  /\ ~Working(t) => todo[t] = {} /\ \A s \in Ids : rowLock[s] # t

\* The row of a login is its own and not there yet.
Login(t) ==
  Kind(t) = "login" =>
    /\ row[job[t].id].state = "absent"
    /\ \A u \in Workers \ {t} : Kind(u) = "login" => job[u].id # job[t].id
    /\ todo[t] = {} /\ \A s \in Ids : rowLock[s] # t
    /\ Working(t) => ~disabled

\* A rotation has locked the row with the token it presents, or still has to.
Refresh(t) ==
  Kind(t) = "refresh" =>
    /\ job[t].gen < MaxRotations
    /\ todo[t] \subseteq {job[t].id}
    /\ Working(t) => job[t].id \in todo[t] \/ rowLock[job[t].id] = t
    /\ \A s \in Ids : rowLock[s] = t => s = job[t].id /\ Live(s) /\ row[s].gen = job[t].gen

\* A logout locks one row and then waits for nothing.
Logout(t) ==
  Kind(t) = "logout" =>
    /\ row[job[t].id].state # "absent"
    /\ todo[t] \subseteq {job[t].id}
    /\ \A s \in Ids : rowLock[s] = t => s = job[t].id /\ todo[t] = {}

\* A revocation has locked live rows, a ban all of those it does not wait for.
Security(t) ==
  Kind(t) \in {"revoke", "revoke_all", "set_status"} =>
    /\ \A s \in Ids : rowLock[s] = t => Live(s)
    /\ Kind(t) = "set_status" /\ Working(t) /\ job[t].disabled /\ ~disabled =>
         \A s \in Ids : Live(s) => s \in todo[t] \/ rowLock[s] = t

TxInv(t) == Locks(t) /\ Login(t) /\ Refresh(t) /\ Logout(t) /\ Security(t)

\* Only tokens older than the current one have been redeemed.
Tokens(s) ==
  /\ row[s].state = "absent" => row[s].gen = 0
  /\ \A g \in Gens : g >= row[s].gen => redeemed[s][g] = 0

SessionsInv ==
  /\ TypeOK
  /\ \A t \in Workers : TxInv(t)
  /\ \A s \in Ids : Tokens(s)
  /\ BanRevokesAll
  /\ RedeemedOnce

\* What a request carries.
LEMMA JobKinds ==
  ASSUME TypeOK, NEW t \in Workers
  PROVE  /\ NoJob \notin Jobs /\ NoJob.kind = "none"
         /\ Kind(t) \in {"none", "login", "refresh", "logout", "revoke", "revoke_all", "set_status"}
         /\ Kind(t) \in {"login", "refresh", "logout", "revoke"} => job[t].id \in Ids
         /\ Kind(t) \in {"refresh", "logout"} => job[t].gen \in Gens
         /\ Kind(t) = "set_status" => job[t].disabled \in BOOLEAN
BY DEF TypeOK, Jobs, NoJob, Kind

\* One live session, and no request.
LEMMA InitInv == Init => SessionsInv
<1> SUFFICES ASSUME Init PROVE SessionsInv
  OBVIOUS
<1>1. row \in [Ids -> Row] /\ \A s \in Ids : row[s].gen = 0
  BY DEF Init, Row, Absent, Gens
<1>2. TypeOK
  BY <1>1 DEF Init, TypeOK, NoJob
<1>3. \A t \in Workers : TxInv(t)
  BY DEF Init, TxInv, Locks, Login, Refresh, Logout, Security, NoJob, Kind, Working
<1>4. \A s \in Ids : Tokens(s)
  BY <1>1 DEF Init, Tokens
<1>5. BanRevokesAll /\ RedeemedOnce
  BY DEF Init, BanRevokesAll, RedeemedOnce
<1>6. QED BY <1>2, <1>3, <1>4, <1>5 DEF SessionsInv

-----------------------------------------------------------------------------
(* Steps that commit nothing.                                              *)

\* They keep what is said of the tables, and of the other requests.
LEMMA Uncommitted ==
  ASSUME SessionsInv, NEW t \in Workers, TypeOK', TxInv(t)',
         UNCHANGED <<disabled, row, redeemed>>,
         \A u \in Workers \ {t} : /\ pc'[u] = pc[u] /\ job'[u] = job[u] /\ todo'[u] = todo[u]
                                  /\ userLock' = u <=> userLock = u
                                  /\ \A s \in Ids : rowLock'[s] = u <=> rowLock[s] = u,
         Kind(t)' = "login" => \A u \in Workers \ {t} : Kind(u) = "login" => job[u].id # job'[t].id
  PROVE  SessionsInv'
<1>1. ASSUME NEW u \in Workers \ {t} PROVE TxInv(u)'
  <2>1. /\ Locks(u)' /\ Refresh(u)'
        /\ Logout(u)' /\ Security(u)'
    <3>1. Locks(u)'
      BY <1>1 DEF SessionsInv, TxInv, Locks, Kind, Working
    <3>2. Refresh(u)'
      <4>1. CASE Kind(u) = "refresh"
        <5>1. Refresh(u) /\ job[u].id \in Ids /\ todo'[u] = todo[u]
          BY <1>1, <4>1, JobKinds DEF SessionsInv, TxInv
        <5>2. \A s \in Ids : rowLock'[s] = u => rowLock[s] = u /\ row'[s] = row[s]
          BY <1>1
        <5>3. Working(u)' => Working(u)
          BY <1>1 DEF Working
        <5>4. rowLock[job[u].id] = u => rowLock'[job[u].id] = u
          BY <1>1, <5>1
        <5>5. QED BY <1>1, <4>1, <5>1, <5>2, <5>3, <5>4 DEF Refresh, Kind, Live
      <4>2. CASE Kind(u) # "refresh"
        BY <1>1, <4>2 DEF Refresh, Kind
      <4>3. QED BY <4>1, <4>2
    <3>3. Logout(u)'
      BY <1>1 DEF SessionsInv, TxInv, Logout, Kind
    <3>4. Security(u)'
      BY <1>1 DEF SessionsInv, TxInv, Security, Kind, Working, Live
    <3>5. QED BY <3>1, <3>2, <3>3, <3>4
  <2>2. Login(u)'
    BY <1>1 DEF SessionsInv, TxInv, Login, Kind, Working
  <2>3. QED BY <2>1, <2>2 DEF TxInv
<1>2. (\A s \in Ids : Tokens(s))' /\ BanRevokesAll' /\ RedeemedOnce'
  BY DEF SessionsInv, Tokens, BanRevokesAll, RedeemedOnce, Live
<1>3. QED BY <1>1, <1>2 DEF SessionsInv

\* A request begins.
LEMMA BeginStep ==
  ASSUME SessionsInv, NEW t \in Workers, NEW request \in Jobs,
         NEW place \in {"authenticating", "locking"}, Begin(t, request, place, {}),
         place = "authenticating" <=> request.kind = "logout",
         request.kind = "login" =>
           /\ row[request.id].state = "absent"
           /\ \A u \in Workers : Kind(u) = "login" => job[u].id # request.id,
         request.kind = "refresh" => request.gen < MaxRotations,
         request.kind = "logout" => row[request.id].state # "absent"
  PROVE  SessionsInv'
<1>1. TypeOK'
  BY DEF SessionsInv, TypeOK, Begin, shared
<1>2. /\ pc'[t] = place /\ job'[t] = request /\ todo'[t] = {}
      /\ UNCHANGED <<disabled, row, redeemed, userLock, rowLock>>
      /\ \A u \in Workers \ {t} : pc'[u] = pc[u] /\ job'[u] = job[u] /\ todo'[u] = todo[u]
      /\ userLock # t /\ \A s \in Ids : rowLock[s] # t
  BY DEF SessionsInv, TypeOK, Begin, shared, TxInv, Locks, Working
<1>3. Locks(t)'
  BY <1>2, JobKinds DEF SessionsInv, Locks, Working, Kind
<1>4. Login(t)' /\ Refresh(t)' /\ Logout(t)' /\ Security(t)'
  BY <1>2 DEF Login, Refresh, Logout, Security, Kind, Working
<1>5. QED BY <1>1, <1>2, <1>3, <1>4, Uncommitted DEF TxInv, Kind

\* The first reads of every request.
LEMMA StartStep ==
  ASSUME SessionsInv, NEW t \in Workers, Start(t)
  PROVE  SessionsInv'
<1>1. ASSUME NEW s \in Ids, StartLogin(t, s) PROVE SessionsInv'
  <2>1. [kind |-> "login", id |-> s] \in Jobs
    BY DEF Jobs
  <2>2. QED BY <1>1, <2>1, BeginStep DEF StartLogin, Kind
<1>2. ASSUME NEW s \in Ids, StartRefresh(t, s) PROVE SessionsInv'
  <2>1. [kind |-> "refresh", id |-> s, gen |-> row[s].gen] \in Jobs
    BY DEF Jobs, SessionsInv, TypeOK, Row
  <2>2. QED BY <1>2, <2>1, BeginStep DEF StartRefresh
<1>3. ASSUME NEW s \in Ids, StartLogout(t, s) PROVE SessionsInv'
  <2>1. [kind |-> "logout", id |-> s, gen |-> row[s].gen] \in Jobs
    BY DEF Jobs, SessionsInv, TypeOK, Row
  <2>2. QED BY <1>3, <2>1, BeginStep DEF StartLogout, Live
<1>4. ASSUME NEW s \in Ids, StartRevoke(t, s) PROVE SessionsInv'
  <2>1. [kind |-> "revoke", id |-> s] \in Jobs
    BY DEF Jobs
  <2>2. QED BY <1>4, <2>1, BeginStep DEF StartRevoke
<1>5. ASSUME StartRevokeAll(t) PROVE SessionsInv'
  <2>1. [kind |-> "revoke_all"] \in Jobs
    BY DEF Jobs
  <2>2. QED BY <1>5, <2>1, BeginStep DEF StartRevokeAll
<1>6. ASSUME NEW expected \in BOOLEAN, NEW wanted \in BOOLEAN, StartSetStatus(t, expected, wanted)
      PROVE  SessionsInv'
  <2>1. [kind |-> "set_status", expected |-> expected, disabled |-> wanted] \in Jobs
    BY DEF Jobs
  <2>2. QED BY <1>6, <2>1, BeginStep DEF StartSetStatus
<1>7. QED BY <1>1, <1>2, <1>3, <1>4, <1>5, <1>6 DEF Start

\* A logout has found its account enabled.
LEMMA AuthenticateStep ==
  ASSUME SessionsInv, NEW t \in Workers, Authenticate(t)
  PROVE  SessionsInv'
<1>1. Kind(t) = "logout" /\ job[t].id \in Ids
  BY JobKinds DEF SessionsInv, TxInv, Locks, Authenticate
<1>2. TypeOK'
  BY <1>1 DEF SessionsInv, TypeOK, Authenticate, shared
<1>3. /\ pc'[t] = "updating" /\ job' = job /\ todo'[t] = {job[t].id}
      /\ UNCHANGED <<disabled, row, redeemed, userLock, rowLock>>
      /\ \A u \in Workers \ {t} : pc'[u] = pc[u] /\ todo'[u] = todo[u]
      /\ userLock # t /\ \A s \in Ids : rowLock[s] # t
  BY DEF SessionsInv, TypeOK, Authenticate, shared, TxInv, Locks, Working
<1>4. TxInv(t)'
  <2>1. Locks(t)'
    BY <1>1, <1>3 DEF Authenticate, SessionsInv, TxInv, Locks, Kind, Working
  <2>2. Logout(t)'
    BY <1>1, <1>3 DEF SessionsInv, TxInv, Logout, Kind
  <2>3. Login(t)' /\ Refresh(t)' /\ Security(t)'
    BY <1>1, <1>3 DEF Login, Refresh, Security, Kind
  <2>4. QED BY <2>1, <2>2, <2>3 DEF TxInv
<1>5. QED BY <1>1, <1>2, <1>3, <1>4, Uncommitted DEF Kind

\* The user row is locked and the rows of the UPDATE are selected.
LEMMA LockUserStep ==
  ASSUME SessionsInv, NEW t \in Workers, LockUser(t)
  PROVE  SessionsInv'
<1>1. /\ Kind(t) \in {"login", "refresh", "revoke", "revoke_all", "set_status"}
      /\ Kind(t) \in {"login", "refresh", "revoke"} => job[t].id \in Ids
  <2>1. pc[t] = "locking" /\ job[t] # NoJob /\ Kind(t) # "logout" /\ job[t] \in Jobs
    BY DEF SessionsInv, TypeOK, TxInv, Locks, LockUser
  <2>2. Kind(t) # "none"
    BY <2>1 DEF Jobs, Kind
  <2>3. QED BY <2>1, <2>2, JobKinds DEF SessionsInv
<1>2. /\ Selected(t) \in SUBSET Ids
      /\ Kind(t) = "login" => Selected(t) = {}
      /\ Kind(t) = "refresh" => Selected(t) = {job[t].id}
      /\ Kind(t) = "set_status" /\ job[t].disabled /\ ~disabled =>
           \A s \in Ids : Live(s) => s \in Selected(t)
  BY <1>1 DEF Selected, Kind
<1>3. TypeOK'
  BY <1>2 DEF SessionsInv, TypeOK, LockUser, shared
<1>4. /\ pc'[t] = "updating" /\ job' = job /\ todo'[t] = Selected(t)
      /\ userLock = Nobody /\ userLock' = t
      /\ UNCHANGED <<disabled, row, redeemed, rowLock>>
      /\ \A u \in Workers \ {t} : pc'[u] = pc[u] /\ todo'[u] = todo[u]
      /\ \A s \in Ids : rowLock[s] # t
  BY DEF SessionsInv, TypeOK, LockUser, shared, TxInv, Locks, Working
<1>5. Locks(t)'
  BY <1>1, <1>4 DEF LockUser, SessionsInv, TxInv, Locks, Kind, Working
<1>6. Login(t)'
  BY <1>1, <1>2, <1>4 DEF LockUser, ActiveOnly, SessionsInv, TxInv, Login, Kind, Working
<1>7. Refresh(t)' /\ Logout(t)' /\ Security(t)'
  BY <1>1, <1>2, <1>4 DEF SessionsInv, TxInv, Refresh, Logout, Security, Kind, Working, Live
<1>8. TxInv(t)'
  BY <1>5, <1>6, <1>7 DEF TxInv
<1>9. \A u \in Workers \ {t} : userLock' = u <=> userLock = u
  BY <1>4
<1>10. Kind(t)' = "login" => \A u \in Workers \ {t} : Kind(u) = "login" => job[u].id # job'[t].id
  BY <1>4 DEF SessionsInv, TxInv, Login, Kind
<1>11. QED BY <1>3, <1>4, <1>8, <1>9, <1>10, Uncommitted

\* The UPDATE takes a row, or finds that its WHERE holds no more.
LEMMA UpdateRowStep ==
  ASSUME SessionsInv, NEW t \in Workers, NEW s \in Ids, UpdateRow(t, s)
  PROVE  SessionsInv'
<1>1. /\ pc[t] = "updating" /\ s \in todo[t] /\ rowLock[s] = Nobody
      /\ Kind(t) \in {"refresh", "logout", "revoke", "revoke_all", "set_status"}
      /\ Kind(t) \in {"refresh", "logout"} => s = job[t].id
  <2>1. pc[t] = "updating" /\ s \in todo[t] /\ rowLock[s] = Nobody
    BY DEF UpdateRow
  <2>2. job[t] # NoJob /\ job[t] \in Jobs
    BY <2>1 DEF SessionsInv, TypeOK, TxInv, Locks
  <2>3. Kind(t) # "none"
    BY <2>2 DEF Jobs, Kind
  <2>4. Kind(t) # "login"
    BY <2>1 DEF SessionsInv, TxInv, Login
  <2>5. Kind(t) \in {"refresh", "logout"} => s = job[t].id
    BY <2>1 DEF SessionsInv, TxInv, Refresh, Logout
  <2>6. QED BY <2>1, <2>3, <2>4, <2>5, JobKinds DEF SessionsInv
<1>2. TypeOK'
  BY DEF SessionsInv, TypeOK, UpdateRow, shared
<1>3. /\ pc' = pc /\ job' = job /\ userLock' = userLock
      /\ UNCHANGED <<disabled, row, redeemed>>
      /\ todo'[t] = todo[t] \ {s}
      /\ \A u \in Workers \ {t} : todo'[u] = todo[u]
      /\ \A r \in Ids \ {s} : rowLock'[r] = rowLock[r]
      /\ rowLock'[s] = IF Matches(t, s) THEN t ELSE Nobody
  BY <1>1 DEF SessionsInv, TypeOK, UpdateRow, shared
<1>4. /\ Kind(t) = "refresh" => Matches(t, s) /\ Live(s) /\ row[s].gen = job[t].gen
      /\ Kind(t) \in {"revoke", "revoke_all", "set_status"} => (Matches(t, s) <=> Live(s))
  BY DEF UpdateRow, Matches, Kind
<1>5. Locks(t)' /\ Login(t)'
  BY <1>1, <1>3 DEF SessionsInv, TxInv, Locks, Login, Kind, Working
<1>6. Refresh(t)'
  BY <1>1, <1>3, <1>4 DEF SessionsInv, TxInv, Refresh, Kind, Working, Live
<1>7. Logout(t)'
  BY <1>1, <1>3 DEF SessionsInv, TxInv, Logout, Kind
<1>8. Security(t)'
  BY <1>1, <1>3, <1>4 DEF SessionsInv, TxInv, Security, Kind, Working, Live
<1>9. \A u \in Workers \ {t} : \A r \in Ids : rowLock'[r] = u <=> rowLock[r] = u
  BY <1>1, <1>3
<1>10. QED BY <1>1, <1>2, <1>3, <1>5, <1>6, <1>7, <1>8, <1>9, Uncommitted DEF TxInv, Kind

-----------------------------------------------------------------------------
(* Commits and aborts.                                                     *)

\* What a request that ends may have changed: rows it has locked, the row of
\* its login, and with the user row locked the account.
LEMMA Ended ==
  ASSUME SessionsInv, NEW t \in Workers, TypeOK', End(t),
         \A s \in Ids : row'[s] = row[s] \/ rowLock[s] = t \/ (Kind(t) = "login" /\ s = job[t].id),
         \A s \in Ids : row[s].state = "absent" =>
                          row'[s] = row[s] \/ (Kind(t) = "login" /\ s = job[t].id),
         \A s \in Ids : row[s].state # "absent" => row'[s].state # "absent",
         userLock # t => disabled' = disabled /\ \A s \in Ids : row'[s].state = "live" => Live(s),
         \A s \in Ids : Tokens(s)', BanRevokesAll', RedeemedOnce'
  PROVE  SessionsInv'
<1>1. /\ pc'[t] = "idle" /\ job'[t] = NoJob /\ todo'[t] = {}
      /\ \A u \in Workers \ {t} : pc'[u] = pc[u] /\ job'[u] = job[u] /\ todo'[u] = todo[u]
      /\ userLock' # t /\ \A s \in Ids : rowLock'[s] # t
  BY DEF SessionsInv, TypeOK, End
<1>2. \A u \in Workers \ {t} : /\ userLock' = u <=> userLock = u
                               /\ \A s \in Ids : rowLock'[s] = u <=> rowLock[s] = u
  BY DEF End
<1>3. TxInv(t)'
  BY <1>1 DEF TxInv, Locks, Login, Refresh, Logout, Security, NoJob, Kind, Working
<1>4. ASSUME NEW u \in Workers \ {t} PROVE TxInv(u)'
  <2>1. Locks(u)'
    BY <1>1, <1>2 DEF SessionsInv, TxInv, Locks, Kind, Working
  <2>2. Kind(u) = "login" => job[u].id \in Ids /\ row'[job[u].id] = row[job[u].id]
    BY JobKinds DEF SessionsInv, TxInv, Login
  <2>3. Kind(u) = "login" /\ Working(u) => disabled' = disabled
    BY DEF SessionsInv, TxInv, Locks
  <2>4. Login(u)'
    BY <1>1, <1>2, <2>2, <2>3 DEF SessionsInv, TxInv, Login, Kind, Working, NoJob
  <2>5. \A s \in Ids : rowLock[s] = u /\ Live(s) => row'[s] = row[s]
    BY DEF SessionsInv, TxInv, Login, Live
  <2>6. Refresh(u)'
    <3>1. CASE Kind(u) = "refresh"
      <4>1. /\ job[u].gen < MaxRotations
            /\ todo[u] \subseteq {job[u].id}
            /\ Working(u) => job[u].id \in todo[u] \/ rowLock[job[u].id] = u
            /\ \A s \in Ids : rowLock[s] = u =>
                   s = job[u].id /\ row[s].state = "live" /\ row[s].gen = job[u].gen
        BY <3>1 DEF SessionsInv, TxInv, Refresh, Live
      <4>2. job[u].id \in Ids
        BY <3>1, JobKinds DEF SessionsInv
      <4>3. \A s \in Ids : rowLock[s] = u => row'[s] = row[s]
        BY <2>5, <4>1 DEF Live
      <4>4. QED BY <1>1, <1>2, <4>1, <4>2, <4>3 DEF Refresh, Working, Live
    <3>2. CASE Kind(u) # "refresh"
      BY <1>1, <3>2 DEF Refresh, Kind
    <3>3. QED BY <3>1, <3>2
  <2>7. Kind(u) = "logout" => job[u].id \in Ids
    BY JobKinds DEF SessionsInv
  <2>8. Logout(u)'
    BY <1>1, <1>2, <2>7 DEF SessionsInv, TxInv, Logout, Kind
  <2>9. Security(u)'
    <3>1. CASE userLock = t
      BY <1>1, <1>2, <2>5, <3>1 DEF SessionsInv, TxInv, Locks, Security, Kind, Working, Live
    <3>2. CASE userLock # t
      BY <1>1, <1>2, <2>5, <3>2 DEF SessionsInv, TxInv, Locks, Security, Kind, Working, Live
    <3>3. QED BY <3>1, <3>2
  <2>10. QED BY <2>1, <2>4, <2>6, <2>8, <2>9 DEF TxInv
<1>5. QED BY <1>3, <1>4 DEF SessionsInv

\* End keeps the types of what it writes.
LEMMA EndType ==
  ASSUME SessionsInv, NEW t \in Workers, End(t), disabled' \in BOOLEAN, row' \in [Ids -> Row],
         aged' \subseteq Ids, redeemed' \in [Ids -> [Gens -> Nat]], counted' \in [Ids -> Nat]
  PROVE  TypeOK'
BY DEF SessionsInv, TypeOK, End

LEMMA AbortStep ==
  ASSUME SessionsInv, NEW t \in Workers, Abort(t)
  PROVE  SessionsInv'
<1>1. End(t) /\ UNCHANGED <<disabled, row, aged, redeemed, counted>>
  BY DEF Abort, shared
<1>2. TypeOK'
  BY <1>1, EndType DEF SessionsInv, TypeOK
<1>3. (\A s \in Ids : Tokens(s)') /\ BanRevokesAll' /\ RedeemedOnce'
  BY <1>1 DEF SessionsInv, Tokens, BanRevokesAll, RedeemedOnce, Live
<1>4. QED BY <1>1, <1>2, <1>3, Ended DEF Live

LEMMA CommitLoginStep ==
  ASSUME SessionsInv, NEW t \in Workers, CommitLogin(t)
  PROVE  SessionsInv'
<1>1. /\ Kind(t) = "login" /\ job[t].id \in Ids /\ ~disabled /\ userLock = t
      /\ row[job[t].id].state = "absent"
  BY JobKinds DEF SessionsInv, TxInv, Locks, Login, CommitLogin, Updated, Kind, Working
<1>2. /\ End(t) /\ UNCHANGED <<disabled, aged, redeemed, counted>>
      /\ row'[job[t].id] = [state |-> "live", gen |-> 0]
      /\ \A s \in Ids \ {job[t].id} : row'[s] = row[s]
  BY <1>1 DEF SessionsInv, TypeOK, CommitLogin
<1>3. row' \in [Ids -> Row]
  BY <1>1 DEF SessionsInv, TypeOK, CommitLogin, Row, Gens
<1>4. TypeOK'
  BY <1>2, <1>3, EndType DEF SessionsInv, TypeOK
<1>5. \A s \in Ids : Tokens(s)'
  BY <1>1, <1>2 DEF SessionsInv, Tokens
<1>6. BanRevokesAll' /\ RedeemedOnce'
  BY <1>1, <1>2 DEF SessionsInv, BanRevokesAll, RedeemedOnce
<1>7. QED BY <1>1, <1>2, <1>4, <1>5, <1>6, Ended

LEMMA CommitRefreshStep ==
  ASSUME SessionsInv, NEW t \in Workers, CommitRefresh(t)
  PROVE  SessionsInv'
<1> DEFINE r == job[t].id
           g == job[t].gen
<1>1. /\ r \in Ids /\ g \in Gens /\ g < MaxRotations
      /\ userLock = t /\ rowLock[r] = t /\ Live(r) /\ row[r].gen = g
  BY JobKinds DEF SessionsInv, TxInv, Locks, Refresh, CommitRefresh, Updated, Kind, Working
<1>2. /\ End(t) /\ UNCHANGED <<disabled, aged, counted>>
      /\ row'[r].state = "live" /\ row'[r].gen = g + 1
      /\ \A s \in Ids \ {r} : row'[s] = row[s] /\ redeemed'[s] = redeemed[s]
      /\ redeemed'[r][g] = redeemed[r][g] + 1
      /\ \A h \in Gens \ {g} : redeemed'[r][h] = redeemed[r][h]
  BY <1>1 DEF SessionsInv, TypeOK, CommitRefresh, Row, Live
<1>3. row' \in [Ids -> Row] /\ redeemed' \in [Ids -> [Gens -> Nat]]
  <2>1. g + 1 \in Gens
    BY <1>1 DEF Gens
  <2>2. row' \in [Ids -> Row]
    <3>1. row \in [Ids -> Row] /\ row' = [row EXCEPT ![r] = [@ EXCEPT !.gen = g + 1]]
      BY DEF SessionsInv, TypeOK, CommitRefresh
    <3>2. [row[r] EXCEPT !.gen = g + 1] \in Row
      BY <1>1, <2>1, <3>1 DEF Row
    <3>3. QED BY <1>1, <3>1, <3>2
  <2>3. redeemed' \in [Ids -> [Gens -> Nat]]
    BY <1>1 DEF SessionsInv, TypeOK, CommitRefresh
  <2>4. QED BY <2>2, <2>3
<1>4. TypeOK'
  BY <1>2, <1>3, EndType DEF SessionsInv, TypeOK
<1>5. redeemed[r][g] = 0
  BY <1>1 DEF SessionsInv, Tokens, Gens
<1>6. \A s \in Ids : Tokens(s)'
  <2>1. ASSUME NEW h \in Gens, h >= g + 1 PROVE redeemed'[r][h] = 0
    BY <1>1, <1>2, <2>1 DEF SessionsInv, Tokens, Gens
  <2>2. ASSUME NEW s \in Ids, s = r PROVE Tokens(s)'
    BY <1>2, <2>1, <2>2 DEF Tokens
  <2>3. ASSUME NEW s \in Ids, s # r PROVE Tokens(s)'
    BY <1>2, <2>3 DEF SessionsInv, Tokens
  <2>4. QED BY <2>2, <2>3
<1>7. BanRevokesAll'
  BY <1>1, <1>2 DEF SessionsInv, BanRevokesAll, Live
<1>8. RedeemedOnce'
  <2>1. ASSUME NEW h \in Gens PROVE redeemed'[r][h] <= 1
    BY <1>1, <1>2, <1>5 DEF SessionsInv, RedeemedOnce
  <2>2. ASSUME NEW s \in Ids \ {r}, NEW h \in Gens PROVE redeemed'[s][h] <= 1
    BY <1>2 DEF SessionsInv, RedeemedOnce
  <2>3. QED BY <2>1, <2>2 DEF RedeemedOnce
<1>9. \A s \in Ids : row'[s] = row[s] \/ rowLock[s] = t
  BY <1>1, <1>2
<1>10. \A s \in Ids : /\ row[s].state = "absent" => row'[s] = row[s]
                      /\ row[s].state # "absent" => row'[s].state # "absent"
  BY <1>1, <1>2 DEF Live
<1>11. QED BY <1>1, <1>2, <1>4, <1>6, <1>7, <1>8, <1>9, <1>10, Ended

\* A revocation leaves every row as it is but those it has locked.
LEMMA Revoked ==
  ASSUME SessionsInv, NEW t \in Workers, row' = Revoke(t)
  PROVE  /\ row' \in [Ids -> Row]
         /\ \A s \in Ids : IF rowLock[s] = t
                             THEN row'[s].state = "revoked" /\ row'[s].gen = row[s].gen
                             ELSE row'[s] = row[s]
<1>1. row \in [Ids -> Row]
  BY DEF SessionsInv, TypeOK
<1>2. ASSUME NEW s \in Ids
      PROVE  /\ row'[s] = IF rowLock[s] = t THEN [row[s] EXCEPT !.state = "revoked"] ELSE row[s]
             /\ row[s] \in Row
  BY <1>1 DEF Revoke, Held
<1>3. ASSUME NEW s \in Ids, rowLock[s] = t
      PROVE  row'[s] \in Row /\ row'[s].state = "revoked" /\ row'[s].gen = row[s].gen
  BY <1>2, <1>3 DEF Row
<1>4. ASSUME NEW s \in Ids PROVE row'[s] \in Row
  BY <1>2, <1>3
<1>5. row' \in [Ids -> Row]
  BY <1>4 DEF Revoke
<1>6. QED BY <1>2, <1>3, <1>5

LEMMA CommitLogoutStep ==
  ASSUME SessionsInv, NEW t \in Workers, CommitLogout(t)
  PROVE  SessionsInv'
<1>1. /\ End(t) /\ UNCHANGED <<disabled, aged, redeemed, counted>>
      /\ row' = Revoke(t) /\ Kind(t) = "logout"
  BY DEF CommitLogout, Kind
<1>2. TypeOK'
  BY <1>1, Revoked, EndType DEF SessionsInv, TypeOK
<1>3. \A s \in Ids : rowLock[s] = t => row[s].state # "absent"
  BY <1>1 DEF SessionsInv, TxInv, Logout
<1>4. \A s \in Ids : Tokens(s)'
  BY <1>1, <1>3, Revoked DEF SessionsInv, Tokens
<1>5. BanRevokesAll' /\ RedeemedOnce'
  BY <1>1, Revoked DEF SessionsInv, BanRevokesAll, RedeemedOnce, Live
<1>6. \A s \in Ids : row'[s].state = "live" => Live(s)
  BY <1>1, Revoked DEF Live
<1>7. \A s \in Ids : /\ row'[s] = row[s] \/ rowLock[s] = t
                     /\ row[s].state = "absent" => row'[s] = row[s]
                     /\ row[s].state # "absent" => row'[s].state # "absent"
  BY <1>1, <1>3, Revoked
<1>8. QED BY <1>1, <1>2, <1>4, <1>5, <1>6, <1>7, Ended

LEMMA CommitSecurityStep ==
  ASSUME SessionsInv, NEW t \in Workers, CommitSecurity(t)
  PROVE  SessionsInv'
<1>1. /\ End(t) /\ UNCHANGED <<aged, redeemed>> /\ row' = Revoke(t)
      /\ Working(t) /\ todo[t] = {}
      /\ Kind(t) \in {"revoke", "revoke_all", "set_status"}
      /\ disabled' = IF Kind(t) = "set_status" THEN job[t].disabled ELSE disabled
      /\ userLock = t
  BY DEF CommitSecurity, Updated, Kind, Working, SessionsInv, TxInv, Locks
<1>2. disabled' \in BOOLEAN /\ counted' \in [Ids -> Nat]
  BY <1>1, JobKinds DEF CommitSecurity, SessionsInv, TypeOK
<1>3. TypeOK'
  BY <1>1, <1>2, Revoked, EndType DEF SessionsInv, TypeOK
<1>4. \A s \in Ids : rowLock[s] = t => Live(s)
  BY <1>1 DEF SessionsInv, TxInv, Security
<1>5. \A s \in Ids : Tokens(s)'
  BY <1>1, <1>4, Revoked DEF SessionsInv, Tokens, Live
<1>6. BanRevokesAll'
  <2>1. CASE disabled
    BY <1>1, <2>1, Revoked DEF SessionsInv, BanRevokesAll, Live
  <2>2. CASE ~disabled /\ disabled'
    <3>1. Kind(t) = "set_status" /\ job[t].disabled
      BY <1>1, <2>2
    <3>2. \A s \in Ids : Live(s) => rowLock[s] = t
      BY <1>1, <2>2, <3>1 DEF SessionsInv, TxInv, Security
    <3>3. QED BY <1>1, <3>2, Revoked DEF BanRevokesAll, Live
  <2>3. QED BY <2>1, <2>2 DEF BanRevokesAll
<1>7. RedeemedOnce'
  BY <1>1 DEF SessionsInv, RedeemedOnce
<1>8. \A s \in Ids : /\ row'[s] = row[s] \/ rowLock[s] = t
                     /\ row[s].state = "absent" => row'[s] = row[s]
                     /\ row[s].state # "absent" => row'[s].state # "absent"
  BY <1>1, <1>4, Revoked DEF Live
<1>9. QED BY <1>1, <1>3, <1>5, <1>6, <1>7, <1>8, Ended

LEMMA AgeStep ==
  ASSUME SessionsInv, NEW s \in Ids, Age(s)
  PROVE  SessionsInv'
<1>1. UNCHANGED <<disabled, row, pc, job, todo, userLock, rowLock, redeemed, counted>>
  BY DEF Age, locals
<1>2. TypeOK'
  BY <1>1 DEF Age, SessionsInv, TypeOK
<1>3. \A t \in Workers : TxInv(t)'
  BY <1>1 DEF SessionsInv, TxInv, Locks, Login, Refresh, Logout, Security, Kind, Working, Live
<1>4. (\A r \in Ids : Tokens(r)') /\ BanRevokesAll' /\ RedeemedOnce'
  BY <1>1 DEF SessionsInv, Tokens, BanRevokesAll, RedeemedOnce, Live
<1>5. QED BY <1>2, <1>3, <1>4 DEF SessionsInv

-----------------------------------------------------------------------------
(* The invariant is inductive.                                             *)

LEMMA StepInv == SessionsInv /\ [Next]_vars => SessionsInv'
<1> SUFFICES ASSUME SessionsInv, [Next]_vars PROVE SessionsInv'
  OBVIOUS
<1>1. ASSUME NEW t \in Workers, Step(t) PROVE SessionsInv'
  <2>1. CASE Authenticate(t)  BY <2>1, AuthenticateStep
  <2>2. CASE LockUser(t)      BY <2>2, LockUserStep
  <2>3. CASE \E s \in Ids : UpdateRow(t, s)  BY <2>3, UpdateRowStep
  <2>4. CASE CommitLogin(t)   BY <2>4, CommitLoginStep
  <2>5. CASE CommitRefresh(t) BY <2>5, CommitRefreshStep
  <2>6. CASE CommitLogout(t)  BY <2>6, CommitLogoutStep
  <2>7. CASE CommitSecurity(t) BY <2>7, CommitSecurityStep
  <2>8. QED BY <1>1, <2>1, <2>2, <2>3, <2>4, <2>5, <2>6, <2>7 DEF Step
<1>2. CASE UNCHANGED vars
  <2>1. TypeOK' /\ \A t \in Workers : TxInv(t)'
    BY <1>2 DEF vars, SessionsInv, TypeOK, TxInv, Locks, Login, Refresh, Logout, Security,
                Kind, Working, Live
  <2>2. (\A s \in Ids : Tokens(s)') /\ BanRevokesAll' /\ RedeemedOnce'
    BY <1>2 DEF vars, SessionsInv, Tokens, BanRevokesAll, RedeemedOnce, Live
  <2>3. QED BY <2>1, <2>2 DEF SessionsInv
<1>3. QED BY <1>1, <1>2, StartStep, AbortStep, AgeStep DEF Next

LEMMA Invariance == Spec => []SessionsInv
<1>1. QED BY InitInv, StepInv, PTL DEF Spec

-----------------------------------------------------------------------------
(* Theorems.                                                               *)

\* Every variable keeps its type.
THEOREM SessionsTypeCorrect == Spec => []TypeOK
<1>1. SessionsInv => TypeOK
  BY DEF SessionsInv
<1>2. QED BY <1>1, Invariance, PTL

\* No login or rotation that began before a ban, or comes during it, leaves the
\* banned account with a session: issue_session and refresh ask for an enabled
\* account under the lock that set_user_status holds.
THEOREM BanIsFinal == Spec => []BanRevokesAll
<1>1. SessionsInv => BanRevokesAll
  BY DEF SessionsInv
<1>2. QED BY <1>1, Invariance, PTL

\* Of the refreshes with one token a single one gets a new pair, since its
\* UPDATE asks for the row with that token again.
THEOREM TokensRedeemedOnce == Spec => []RedeemedOnce
<1>1. SessionsInv => RedeemedOnce
  BY DEF SessionsInv
<1>2. QED BY <1>1, Invariance, PTL

\* Who has the lock of a session row but not that of the user row is a logout
\* that waits for nobody.
LEMMA HolderWaitsForNobody ==
  ASSUME SessionsInv, NEW t \in Workers, NEW s \in Ids, rowLock[s] = t, userLock # t
  PROVE  WaitsFor(t) = {}
<1>1. Working(t) /\ Kind(t) = "logout"
  BY DEF SessionsInv, TxInv, Locks
<1>2. todo[t] = {}
  BY <1>1 DEF SessionsInv, TxInv, Logout
<1>3. QED BY <1>1, <1>2 DEF WaitsFor, Working

\* Requests on one account, however many, never wait for one another in a
\* circle, whatever rows their UPDATEs select and in whatever order they reach
\* them.  (Requests on different accounts share no row.)
THEOREM SessionsNoDeadlock == Spec => []NoDeadlock
<1>1. SessionsInv => NoDeadlock
  <2> SUFFICES ASSUME SessionsInv, NEW W \in SUBSET Workers, W # {},
                      \A t \in W : WaitsFor(t) \cap W # {}
               PROVE  FALSE
    BY DEF NoDeadlock
  <2>1. ASSUME NEW v \in W, NEW s \in Ids, rowLock[s] = v PROVE userLock = v
    BY <2>1, HolderWaitsForNobody
  <2>2. userLock \notin W
    <3> SUFFICES ASSUME userLock \in W PROVE FALSE
      OBVIOUS
    <3>1. Working(userLock)
      BY DEF SessionsInv, TxInv, Locks
    <3>2. PICK v \in W : v \in WaitsFor(userLock)
      OBVIOUS
    <3>3. PICK s \in todo[userLock] : rowLock[s] = v /\ v # userLock
      BY <3>1, <3>2 DEF WaitsFor, Working
    <3>4. s \in Ids
      BY DEF SessionsInv, TypeOK
    <3>5. QED BY <2>1, <3>3, <3>4
  <2>3. PICK t \in W : TRUE
    OBVIOUS
  <2>4. PICK v \in W : v \in WaitsFor(t)
    OBVIOUS
  <2>5. userLock = v \/ \E s \in Ids : rowLock[s] = v
    BY <2>4 DEF WaitsFor, SessionsInv, TypeOK
  <2>6. QED BY <2>1, <2>2, <2>5
<1>2. QED BY <1>1, Invariance, PTL

\* A revoked session is never live again and its tokens never change, and of
\* the revocations that race for it one alone counts and audits it.
THEOREM RevocationIsFinal == Spec => RevokedForGood
<1> DEFINE Final(s) == /\ row[s].state = "revoked" => row'[s] = row[s]
                       /\ counted'[s] # counted[s] =>
                            row[s].state = "live" /\ row'[s].state = "revoked"
<1>1. SessionsInv /\ [Next]_vars => [\A s \in Ids : Final(s)]_vars
  <2> SUFFICES ASSUME SessionsInv, Next, NEW s \in Ids PROVE Final(s)
    OBVIOUS
  <2>1. CASE UNCHANGED <<row, counted>>
    BY <2>1
  <2>2. ASSUME NEW t \in Workers, CommitLogin(t) PROVE Final(s)
    <3>1. row[job[t].id].state = "absent" /\ row' = [row EXCEPT ![job[t].id] = [state |-> "live", gen |-> 0]]
      BY <2>2 DEF CommitLogin, SessionsInv, TxInv, Login, Kind
    <3>2. QED BY <2>2, <3>1 DEF CommitLogin, SessionsInv, TypeOK
  <2>3. ASSUME NEW t \in Workers, CommitRefresh(t) PROVE Final(s)
    <3>1. Live(job[t].id)
      BY <2>3, JobKinds DEF CommitRefresh, Updated, SessionsInv, TxInv, Refresh, Kind, Working
    <3>2. QED BY <2>3, <3>1 DEF CommitRefresh, SessionsInv, TypeOK, Live
  <2>4. ASSUME NEW t \in Workers, CommitLogout(t) PROVE Final(s)
    <3>1. row' = Revoke(t) /\ counted' = counted
      BY <2>4 DEF CommitLogout
    <3>2. row[s].state = "revoked" => row'[s] = row[s]
      BY <3>1 DEF Revoke, SessionsInv, TypeOK, Row
    <3>3. QED BY <3>1, <3>2
  <2>5. ASSUME NEW t \in Workers, CommitSecurity(t) PROVE Final(s)
    <3>1. /\ row' = Revoke(t)
          /\ counted'[s] = IF rowLock[s] = t THEN counted[s] + 1 ELSE counted[s]
      BY <2>5 DEF CommitSecurity, Held
    <3>2. rowLock[s] = t => Live(s)
      BY <2>5 DEF CommitSecurity, SessionsInv, TxInv, Security, Kind
    <3>3. QED BY <3>1, <3>2, Revoked DEF Live
  <2>6. ASSUME NEW t \in Workers, Start(t) \/ Authenticate(t) \/ LockUser(t) \/ Abort(t)
               \/ \E r \in Ids : UpdateRow(t, r)
        PROVE  UNCHANGED <<row, counted>>
    BY <2>6 DEF Start, StartLogin, StartRefresh, StartLogout, StartRevoke, StartRevokeAll,
                StartSetStatus, Begin, Authenticate, LockUser, Abort, UpdateRow, shared
  <2>7. ASSUME NEW r \in Ids, Age(r) PROVE UNCHANGED <<row, counted>>
    BY <2>7 DEF Age
  <2>8. QED BY <2>1, <2>2, <2>3, <2>4, <2>5, <2>6, <2>7 DEF Next, Step
<1>2. QED BY <1>1, Invariance, PTL DEF Spec, RevokedForGood
=============================================================================
