-------------------------- MODULE GithubFlowProofs --------------------------
(***************************************************************************)
(* Theorems about GithubFlow: an authorization follows the link, links     *)
(* need consent, and a flow is redeemed once, for any number of flows,     *)
(* requests, users and GitHub accounts.                                    *)
(***************************************************************************)
EXTENDS GithubFlow, TLAPS

USE GithubAssumption

-----------------------------------------------------------------------------
(* The inductive invariant.                                                *)

Callback(r) == pc[r] \in {"exchanging", "resolved"}

\* A callback has its flow to itself, and nothing has come of it yet.
Owned ==
  \A r \in Requests :
    Callback(r) =>
      /\ flow[job[r].flow].status \in {"exchanging", "expired"}
      /\ flow[job[r].flow].github = NoGithub
      /\ redeemed[job[r].flow] = 0
      /\ \A s \in Requests \ {r} : Callback(s) => job[s].flow # job[r].flow

\* What the tables said of the GitHub account is still true, or a unique key
\* will refuse it.
Decided(r) ==
  /\ job[r].github \in Githubs
  /\ job[r].user \in Users
  /\ job[r].kind \in {"known", "link", "register"}
  /\ job[r].kind = "known" => linked[job[r].github] = job[r].user
  /\ job[r].kind # "register" => account[job[r].user].state # "absent"
  /\ job[r].kind = "link" => /\ flow[job[r].flow].mode = "link"
                             /\ flow[job[r].flow].user = job[r].user

AllDecided == \A r \in Requests : pc[r] = "resolved" => Decided(r)

\* Before its authorization a flow names no GitHub account and is not redeemed.
Rows ==
  /\ \A f \in Flows :
       /\ flow[f].status \in {"absent", "pending", "exchanging"} => flow[f].github = NoGithub
       /\ flow[f].mode = "link" => flow[f].user \in Users
       /\ flow[f].status \in {"authorized", "consumed"} => flow[f].user \in Users
       /\ flow[f].status \notin {"consumed", "expired"} => redeemed[f] = 0
  /\ \A g \in Githubs : linked[g] # NoUser => account[linked[g]].state # "absent"

GithubInv ==
  /\ TypeOK
  /\ Owned
  /\ AllDecided
  /\ Rows
  /\ AuthorizedAsLinked
  /\ LinkedByConsent
  /\ RedeemedOnce

\* A request at work has a flow.
LEMMA JobType ==
  ASSUME TypeOK, NEW r \in Requests
  PROVE  /\ NoJob \notin Jobs
         /\ pc[r] # "idle" => job[r] \in Jobs /\ job[r].flow \in Flows
BY DEF TypeOK, Jobs, NoJob

\* Updates of a flow give a flow.
LEMMA FlowType ==
  ASSUME NEW row \in Flow, NEW status \in Statuses, NEW mode \in {"login", "link"},
         NEW u \in Users \cup {NoUser}, NEW g \in Githubs \cup {NoGithub}
  PROVE  /\ [row EXCEPT !.status = status] \in Flow
         /\ [row EXCEPT !.status = status, !.mode = mode, !.user = u] \in Flow
         /\ [row EXCEPT !.status = status, !.user = u, !.github = g] \in Flow
BY DEF Flow

\* A step that changes no table keeps what is said of the tables.
LEMMA TablesKept ==
  ASSUME GithubInv, UNCHANGED <<account, linked, flow, redeemed>>
  PROVE  Rows' /\ AuthorizedAsLinked' /\ LinkedByConsent' /\ RedeemedOnce'
<1>1. Rows'
  BY DEF GithubInv, Rows
<1>2. AuthorizedAsLinked' /\ RedeemedOnce'
  BY DEF GithubInv, AuthorizedAsLinked, RedeemedOnce
<1>3. LinkedByConsent'
  BY DEF GithubInv, LinkedByConsent
<1>4. QED BY <1>1, <1>2, <1>3

\* A step that changes the status of flows and authorizes none keeps the links.
LEMMA LinksKept ==
  ASSUME GithubInv, UNCHANGED <<account, linked>>,
         \A f \in Flows :
           /\ flow'[f].github = flow[f].github
           /\ flow'[f].mode = flow[f].mode
           /\ flow'[f].user = flow[f].user
           /\ flow'[f].status \in {"authorized", "consumed"}
              => flow[f].status \in {"authorized", "consumed"}
  PROVE  AuthorizedAsLinked' /\ LinkedByConsent'
<1>1. AuthorizedAsLinked'
  BY DEF GithubInv, AuthorizedAsLinked
<1>2. ASSUME NEW g \in Githubs, linked[g] # NoUser, account[linked[g]].origin # g
      PROVE  \E f \in Flows : flow'[f].mode = "link" /\ flow'[f].user = linked[g] /\ flow'[f].github = g
  <2>1. PICK f \in Flows : flow[f].mode = "link" /\ flow[f].user = linked[g] /\ flow[f].github = g
    BY <1>2 DEF GithubInv, LinkedByConsent
  <2>2. QED BY <2>1
<1>3. QED BY <1>1, <1>2 DEF GithubInv, LinkedByConsent

\* A request that ends leaves the others what they hold.
LEMMA EndedRequest ==
  ASSUME TypeOK, NEW r \in Requests, End(r)
  PROVE  /\ pc'[r] = "idle" /\ job'[r] = NoJob
         /\ \A s \in Requests \ {r} : pc'[s] = pc[s] /\ job'[s] = job[s]
         /\ pc' \in [Requests -> {"idle", "exchanging", "resolved", "redeeming"}]
         /\ job' \in [Requests -> Jobs \cup {NoJob}]
         /\ \A s \in Requests : pc'[s] = "idle" <=> job'[s] = NoJob
BY DEF TypeOK, End

\* A step that ends a request and leaves the flows of the callbacks alone.
LEMMA EndKept ==
  ASSUME GithubInv, NEW r \in Requests, End(r), UNCHANGED <<account, linked>>,
         \A s \in Requests \ {r} :
           Callback(s) => /\ flow'[job[s].flow] = flow[job[s].flow]
                          /\ redeemed'[job[s].flow] = redeemed[job[s].flow]
  PROVE  Owned' /\ AllDecided'
<1>1. \A s \in Requests : Callback(s)' => s # r /\ Callback(s) /\ pc'[s] = pc[s] /\ job'[s] = job[s]
  BY EndedRequest DEF GithubInv, Callback
<1>2. Owned'
  BY <1>1 DEF GithubInv, Owned
<1>3. AllDecided'
  <2> SUFFICES ASSUME NEW s \in Requests, pc'[s] = "resolved" PROVE Decided(s)'
    BY DEF AllDecided
  <2>1. s # r /\ Callback(s) /\ pc[s] = "resolved" /\ job'[s] = job[s]
    BY <1>1 DEF Callback
  <2>2. Decided(s) /\ flow'[job[s].flow] = flow[job[s].flow]
    BY <2>1 DEF GithubInv, AllDecided
  <2>3. QED BY <2>1, <2>2 DEF Decided
<1>4. QED BY <1>2, <1>3

\* A flow that is neither exchanging nor expired has no callback.
LEMMA NoCallback ==
  ASSUME GithubInv, NEW s \in Requests, Callback(s), NEW f \in Flows,
         flow[f].status \notin {"exchanging", "expired"}
  PROVE  job[s].flow # f
BY DEF GithubInv, Owned

\* Nothing has happened yet.
LEMMA InitInv == Init => GithubInv
<1> SUFFICES ASSUME Init PROVE GithubInv
  OBVIOUS
<1>1. TypeOK
  BY DEF Init, TypeOK, Account, Flow, Statuses, NoJob
<1>2. Owned /\ AllDecided
  BY DEF Init, Owned, AllDecided, Callback
<1>3. Rows
  BY DEF Init, Rows
<1>4. AuthorizedAsLinked /\ LinkedByConsent /\ RedeemedOnce
  BY DEF Init, AuthorizedAsLinked, LinkedByConsent, RedeemedOnce
<1>5. QED BY <1>1, <1>2, <1>3, <1>4 DEF GithubInv

\* Start keeps the invariant: the flow is new.
LEMMA StartStep ==
  ASSUME GithubInv, NEW f \in Flows, NEW mode \in {"login", "link"}, NEW u \in Users \cup {NoUser}, Start(f, mode, u)
  PROVE  GithubInv'
<1>a. /\ flow[f] \in Flow
      /\ flow[f].status = "absent" /\ flow[f].github = NoGithub /\ redeemed[f] = 0
      /\ mode = "link" => u \in Users
  BY DEF GithubInv, TypeOK, Rows, Start
<1>b. /\ flow' \in [Flows -> Flow]
      /\ flow'[f].status = "pending" /\ flow'[f].mode = mode
      /\ flow'[f].user = u /\ flow'[f].github = NoGithub
      /\ \A e \in Flows \ {f} : flow'[e] = flow[e]
  <2>1. "pending" \in Statuses
    BY DEF Statuses
  <2>2. [flow[f] EXCEPT !.status = "pending", !.mode = mode, !.user = u] \in Flow
    BY <1>a, <2>1, FlowType
  <2>3. flow \in [Flows -> Flow] /\ flow' = [flow EXCEPT ![f] = [flow[f] EXCEPT !.status = "pending", !.mode = mode, !.user = u]]
    BY DEF GithubInv, TypeOK, Start
  <2>4. QED BY <1>a, <2>2, <2>3 DEF Flow
<1>c. UNCHANGED <<account, linked, expired, redeemed, pc, job>>
  BY DEF Start
<1>d. \A s \in Requests : Callback(s) => job[s].flow \in Flows /\ job[s].flow # f
  BY <1>a, JobType, NoCallback DEF GithubInv, Callback
<1>1. TypeOK'
  BY <1>b, <1>c DEF GithubInv, TypeOK
<1>2. Owned'
  BY <1>b, <1>c, <1>d DEF GithubInv, Owned, Callback
<1>3. AllDecided'
  BY <1>b, <1>c, <1>d DEF GithubInv, AllDecided, Decided, Callback
<1>4. Rows'
  BY <1>a, <1>b, <1>c DEF GithubInv, Rows
<1>5. AuthorizedAsLinked'
  BY <1>b, <1>c DEF GithubInv, AuthorizedAsLinked
<1>6. LinkedByConsent'
  <2>1. ASSUME NEW g \in Githubs, linked[g] # NoUser, account[linked[g]].origin # g
        PROVE  \E e \in Flows : flow'[e].mode = "link" /\ flow'[e].user = linked[g] /\ flow'[e].github = g
    <3>1. PICK e \in Flows : flow[e].mode = "link" /\ flow[e].user = linked[g] /\ flow[e].github = g
      BY <2>1 DEF GithubInv, LinkedByConsent
    <3>2. e # f
      BY <1>a, <3>1
    <3>3. QED BY <1>b, <3>1, <3>2
  <2>2. QED BY <1>c, <2>1 DEF GithubInv, LinkedByConsent
<1>7. RedeemedOnce'
  BY <1>a, <1>b, <1>c DEF GithubInv, RedeemedOnce
<1>8. QED BY <1>1, <1>2, <1>3, <1>4, <1>5, <1>6, <1>7 DEF GithubInv

\* Claim: nobody else has a flow that was pending.
LEMMA ClaimStep ==
  ASSUME GithubInv, NEW r \in Requests, NEW f \in Flows, Claim(r, f)
  PROVE  GithubInv'
<1>a. /\ pc[r] = "idle" /\ flow[f] \in Flow
      /\ flow[f].status = "pending" /\ flow[f].github = NoGithub /\ redeemed[f] = 0
  BY DEF GithubInv, TypeOK, Rows, Claim
<1>b. /\ flow' \in [Flows -> Flow]
      /\ flow'[f].status = "exchanging" /\ flow'[f].mode = flow[f].mode
      /\ flow'[f].user = flow[f].user /\ flow'[f].github = NoGithub
      /\ \A e \in Flows \ {f} : flow'[e] = flow[e]
  <2>1. "exchanging" \in Statuses
    BY DEF Statuses
  <2>2. [flow[f] EXCEPT !.status = "exchanging"] \in Flow
    BY <1>a, <2>1 DEF Flow
  <2>3. flow \in [Flows -> Flow] /\ flow' = [flow EXCEPT ![f] = [flow[f] EXCEPT !.status = "exchanging"]]
    BY DEF GithubInv, TypeOK, Claim
  <2>4. QED BY <1>a, <2>2, <2>3 DEF Flow
<1>c. UNCHANGED <<account, linked, expired, redeemed>>
  BY DEF Claim
<1>d. /\ pc' \in [Requests -> {"idle", "exchanging", "resolved", "redeeming"}]
      /\ job' \in [Requests -> Jobs \cup {NoJob}]
      /\ pc'[r] = "exchanging" /\ job'[r] # NoJob /\ job'[r].flow = f
      /\ \A s \in Requests \ {r} : pc'[s] = pc[s] /\ job'[s] = job[s]
  <2> DEFINE new == [flow |-> f, github |-> NoGithub, user |-> NoUser, kind |-> "unknown"]
  <2>1. new \in Jobs /\ new.flow = f
    BY DEF Jobs
  <2>2. new # NoJob
    BY <2>1, JobType DEF GithubInv
  <2>3. pc' = [pc EXCEPT ![r] = "exchanging"] /\ job' = [job EXCEPT ![r] = new]
    BY DEF Claim
  <2> HIDE DEF new
  <2>4. QED BY <2>1, <2>2, <2>3 DEF GithubInv, TypeOK
<1>e. \A s \in Requests : Callback(s) => job[s].flow \in Flows /\ job[s].flow # f
  BY <1>a, JobType, NoCallback DEF GithubInv, Callback
<1>1. TypeOK'
  BY <1>b, <1>c, <1>d DEF GithubInv, TypeOK
<1>2. Owned'
  <2>1. \A s \in Requests \ {r} : Callback(s)' => Callback(s) /\ job'[s] = job[s]
    BY <1>d DEF Callback
  <2>2. QED BY <1>a, <1>b, <1>c, <1>d, <1>e, <2>1 DEF GithubInv, Owned
<1>3. AllDecided'
  <2> SUFFICES ASSUME NEW s \in Requests, pc'[s] = "resolved" PROVE Decided(s)'
    BY DEF AllDecided
  <2>1. pc[s] = "resolved" /\ job'[s] = job[s]
    BY <1>d
  <2>2. Decided(s) /\ flow'[job[s].flow] = flow[job[s].flow]
    BY <1>b, <1>e, <2>1 DEF GithubInv, AllDecided, Callback
  <2>3. QED BY <1>c, <2>1, <2>2 DEF Decided
<1>4. Rows'
  BY <1>a, <1>b, <1>c DEF GithubInv, Rows
<1>5. AuthorizedAsLinked' /\ LinkedByConsent'
  BY <1>a, <1>b, <1>c, LinksKept
<1>6. RedeemedOnce'
  BY <1>a, <1>b, <1>c DEF GithubInv, RedeemedOnce
<1>7. QED BY <1>1, <1>2, <1>3, <1>4, <1>5, <1>6 DEF GithubInv

\* Resolve: what the tables say is true when they are read.
LEMMA ResolveStep ==
  ASSUME GithubInv, NEW r \in Requests, NEW g \in Githubs, NEW email \in Users, Resolve(r, g, email)
  PROVE  GithubInv'
<1> DEFINE f == job[r].flow
<1>a. pc[r] = "exchanging" /\ job[r] \in Jobs /\ f \in Flows
  BY JobType DEF GithubInv, TypeOK, Resolve
<1>b. PICK u \in Users, kind \in {"known", "link", "register"} :
        /\ Resolved(r, g, u, kind)
        /\ kind = "known" => linked[g] = u
        /\ kind # "register" => account[u].state # "absent"
        /\ kind = "link" => flow[f].mode = "link" /\ flow[f].user = u
  <2>1. CASE flow[f].mode = "link" /\ Resolved(r, g, flow[f].user, IF linked[g] = NoUser THEN "link" ELSE "known")
             /\ Active(flow[f].user) /\ linked[g] \in {NoUser, flow[f].user}
    BY <1>a, <2>1 DEF GithubInv, Rows, Active
  <2>2. CASE linked[g] # NoUser /\ Active(linked[g]) /\ Resolved(r, g, linked[g], "known")
    BY <2>2 DEF GithubInv, TypeOK, Active
  <2>3. CASE Resolved(r, g, email, "register")
    BY <2>3
  <2>4. QED BY <2>1, <2>2, <2>3 DEF Resolve
<1>c. /\ pc' = [pc EXCEPT ![r] = "resolved"]
      /\ UNCHANGED <<account, linked, flow, expired, redeemed>>
      /\ job' \in [Requests -> Jobs \cup {NoJob}]
      /\ job'[r] \in Jobs
      /\ job'[r].flow = f /\ job'[r].github = g /\ job'[r].user = u /\ job'[r].kind = kind
      /\ \A s \in Requests \ {r} : job'[s] = job[s]
  BY <1>a, <1>b DEF Resolved, GithubInv, TypeOK, Jobs
<1>1. TypeOK'
  BY <1>a, <1>c, JobType DEF GithubInv, TypeOK
<1>2. Owned'
  BY <1>a, <1>c DEF GithubInv, TypeOK, Owned, Callback
<1>3. AllDecided'
  BY <1>a, <1>b, <1>c DEF GithubInv, TypeOK, AllDecided, Decided
<1>4. Rows' /\ AuthorizedAsLinked' /\ LinkedByConsent' /\ RedeemedOnce'
  BY <1>c, TablesKept
<1>5. QED BY <1>1, <1>2, <1>3, <1>4 DEF GithubInv

\* Authorize: the unique keys keep what has been decided true.
LEMMA AuthorizeStep ==
  ASSUME GithubInv, NEW r \in Requests, Authorize(r)
  PROVE  GithubInv'
<1> DEFINE f == job[r].flow
           g == job[r].github
           u == job[r].user
<1>a. pc[r] = "resolved" /\ job[r] \in Jobs /\ f \in Flows /\ Decided(r) /\ g \in Githubs /\ u \in Users
  BY JobType DEF GithubInv, TypeOK, Authorize, AllDecided, Decided
<1>b. /\ flow[f].github = NoGithub /\ redeemed[f] = 0
      /\ flow[f].status \in {"exchanging", "expired"}
      /\ \A s \in Requests \ {r} : Callback(s) => job[s].flow # f
  BY <1>a DEF GithubInv, Owned, Callback
<1>c. /\ linked' \in [Githubs -> Users \cup {NoUser}]
      /\ linked'[g] = u
      /\ linked[g] \in {NoUser, u}
      /\ \A h \in Githubs \ {g} : linked'[h] = linked[h]
  BY <1>a DEF GithubInv, TypeOK, Authorize, Insertable, Decided
<1>d. /\ flow' \in [Flows -> Flow]
      /\ flow'[f].status = "authorized" /\ flow'[f].user = u /\ flow'[f].github = g
      /\ flow'[f].mode = flow[f].mode
      /\ \A e \in Flows \ {f} : flow'[e] = flow[e]
  <2>1. flow \in [Flows -> Flow] /\ flow[f] \in Flow /\ "authorized" \in Statuses
    BY <1>a DEF GithubInv, TypeOK, Statuses
  <2>2. [flow[f] EXCEPT !.status = "authorized", !.user = u, !.github = g] \in Flow
    BY <1>a, <2>1, FlowType
  <2>3. flow' = [flow EXCEPT ![f] = [flow[f] EXCEPT !.status = "authorized", !.user = u, !.github = g]]
    BY DEF Authorize
  <2>4. QED BY <1>a, <2>1, <2>2, <2>3 DEF Flow
<1>e. /\ account' \in [Users -> Account]
      /\ account'[u].state # "absent"
      /\ \A v \in Users : account[v].state # "absent" => account'[v] = account[v]
      /\ \A v \in Users \ {u} : account'[v] = account[v]
      /\ job[r].kind = "register" => account'[u].origin = g /\ linked[g] = NoUser /\ account[u].state = "absent"
      /\ job[r].kind = "link" => linked[g] = NoUser
      /\ job[r].kind # "register" => account' = account
  BY <1>a DEF GithubInv, TypeOK, Authorize, Insertable, Decided, Account
<1>f. /\ pc' = [pc EXCEPT ![r] = "idle"] /\ job' = [job EXCEPT ![r] = NoJob]
      /\ UNCHANGED <<expired, redeemed>>
  BY DEF Authorize, End
<1>1. TypeOK'
  <2> HIDE DEF f, g, u
  <2>1. QED BY <1>c, <1>d, <1>e, <1>f, JobType DEF GithubInv, TypeOK
<1>2. Owned'
  BY <1>b, <1>d, <1>f, JobType DEF GithubInv, TypeOK, Owned, Callback
<1>3. AllDecided'
  <2> SUFFICES ASSUME NEW s \in Requests, pc'[s] = "resolved" PROVE Decided(s)'
    BY DEF AllDecided
  <2>1. s # r /\ pc[s] = "resolved" /\ job'[s] = job[s] /\ Decided(s) /\ job[s].flow \in Flows
    BY <1>f, JobType DEF GithubInv, TypeOK, AllDecided
  <2>2. job[s].flow # f
    BY <1>b, <2>1 DEF Callback
  <2>3. job[s].kind = "known" => linked'[job[s].github] = job[s].user
    BY <1>a, <1>c, <2>1 DEF Decided
  <2>4. QED BY <1>d, <1>e, <2>1, <2>2, <2>3 DEF Decided
<1>4. Rows'
  <2>1. \A h \in Githubs : linked'[h] # NoUser => account'[linked'[h]].state # "absent"
    BY <1>a, <1>c, <1>e DEF GithubInv, TypeOK, Rows
  <2>2. QED BY <1>a, <1>b, <1>d, <1>f, <2>1 DEF GithubInv, TypeOK, Rows
<1>5. AuthorizedAsLinked'
  <2> SUFFICES ASSUME NEW e \in Flows, flow'[e].status \in {"authorized", "consumed"}
               PROVE  flow'[e].github # NoGithub /\ linked'[flow'[e].github] = flow'[e].user
    BY DEF AuthorizedAsLinked
  <2>1. CASE e = f
    BY <1>a, <1>c, <1>d, <2>1
  <2>2. CASE e # f
    <3>1. /\ flow'[e] = flow[e] /\ flow[e].github \in Githubs /\ flow[e].user \in Users
          /\ linked[flow[e].github] = flow[e].user
      BY <1>d, <2>2 DEF GithubInv, TypeOK, Rows, AuthorizedAsLinked, Flow
    <3>2. flow[e].github = g => flow[e].user = u
      BY <1>c, <1>d, <2>2, <3>1 DEF GithubInv, Rows
    <3>3. QED BY <1>a, <1>c, <3>1, <3>2
  <2>3. QED BY <2>1, <2>2
<1>6. LinkedByConsent'
  <2>1. ASSUME NEW h \in Githubs, linked'[h] # NoUser
        PROVE  \/ account'[linked'[h]].origin = h
               \/ \E e \in Flows : flow'[e].mode = "link" /\ flow'[e].user = linked'[h] /\ flow'[e].github = h
    <3>1. CASE linked[h] # NoUser
      <4>1. linked'[h] = linked[h] /\ linked[h] \in Users
        BY <1>c, <3>1 DEF GithubInv, TypeOK
      <4>2. account'[linked[h]] = account[linked[h]]
        BY <1>e, <3>1, <4>1 DEF GithubInv, Rows
      <4>3. CASE account[linked[h]].origin = h
        BY <4>1, <4>2, <4>3
      <4>4. CASE \E e \in Flows : flow[e].mode = "link" /\ flow[e].user = linked[h] /\ flow[e].github = h
        <5>1. PICK e \in Flows : flow[e].mode = "link" /\ flow[e].user = linked[h] /\ flow[e].github = h
          BY <4>4
        <5>2. e # f
          BY <1>b, <5>1
        <5>3. QED BY <1>d, <4>1, <5>1, <5>2
      <4>5. QED BY <3>1, <4>3, <4>4 DEF GithubInv, LinkedByConsent
    <3>2. CASE linked[h] = NoUser
      <4>1. h = g /\ linked'[h] = u
        BY <1>c, <2>1, <3>2
      <4>2. job[r].kind \in {"link", "register"}
        BY <1>a, <3>2, <4>1 DEF Decided
      <4>3. CASE job[r].kind = "register"
        BY <1>e, <4>1, <4>3
      <4>4. CASE job[r].kind = "link"
        BY <1>a, <1>d, <4>1, <4>4 DEF Decided
      <4>5. QED BY <4>2, <4>3, <4>4
    <3>3. QED BY <3>1, <3>2
  <2>2. ASSUME NEW v \in Users, account'[v].origin # NoGithub
        PROVE  linked'[account'[v].origin] = v
    <3>1. CASE account'[v] = account[v]
      <4>1. account[v].origin \in Githubs /\ linked[account[v].origin] = v
        BY <2>2, <3>1 DEF GithubInv, TypeOK, Account, LinkedByConsent
      <4>2. QED BY <1>c, <3>1, <4>1
    <3>2. CASE v = u /\ job[r].kind = "register"
      BY <1>a, <1>c, <1>e, <3>2
    <3>3. QED BY <1>e, <3>1, <3>2
  <2>3. QED BY <2>1, <2>2 DEF LinkedByConsent
<1>7. RedeemedOnce'
  BY <1>b, <1>d, <1>f DEF GithubInv, RedeemedOnce
<1>8. QED BY <1>1, <1>2, <1>3, <1>4, <1>5, <1>6, <1>7 DEF GithubInv

\* Fail: the flow had not been redeemed.
LEMMA FailStep ==
  ASSUME GithubInv, NEW r \in Requests, Fail(r)
  PROVE  GithubInv'
<1> DEFINE f == job[r].flow
<1>a. /\ f \in Flows /\ flow[f] \in Flow /\ redeemed[f] = 0
      /\ flow[f].mode = "link" => flow[f].user \in Users
      /\ \A s \in Requests \ {r} : Callback(s) => job[s].flow # f
  <2>1. Callback(r) /\ pc[r] # "idle"
    BY DEF Fail, Callback
  <2>2. QED BY <2>1, JobType DEF GithubInv, TypeOK, Owned, Rows
<1>b. /\ flow' \in [Flows -> Flow]
      /\ flow'[f].status = "failed" /\ flow'[f].github = flow[f].github
      /\ flow'[f].mode = flow[f].mode /\ flow'[f].user = flow[f].user
      /\ \A e \in Flows \ {f} : flow'[e] = flow[e]
  <2>1. flow \in [Flows -> Flow] /\ flow' = [flow EXCEPT ![f] = [flow[f] EXCEPT !.status = "failed"]]
    BY DEF GithubInv, TypeOK, Fail
  <2>2. [flow[f] EXCEPT !.status = "failed"] \in Flow
    BY <1>a DEF Flow, Statuses
  <2>3. QED BY <1>a, <2>1, <2>2 DEF Flow
<1>c. End(r) /\ UNCHANGED <<account, linked, expired, redeemed>>
  BY DEF Fail
<1>1. TypeOK'
  BY <1>b, <1>c, EndedRequest DEF GithubInv, TypeOK
<1>2. Owned' /\ AllDecided'
  <2>1. \A s \in Requests : Callback(s) => job[s].flow \in Flows
    BY JobType DEF GithubInv, Callback
  <2>2. QED BY <1>a, <1>b, <1>c, <2>1, EndKept
<1>3. Rows'
  BY <1>a, <1>b, <1>c DEF GithubInv, Rows
<1>4. AuthorizedAsLinked' /\ LinkedByConsent'
  BY <1>a, <1>b, <1>c, LinksKept
<1>5. RedeemedOnce'
  BY <1>a, <1>b, <1>c DEF GithubInv, RedeemedOnce
<1>6. QED BY <1>1, <1>2, <1>3, <1>4, <1>5 DEF GithubInv

\* Lose: the flow stays as it is.
LEMMA LoseStep ==
  ASSUME GithubInv, NEW r \in Requests, Lose(r)
  PROVE  GithubInv'
<1>a. End(r) /\ UNCHANGED <<account, linked, flow, expired, redeemed>>
  BY DEF Lose
<1>1. TypeOK'
  BY <1>a, EndedRequest DEF GithubInv, TypeOK
<1>2. Owned' /\ AllDecided'
  BY <1>a, EndKept
<1>3. Rows' /\ AuthorizedAsLinked' /\ LinkedByConsent' /\ RedeemedOnce'
  BY <1>a, TablesKept
<1>4. QED BY <1>1, <1>2, <1>3 DEF GithubInv

\* Read: no table changes.
LEMMA ReadStep ==
  ASSUME GithubInv, NEW r \in Requests, NEW f \in Flows, Read(r, f)
  PROVE  GithubInv'
<1>a. UNCHANGED <<account, linked, flow, expired, redeemed>>
  BY DEF Read
<1>b. /\ pc' \in [Requests -> {"idle", "exchanging", "resolved", "redeeming"}]
      /\ job' \in [Requests -> Jobs \cup {NoJob}]
      /\ pc'[r] = "redeeming" /\ job'[r] # NoJob
      /\ \A s \in Requests \ {r} : pc'[s] = pc[s] /\ job'[s] = job[s]
  <2> DEFINE new == [flow |-> f, github |-> NoGithub, user |-> flow[f].user, kind |-> "known"]
  <2>1. flow[f].user \in Users \cup {NoUser}
    BY DEF GithubInv, TypeOK, Flow
  <2>2. new \in Jobs
    BY <2>1 DEF Jobs
  <2>3. new # NoJob
    BY <2>2, JobType DEF GithubInv
  <2>4. pc' = [pc EXCEPT ![r] = "redeeming"] /\ job' = [job EXCEPT ![r] = new]
    BY DEF Read
  <2> HIDE DEF new
  <2>5. QED BY <2>2, <2>3, <2>4 DEF GithubInv, TypeOK
<1>1. TypeOK'
  BY <1>a, <1>b DEF GithubInv, TypeOK
<1>2. \A s \in Requests : Callback(s)' => Callback(s) /\ pc'[s] = pc[s] /\ job'[s] = job[s]
  BY <1>b DEF Callback
<1>3. Owned'
  BY <1>a, <1>2 DEF GithubInv, Owned
<1>4. AllDecided'
  BY <1>a, <1>2 DEF GithubInv, AllDecided, Decided, Callback
<1>5. Rows' /\ AuthorizedAsLinked' /\ LinkedByConsent' /\ RedeemedOnce'
  BY <1>a, TablesKept
<1>6. QED BY <1>1, <1>3, <1>4, <1>5 DEF GithubInv

\* Redeem: an authorized flow has not been redeemed and has no callback.
LEMMA RedeemStep ==
  ASSUME GithubInv, NEW r \in Requests, NEW presented \in Users \cup {NoUser}, Redeem(r, presented)
  PROVE  GithubInv'
<1> DEFINE f == job[r].flow
<1>a. /\ f \in Flows /\ flow[f] \in Flow /\ flow[f].status = "authorized"
      /\ redeemed[f] = 0 /\ flow[f].user \in Users
  <2>1. f \in Flows /\ flow[f].status = "authorized"
    BY JobType DEF GithubInv, Redeem
  <2>2. QED BY <2>1 DEF GithubInv, TypeOK, Rows
<1>b. /\ flow' \in [Flows -> Flow]
      /\ flow'[f].status = "consumed" /\ flow'[f].github = flow[f].github
      /\ flow'[f].mode = flow[f].mode /\ flow'[f].user = flow[f].user
      /\ \A e \in Flows \ {f} : flow'[e] = flow[e]
  <2>1. flow \in [Flows -> Flow] /\ flow' = [flow EXCEPT ![f] = [flow[f] EXCEPT !.status = "consumed"]]
    BY DEF GithubInv, TypeOK, Redeem
  <2>2. [flow[f] EXCEPT !.status = "consumed"] \in Flow
    BY <1>a DEF Flow, Statuses
  <2>3. QED BY <1>a, <2>1, <2>2 DEF Flow
<1>c. /\ redeemed' \in [Flows -> Nat] /\ redeemed'[f] = 1
      /\ \A e \in Flows \ {f} : redeemed'[e] = redeemed[e]
  <2>1. redeemed \in [Flows -> Nat] /\ redeemed' = [redeemed EXCEPT ![f] = redeemed[f] + 1]
    BY DEF GithubInv, TypeOK, Redeem
  <2>2. QED BY <1>a, <2>1
<1>d. End(r) /\ UNCHANGED <<account, linked, expired>>
  BY DEF Redeem
<1>1. TypeOK'
  BY <1>b, <1>c, <1>d, EndedRequest DEF GithubInv, TypeOK
<1>2. Owned' /\ AllDecided'
  <2>1. \A s \in Requests : Callback(s) => job[s].flow \in Flows /\ job[s].flow # f
    BY <1>a, JobType, NoCallback DEF GithubInv, Callback
  <2>2. QED BY <1>b, <1>c, <1>d, <2>1, EndKept
<1>3. Rows'
  BY <1>a, <1>b, <1>c, <1>d DEF GithubInv, Rows
<1>4. AuthorizedAsLinked' /\ LinkedByConsent'
  BY <1>a, <1>b, <1>d, LinksKept
<1>5. RedeemedOnce'
  BY <1>b, <1>c DEF GithubInv, RedeemedOnce
<1>6. QED BY <1>1, <1>2, <1>3, <1>4, <1>5 DEF GithubInv

\* A registration and a ban leave links and flows alone.
LEMMA AccountsStep ==
  ASSUME GithubInv, NEW u \in Users, RegisterByPassword(u) \/ SetDisabled(u)
  PROVE  GithubInv'
<1>a. /\ account' \in [Users -> Account]
      /\ \A v \in Users : /\ account'[v].origin = account[v].origin
                          /\ account[v].state # "absent" => account'[v].state # "absent"
  <2>1. PICK state \in {"active", "disabled"} : account' = [account EXCEPT ![u].state = state]
    BY DEF RegisterByPassword, SetDisabled
  <2>2. account \in [Users -> Account]
    BY DEF GithubInv, TypeOK
  <2>3. QED BY <2>1, <2>2 DEF Account
<1>b. UNCHANGED <<linked, flow, expired, redeemed, pc, job>>
  BY DEF RegisterByPassword, SetDisabled
<1>1. TypeOK'
  BY <1>a, <1>b DEF GithubInv, TypeOK
<1>2. Owned'
  BY <1>b DEF GithubInv, Owned, Callback
<1>3. AllDecided'
  BY <1>a, <1>b DEF GithubInv, AllDecided, Decided
<1>4. Rows'
  <2>1. \A g \in Githubs : linked[g] # NoUser => account'[linked[g]].state # "absent"
    BY <1>a DEF GithubInv, TypeOK, Rows
  <2>2. QED BY <1>b, <2>1 DEF GithubInv, Rows
<1>5. AuthorizedAsLinked'
  BY <1>b DEF GithubInv, AuthorizedAsLinked
<1>6. LinkedByConsent'
  BY <1>a, <1>b DEF GithubInv, TypeOK, LinkedByConsent
<1>7. RedeemedOnce'
  BY <1>b DEF GithubInv, RedeemedOnce
<1>8. QED BY <1>1, <1>2, <1>3, <1>4, <1>5, <1>6, <1>7 DEF GithubInv

\* Expiry changes no flow.
LEMMA ExpireStep ==
  ASSUME GithubInv, NEW f \in Flows, Expire(f)
  PROVE  GithubInv'
<1>a. UNCHANGED <<account, linked, flow, redeemed, pc, job>> /\ expired' = expired \cup {f}
  BY DEF Expire
<1>1. TypeOK'
  BY <1>a DEF GithubInv, TypeOK
<1>2. Owned'
  BY <1>a DEF GithubInv, Owned, Callback
<1>3. AllDecided'
  BY <1>a DEF GithubInv, AllDecided, Decided
<1>4. Rows' /\ AuthorizedAsLinked' /\ LinkedByConsent' /\ RedeemedOnce'
  BY <1>a, TablesKept
<1>5. QED BY <1>1, <1>2, <1>3, <1>4 DEF GithubInv

\* The purge strikes flows in any state.
LEMMA PurgeStep ==
  ASSUME GithubInv, Purge
  PROVE  GithubInv'
<1>a. UNCHANGED <<account, linked, expired, redeemed, pc, job>>
  BY DEF Purge
<1>b. ASSUME NEW f \in Flows
      PROVE  /\ flow'[f] \in Flow
             /\ flow'[f].github = flow[f].github
             /\ flow'[f].mode = flow[f].mode
             /\ flow'[f].user = flow[f].user
             /\ flow'[f].status \in {flow[f].status, "expired"}
  <2>1. flow[f] \in Flow /\ flow'[f] = IF f \in expired THEN [flow[f] EXCEPT !.status = "expired"] ELSE flow[f]
    BY DEF GithubInv, TypeOK, Purge
  <2>2. CASE f \in expired
    BY <2>1, <2>2 DEF Flow, Statuses
  <2>3. CASE f \notin expired
    BY <2>1, <2>3
  <2>4. QED BY <2>2, <2>3
<1>c. flow' \in [Flows -> Flow]
  BY <1>b DEF Purge
<1>1. TypeOK'
  BY <1>a, <1>c DEF GithubInv, TypeOK
<1>d. \A s \in Requests : Callback(s) => job[s].flow \in Flows
  BY JobType DEF GithubInv, Callback
<1>2. Owned'
  BY <1>a, <1>b, <1>d DEF GithubInv, Owned, Callback
<1>3. AllDecided'
  BY <1>a, <1>b, <1>d DEF GithubInv, AllDecided, Decided, Callback
<1>4. Rows'
  BY <1>a, <1>b DEF GithubInv, Rows
<1>5. AuthorizedAsLinked' /\ LinkedByConsent'
  BY <1>a, <1>b, LinksKept
<1>6. RedeemedOnce'
  BY <1>a, <1>b DEF GithubInv, RedeemedOnce
<1>7. QED BY <1>1, <1>2, <1>3, <1>4, <1>5, <1>6 DEF GithubInv
-----------------------------------------------------------------------------
(* The theorems.                                                           *)

\* Every step keeps the invariant.
LEMMA StepInv == GithubInv /\ [Next]_vars => GithubInv'
<1> SUFFICES ASSUME GithubInv, [Next]_vars PROVE GithubInv'
  OBVIOUS
<1>1. ASSUME NEW f \in Flows, FlowNext(f) PROVE GithubInv'
  BY <1>1, StartStep, ExpireStep DEF FlowNext
<1>2. ASSUME NEW r \in Requests, RequestNext(r) PROVE GithubInv'
  BY <1>2, ClaimStep, ReadStep, ResolveStep, AuthorizeStep, FailStep, LoseStep, RedeemStep DEF RequestNext
<1>3. CASE UNCHANGED vars
  <2>1. (TypeOK /\ Owned /\ AllDecided /\ Rows)'
    BY <1>3 DEF vars, GithubInv, TypeOK, Owned, Callback, AllDecided, Decided, Rows
  <2>2. (AuthorizedAsLinked /\ LinkedByConsent /\ RedeemedOnce)'
    BY <1>3 DEF vars, GithubInv, AuthorizedAsLinked, LinkedByConsent, RedeemedOnce
  <2>3. QED BY <2>1, <2>2 DEF GithubInv
<1>4. QED BY <1>1, <1>2, <1>3, AccountsStep, PurgeStep DEF Next

\* The invariant holds in every state.
LEMMA InvAlways == Spec => []GithubInv
BY InitInv, StepInv, PTL DEF Spec

\* Every row and every request keeps its shape.
THEOREM FlowTypeCorrect == Spec => []TypeOK
BY InvAlways, PTL DEF GithubInv

\* An authorization leads into the account its GitHub account is linked to.
THEOREM AuthorizationFollowsLink == Spec => []AuthorizedAsLinked
BY InvAlways, PTL DEF GithubInv

\* A GitHub account is linked to the account it registered or to one whose own
\* session asked for it, and registers one account.
THEOREM LinksNeedConsent == Spec => []LinkedByConsent
BY InvAlways, PTL DEF GithubInv

\* A flow is redeemed at most once, and used up only by its redemption.
THEOREM FlowRedeemedOnce == Spec => []RedeemedOnce
BY InvAlways, PTL DEF GithubInv
=============================================================================
