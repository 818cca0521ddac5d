----------------------------- MODULE GithubFlow -----------------------------
(***************************************************************************)
(* Signing in and linking through GitHub: src/app/github_auth.py.          *)
(*                                                                         *)
(* The browser's callback and the desktop's completion are requests of     *)
(* their own.  A callback claims its flow and commits, then waits for      *)
(* GitHub, then reads the accounts, then commits: between these steps      *)
(* other callbacks, completions, registrations and bans happen, and the    *)
(* process may stop.  Statements of one transaction that only unique keys  *)
(* and row locks order are one step.                                       *)
(***************************************************************************)
EXTENDS Naturals, FiniteSets

CONSTANTS
  Flows,      \* github_flows.id; the OAuth state and the desktop's proof name it
  Requests,   \* concurrent callbacks and completions
  Users,      \* accounts, each named by its e-mail address
  Githubs,    \* stable account ids of GitHub
  NoUser, NoGithub

ASSUME GithubAssumption == NoUser \notin Users /\ NoGithub \notin Githubs

VARIABLES
  account,   \* UserAccount: state, and the GitHub account that registered it
  linked,    \* GithubIdentity: the user of a GitHub account
  flow,      \* GithubFlow: status, mode, user, and who GitHub said it was
  expired,   \* flows past expires_at
  redeemed,  \* how often the desktop was answered authenticated or linked
  pc,        \* where a request is
  job        \* what it holds in memory

vars == <<account, linked, flow, expired, redeemed, pc, job>>

Statuses == {"absent", "pending", "exchanging", "authorized", "failed", "consumed",
             "expired"}
Flow == [status : Statuses, mode : {"login", "link"},
         user : Users \cup {NoUser}, github : Githubs \cup {NoGithub}]
Account == [state : {"absent", "active", "disabled"}, origin : Githubs \cup {NoGithub}]

NoJob == [flow |-> "none"]
Jobs == [flow : Flows, github : Githubs \cup {NoGithub}, user : Users \cup {NoUser},
         kind : {"unknown", "known", "link", "register"}]

Active(u) == account[u].state = "active"
LinkedTo(u) == {g \in Githubs : linked[g] = u}

Init ==
  /\ account = [u \in Users |-> [state |-> "absent", origin |-> NoGithub]]
  /\ linked = [g \in Githubs |-> NoUser]
  /\ flow = [f \in Flows |-> [status |-> "absent", mode |-> "login",
                              user |-> NoUser, github |-> NoGithub]]
  /\ expired = {}
  /\ redeemed = [f \in Flows |-> 0]
  /\ pc = [r \in Requests |-> "idle"]
  /\ job = [r \in Requests |-> NoJob]

End(r) ==
  /\ pc' = [pc EXCEPT ![r] = "idle"]
  /\ job' = [job EXCEPT ![r] = NoJob]

-----------------------------------------------------------------------------
(* The flow and its callback.                                              *)

\* A link flow is started by the session of the account to be linked.
Start(f, mode, u) ==
  /\ flow[f].status = "absent"
  /\ IF mode = "link" THEN u \in Users /\ Active(u) ELSE u = NoUser
  /\ flow' = [flow EXCEPT ![f] = [@ EXCEPT !.status = "pending", !.mode = mode, !.user = u]]
  /\ UNCHANGED <<account, linked, expired, redeemed, pc, job>>

\* The conditional update of the status lets one callback through, then commits.
Claim(r, f) ==
  /\ pc[r] = "idle"
  /\ flow[f].status = "pending"
  /\ f \notin expired
  /\ flow' = [flow EXCEPT ![f].status = "exchanging"]
  /\ pc' = [pc EXCEPT ![r] = "exchanging"]
  /\ job' = [job EXCEPT ![r] = [flow |-> f, github |-> NoGithub,
                                user |-> NoUser, kind |-> "unknown"]]
  /\ UNCHANGED <<account, linked, expired, redeemed>>

Resolved(r, g, u, kind) ==
  /\ pc' = [pc EXCEPT ![r] = "resolved"]
  /\ job' = [job EXCEPT ![r] = [@ EXCEPT !.github = g, !.user = u, !.kind = kind]]
  /\ UNCHANGED <<account, linked, flow, expired, redeemed>>

\* Mutant: an account with the same e-mail is taken for the same person.
ResolveByEmail(r, g, email) ==
  /\ pc[r] = "exchanging"
  /\ \/ Active(email) /\ Resolved(r, g, email, "link")
     \/ account[email].state = "absent" /\ Resolved(r, g, email, "register")

\* resolve_identity: GitHub named an account with a verified primary e-mail;
\* the tables decide whose it is.  Every other outcome is a failure.
Resolve(r, g, email) ==
  LET f == job[r].flow
      u == flow[f].user
  IN /\ pc[r] = "exchanging"
     /\ \/ /\ flow[f].mode = "link"
           /\ Active(u)
           /\ linked[g] \in {NoUser, u}
           /\ LinkedTo(u) \subseteq {g}
           /\ Resolved(r, g, u, IF linked[g] = NoUser THEN "link" ELSE "known")
        \/ /\ flow[f].mode = "login"
           /\ linked[g] # NoUser
           /\ Active(linked[g])
           /\ Resolved(r, g, linked[g], "known")
        \/ /\ flow[f].mode = "login"
           /\ linked[g] = NoUser
           /\ account[email].state = "absent"
           /\ Resolved(r, g, email, "register")

\* Mutant: an identity that exists is replaced.
InsertableForAccount(r) ==
  CASE job[r].kind = "link" -> LinkedTo(job[r].user) = {}
    [] job[r].kind = "register" -> account[job[r].user].state = "absent"
    [] OTHER -> TRUE

\* What the unique keys still allow when the rows are inserted: the user's
\* e-mail, the GitHub account, and one GitHub account for a user.
Insertable(r) ==
  LET g == job[r].github
      u == job[r].user
  IN CASE job[r].kind = "known"    -> TRUE
       [] job[r].kind = "link"     -> linked[g] = NoUser /\ LinkedTo(u) = {}
       [] job[r].kind = "register" -> linked[g] = NoUser /\ account[u].state = "absent"

\* The account with its one grant, the identity and the flow commit together.
Authorize(r) ==
  LET f == job[r].flow
      g == job[r].github
      u == job[r].user
  IN /\ pc[r] = "resolved"
     /\ Insertable(r)
     /\ account' = IF job[r].kind = "register"
                     THEN [account EXCEPT ![u] = [state |-> "active", origin |-> g]]
                     ELSE account
     /\ linked' = [linked EXCEPT ![g] = IF job[r].kind = "known" THEN @ ELSE u]
     /\ flow' = [flow EXCEPT ![f] = [@ EXCEPT !.status = "authorized",
                                              !.user = u, !.github = g]]
     /\ End(r)
     /\ UNCHANGED <<expired, redeemed>>

\* Refused by the user, by GitHub, by the tables or by a unique key: everything
\* but the failure is rolled back.
Fail(r) ==
  /\ pc[r] = "exchanging" \/ (pc[r] = "resolved" /\ ~Insertable(r))
  /\ flow' = [flow EXCEPT ![job[r].flow].status = "failed"]
  /\ End(r)
  /\ UNCHANGED <<account, linked, expired, redeemed>>

\* The process stops or the browser leaves: the flow stays as it is.
Lose(r) ==
  /\ pc[r] # "idle"
  /\ End(r)
  /\ UNCHANGED <<account, linked, flow, expired, redeemed>>

-----------------------------------------------------------------------------
(* The desktop's completion.                                               *)

\* The flow is authorized and its account enabled.
Read(r, f) ==
  /\ pc[r] = "idle"
  /\ flow[f].status = "authorized"
  /\ f \notin expired
  /\ Active(flow[f].user)
  /\ pc' = [pc EXCEPT ![r] = "redeeming"]
  /\ job' = [job EXCEPT ![r] = [flow |-> f, github |-> NoGithub,
                                user |-> flow[f].user, kind |-> "known"]]
  /\ UNCHANGED <<account, linked, flow, expired, redeemed>>

\* Mutant: the status read before is not compared when the flow is consumed.
RedeemRead(r, presented) ==
  LET f == job[r].flow IN
    /\ pc[r] = "redeeming"
    /\ Active(job[r].user)
    /\ flow[f].mode = "link" => presented = job[r].user
    /\ flow' = [flow EXCEPT ![f].status = "consumed"]
    /\ redeemed' = [redeemed EXCEPT ![f] = @ + 1]
    /\ End(r)
    /\ UNCHANGED <<account, linked, expired>>

\* The flow is consumed and the session issued, or the link confirmed to the
\* session that presents itself, in one transaction.
Redeem(r, presented) ==
  LET f == job[r].flow IN
    /\ pc[r] = "redeeming"
    /\ flow[f].status = "authorized"
    /\ Active(job[r].user)
    /\ flow[f].mode = "link" => presented = job[r].user
    /\ flow' = [flow EXCEPT ![f].status = "consumed"]
    /\ redeemed' = [redeemed EXCEPT ![f] = @ + 1]
    /\ End(r)
    /\ UNCHANGED <<account, linked, expired>>

-----------------------------------------------------------------------------
(* The rest of the service.                                                *)

\* accounts.register
RegisterByPassword(u) ==
  /\ account[u].state = "absent"
  /\ account' = [account EXCEPT ![u].state = "active"]
  /\ UNCHANGED <<linked, flow, expired, redeemed, pc, job>>

\* accounts: an administrator disables an account or enables it again.
SetDisabled(u) ==
  /\ account[u].state # "absent"
  /\ account' = [account EXCEPT ![u].state = IF @ = "active" THEN "disabled" ELSE "active"]
  /\ UNCHANGED <<linked, flow, expired, redeemed, pc, job>>

Expire(f) ==
  /\ flow[f].status # "absent"
  /\ f \notin expired
  /\ expired' = expired \cup {f}
  /\ UNCHANGED <<account, linked, flow, redeemed, pc, job>>

\* maintenance.main, every hour: whatever has become of an expired flow.
Purge ==
  /\ \E f \in expired : flow[f].status # "expired"
  /\ flow' = [f \in Flows |-> IF f \in expired THEN [flow[f] EXCEPT !.status = "expired"]
                             ELSE flow[f]]
  /\ UNCHANGED <<account, linked, expired, redeemed, pc, job>>

FlowNext(f) ==
  \/ \E mode \in {"login", "link"}, u \in Users \cup {NoUser} : Start(f, mode, u)
  \/ Expire(f)

RequestNext(r) ==
  \/ \E f \in Flows : Claim(r, f) \/ Read(r, f)
  \/ \E g \in Githubs, email \in Users : Resolve(r, g, email)
  \/ Authorize(r)
  \/ Fail(r)
  \/ Lose(r)
  \/ \E u \in Users \cup {NoUser} : Redeem(r, u)

Next ==
  \/ Purge
  \/ \E f \in Flows : FlowNext(f)
  \/ \E r \in Requests : RequestNext(r)
  \/ \E u \in Users : RegisterByPassword(u) \/ SetDisabled(u)

Spec == Init /\ [][Next]_vars

-----------------------------------------------------------------------------
(* Properties.                                                             *)

\* Every row and every request has its shape.
TypeOK ==
  /\ account \in [Users -> Account]
  /\ linked \in [Githubs -> Users \cup {NoUser}]
  /\ flow \in [Flows -> Flow]
  /\ expired \in SUBSET Flows
  /\ redeemed \in [Flows -> Nat]
  /\ pc \in [Requests -> {"idle", "exchanging", "resolved", "redeeming"}]
  /\ job \in [Requests -> Jobs \cup {NoJob}]
  /\ \A r \in Requests : pc[r] = "idle" <=> job[r] = NoJob

\* An authorization leads into the account its GitHub account is linked to,
\* whatever other flows, bans and registrations did while GitHub was asked.
AuthorizedAsLinked ==
  \A f \in Flows :
    flow[f].status \in {"authorized", "consumed"} =>
      /\ flow[f].github # NoGithub
      /\ linked[flow[f].github] = flow[f].user

\* A GitHub account is linked to the account it registered, or to one whose own
\* session asked for it: a matching e-mail proves nothing (github_auth.py:122).
\* The account it registered is the one it is linked to, so that one GitHub
\* account gets one initial grant, also when it changes its e-mail address and
\* signs in through two flows at once.
LinkedByConsent ==
  /\ \A g \in Githubs :
       linked[g] # NoUser =>
         \/ account[linked[g]].origin = g
         \/ \E f \in Flows : /\ flow[f].mode = "link"
                             /\ flow[f].user = linked[g]
                             /\ flow[f].github = g
  /\ \A u \in Users : account[u].origin # NoGithub => linked[account[u].origin] = u

\* A flow is redeemed once, however many completions race for it, and it is
\* never used up by one that was refused; a callback that ends after the flow
\* was purged and authorizes it again gives no second redemption.
RedeemedOnce ==
  \A f \in Flows :
    /\ redeemed[f] <= 1
    /\ flow[f].status = "consumed" => redeemed[f] = 1
    /\ redeemed[f] = 1 => flow[f].status \in {"consumed", "expired"}
=============================================================================
