------------------------------ MODULE Routing ------------------------------
(***************************************************************************)
(* What a model call is sent with: providers, routes, model keys and the   *)
(* registration policy, their administration in src/app/gateway.py and     *)
(* src/app/accounts.py, and the calls that read them.                      *)
(*                                                                         *)
(* A request reads row by row, each time what is committed by then, and    *)
(* writes at its end only the columns it changes of the rows it has read.  *)
(* A request refused at its first read changes nothing and is left out.    *)
(***************************************************************************)
EXTENDS Naturals, Sequences

CONSTANTS
  Admins,      \* administrators at work at the same time
  Callers,     \* clients of /v1
  Providers,   \* model_providers.id
  Routes,      \* model_routes.id
  Aliases,     \* model_routes.alias, the names that clients use
  ModelKeys,   \* model_keys.id
  Urls,        \* base_url
  Defaults,    \* a provider's parameter_defaults
  Columns,     \* of a route's settings: upstream model, preset, protocol, overrides
  Choices,     \* what a column of them may hold
  Resolvable,  \* pairs that resolve_route_parameters accepts
  Reachable,   \* pairs that upstream_url accepts: the protocol and the address
  MaxSaves     \* bound: changes to the configuration

Settings == [Columns -> Choices]

ASSUME RoutingAssumption ==
  /\ Resolvable \subseteq Defaults \X Settings
  /\ Reachable \subseteq Urls \X Settings
  /\ MaxSaves \in Nat

VARIABLES
  provider,  \* Provider rows
  route,     \* ModelRoute rows
  modelKey,  \* ModelKey rows
  policy,    \* the RegistrationPolicy row; revision 0 when there is none
  audit,     \* AccountAudit rows of the policy
  job,       \* what each administrator's request has read and was asked
  call,      \* what each client's request has read
  quote,     \* the configuration whose revision each client holds
  saves,     \* changes begun
  overtaken, \* history: administrators whose edit of a provider or a route
             \*   another such edit has overtaken since it read its row
  raced      \* history: whether one of those was written nevertheless

config == <<provider, route, modelKey, policy, audit>>
vars == <<provider, route, modelKey, policy, audit, job, call, quote, saves,
          overtaken, raced>>
history == <<overtaken, raced>>

\* Also what a client holds that has no capability revision.
None == [none |-> TRUE]

\* An upstream key, with the destination it was entered for.
UpstreamKeys == [dest : Urls, no : 1..MaxSaves]
ProviderRows == [url : Urls, key : UpstreamKeys, defaults : Defaults, enabled : BOOLEAN]
RouteRows == [alias : Aliases, provider : Providers, settings : Settings, enabled : BOOLEAN]

\* What is sent upstream, and what a capability revision is computed from.
Configurations == [url : Urls, key : UpstreamKeys, defaults : Defaults, settings : Settings]

Known == {r \in Routes : route[r] # None}
AliasesOf(rs) == {route[r].alias : r \in rs}

Idle == [kind |-> "idle"]

\* An empty database.
Init ==
  /\ provider = [p \in Providers |-> None]
  /\ route = [r \in Routes |-> None]
  /\ modelKey = [k \in ModelKeys |-> None]
  /\ policy = [revision |-> 0, allowed |-> {}]
  /\ audit = <<>>
  /\ job = [a \in Admins |-> Idle]
  /\ call = [c \in Callers |-> Idle]
  /\ quote = [c \in Callers |-> None]
  /\ saves = 0
  /\ overtaken = {}
  /\ raced = FALSE

-----------------------------------------------------------------------------
(* Requests of administrators                                              *)

Begin(a, request) ==
  /\ job[a] = Idle
  /\ saves < MaxSaves
  /\ saves' = saves + 1
  /\ job' = [job EXCEPT ![a] = request]
  /\ UNCHANGED <<config, call, quote, history>>

\* A later stage of a's request, which has read something more.
Advance(a, request) ==
  /\ job' = [job EXCEPT ![a] = request]
  /\ UNCHANGED <<config, call, quote, saves, history>>

End(a) ==
  /\ job' = [job EXCEPT ![a] = Idle]
  /\ UNCHANGED <<call, quote, saves>>

\* Refused after its first read, or the connection or the process was lost.
Refuse(a) ==
  /\ job[a] # Idle
  /\ job' = [job EXCEPT ![a] = Idle]
  /\ overtaken' = overtaken \ {a}
  /\ UNCHANGED <<config, call, quote, saves, raced>>

\* a's edit of a provider or a route is committed and overtakes the others.
Overtake(a) ==
  /\ raced' = (raced \/ a \in overtaken)
  /\ overtaken' = {b \in Admins \ {a} : job[b].kind \in {"edit", "route"}}

\* The row after an UPDATE of the columns in which new differs from read.
Updated(current, read, new) ==
  [f \in DOMAIN new |-> IF new[f] = read[f] THEN current[f] ELSE new[f]]

\* A provider's row and a route's settings that upstream_url and
\* resolve_route_parameters accept.
Fits(row, settings) ==
  /\ <<row.url, settings>> \in Reachable
  /\ <<row.defaults, settings>> \in Resolvable

-----------------------------------------------------------------------------
(* create_provider, edit_provider                                          *)

CreateProvider(a, p, url, defaults) ==
  /\ job[a] = Idle
  /\ saves < MaxSaves
  /\ provider[p] = None
  /\ provider' = [provider EXCEPT ![p] =
       [url |-> url, key |-> [dest |-> url, no |-> saves + 1],
        defaults |-> defaults, enabled |-> TRUE]]
  /\ saves' = saves + 1
  /\ UNCHANGED <<route, modelKey, policy, audit, job, call, quote, history>>

\* Another destination needs its key entered again.
StartEdit(a, p, url, keyed, defaults, enabled) ==
  /\ provider[p] # None
  /\ url # provider[p].url => keyed
  /\ Begin(a,
       [kind |-> "edit", checked |-> FALSE, id |-> p, read |-> provider[p],
        new |-> [url |-> url, defaults |-> defaults, enabled |-> enabled,
                 key |-> IF keyed THEN [dest |-> url, no |-> saves + 1]
                                  ELSE provider[p].key]])

\* Mutant: routes that are switched off are not looked at.
CheckEnabled(a) ==
  /\ job[a].kind = "edit"
  /\ ~job[a].checked
  /\ \A r \in Known :
       route[r].provider = job[a].id /\ route[r].enabled => Fits(job[a].new, route[r].settings)
  /\ Advance(a, [job[a] EXCEPT !.checked = TRUE])

\* Every route of the provider must still fit.
CheckEdit(a) ==
  /\ job[a].kind = "edit"
  /\ ~job[a].checked
  /\ \A r \in Known : route[r].provider = job[a].id => Fits(job[a].new, route[r].settings)
  /\ Advance(a, [job[a] EXCEPT !.checked = TRUE])

WriteEdit(a) ==
  /\ job[a].kind = "edit"
  /\ job[a].checked
  /\ provider' = [provider EXCEPT ![job[a].id] = Updated(@, job[a].read, job[a].new)]
  /\ Overtake(a)
  /\ End(a)
  /\ UNCHANGED <<route, modelKey, policy, audit>>

-----------------------------------------------------------------------------
(* save_route: create_route and update_route                               *)

\* Mutant: a route can be given another alias.
StartRenaming(a, r, row) ==
  Begin(a, [kind |-> "route", checked |-> FALSE, id |-> r, read |-> route[r], new |-> row])

\* ALIAS_IMMUTABLE, decided on the row read first.
StartRoute(a, r, row) ==
  /\ route[r] # None => route[r].alias = row.alias
  /\ Begin(a, [kind |-> "route", checked |-> FALSE, id |-> r, read |-> route[r], new |-> row])

\* 404, MODEL_ALIAS_EXISTS, INVALID_MODEL_PARAMETERS.
CheckRoute(a) ==
  /\ job[a].kind = "route"
  /\ ~job[a].checked
  /\ LET new == job[a].new IN
       /\ provider[new.provider] # None
       /\ \A r \in Known \ {job[a].id} : route[r].alias # new.alias
       /\ Fits(provider[new.provider], new.settings)
  /\ Advance(a, [job[a] EXCEPT !.checked = TRUE])

\* The settings are columns too, each updated when it differs from the one read.
UpdatedRoute(current, read, new) ==
  [Updated(current, read, new) EXCEPT
     !.settings = Updated(current.settings, read.settings, new.settings)]

\* Aliases are unique: an insertion another one has overtaken fails.
WriteRoute(a) ==
  /\ job[a].kind = "route"
  /\ job[a].checked
  /\ LET j == job[a] IN
       \/ /\ j.read = None
          /\ route[j.id] = None
          /\ j.new.alias \notin AliasesOf(Known)
          /\ route' = [route EXCEPT ![j.id] = j.new]
       \/ /\ j.read # None
          /\ route' = [route EXCEPT ![j.id] = UpdatedRoute(@, j.read, j.new)]
  /\ Overtake(a)
  /\ End(a)
  /\ UNCHANGED <<provider, modelKey, policy, audit>>

-----------------------------------------------------------------------------
(* save_policy, create_key, revoke_key.  Aliases are never taken away, so  *)
(* looking them up and writing are one step.                               *)

\* The page an administrator decides on.
ReadPolicy(a) == Begin(a, [kind |-> "policy", seen |-> policy])

\* Mutant: the last one to save wins.
SaveOverwrites(a, allowed) ==
  /\ job[a].kind = "policy"
  /\ allowed \subseteq AliasesOf(Known)
  /\ policy' = [revision |-> job[a].seen.revision + 1, allowed |-> allowed]
  /\ audit' = Append(audit, [seen |-> job[a].seen, saved |-> policy'])
  /\ End(a)
  /\ UNCHANGED <<provider, route, modelKey, history>>

\* Inserted when there is no row and the revision is 0, else compared and
\* updated; the unique id refuses a second insertion.
SavePolicy(a, allowed) ==
  /\ job[a].kind = "policy"
  /\ allowed \subseteq AliasesOf(Known)
  /\ policy.revision = job[a].seen.revision
  /\ policy' = [revision |-> job[a].seen.revision + 1, allowed |-> allowed]
  /\ audit' = Append(audit, [seen |-> job[a].seen, saved |-> policy'])
  /\ End(a)
  /\ UNCHANGED <<provider, route, modelKey, history>>

CreateKey(a, k, allowed) ==
  /\ job[a] = Idle
  /\ saves < MaxSaves
  /\ modelKey[k] = None
  /\ allowed # {}
  /\ allowed \subseteq AliasesOf({r \in Known : route[r].enabled})
  /\ modelKey' = [modelKey EXCEPT ![k] = [allowed |-> allowed, revoked |-> FALSE]]
  /\ saves' = saves + 1
  /\ UNCHANGED <<provider, route, policy, audit, job, call, quote, history>>

\* Also what a key comes to by expiring.
RevokeKey(k) ==
  /\ modelKey[k] # None
  /\ ~modelKey[k].revoked
  /\ modelKey' = [modelKey EXCEPT ![k].revoked = TRUE]
  /\ UNCHANGED <<provider, route, policy, audit, job, call, quote, saves, history>>

-----------------------------------------------------------------------------
(* Requests of clients: model_list and completions                         *)

Proceed(c, request) ==
  /\ call' = [call EXCEPT ![c] = request]
  /\ UNCHANGED <<config, job, saves, history>>

\* require_key: a model key, or the session of a user whom the policy allows
\* its models.  What is allowed is read here, before the body arrives.
Admit(c, kind, allowed) ==
  /\ call[c] = Idle
  /\ Proceed(c, [kind |-> kind, allowed |-> allowed])
  /\ UNCHANGED quote

AdmitUser(c, kind) == Admit(c, kind, policy.allowed)

AdmitKey(c, kind, k) ==
  /\ modelKey[k] # None
  /\ ~modelKey[k].revoked
  /\ Admit(c, kind, modelKey[k].allowed)

\* An enabled route the client may use; a listing also joins its provider.
\* The public catalogue of official models is this listing with policy.allowed.
ReadRoute(c, r) ==
  /\ call[c].kind \in {"list", "call"}
  /\ route[r] # None
  /\ route[r].enabled
  /\ route[r].alias \in call[c].allowed
  /\ call[c].kind = "list" => provider[route[r].provider].enabled
  /\ Proceed(c, [kind |-> "routed", for |-> call[c].kind, route |-> route[r]])
  /\ UNCHANGED quote

Configuration(c) ==
  LET row == provider[call[c].route.provider] IN
  [url |-> row.url, key |-> row.key, defaults |-> row.defaults, settings |-> call[c].route.settings]

Resolves(configuration) == <<configuration.defaults, configuration.settings>> \in Resolvable

\* Mutant: the revision does not depend on the upstream key.
RevisionWithoutKey(configuration) ==
  <<configuration.url, configuration.defaults, configuration.settings>>

\* route_capabilities_v2: a digest of all of it, the encrypted key included.
Revision(configuration) ==
  <<configuration.url, configuration.key, configuration.defaults, configuration.settings>>

\* model_list: a route that does not resolve is listed without a revision.
Quote(c) ==
  /\ call[c].kind = "routed"
  /\ call[c].for = "list"
  /\ quote' = [quote EXCEPT ![c] = IF Resolves(Configuration(c)) THEN Configuration(c) ELSE None]
  /\ Proceed(c, Idle)

\* completions: the provider is read once, its url and key are used together;
\* PROVIDER_DISABLED, CAPABILITY_REVISION_MISMATCH, UPSTREAM_PROTOCOL_MISMATCH,
\* INVALID_MODEL_PARAMETERS.  Clients use the path of the route's protocol.
Send(c, expected) ==
  /\ call[c].kind = "routed"
  /\ call[c].for = "call"
  /\ provider[call[c].route.provider].enabled
  /\ expected # None => Revision(Configuration(c)) = Revision(expected)
  /\ Fits(Configuration(c), call[c].route.settings)
  /\ Proceed(c, [kind |-> "sent", asked |-> expected, used |-> Configuration(c)])
  /\ UNCHANGED quote

\* Answered, refused on the way, or gone.
Leave(c) ==
  /\ call[c] # Idle
  /\ Proceed(c, Idle)
  /\ UNCHANGED quote

-----------------------------------------------------------------------------
Administer(a) ==
  \/ \E p \in Providers, url \in Urls, defaults \in Defaults :
       \/ CreateProvider(a, p, url, defaults)
       \/ \E keyed, enabled \in BOOLEAN : StartEdit(a, p, url, keyed, defaults, enabled)
  \/ CheckEdit(a)
  \/ WriteEdit(a)
  \/ \E r \in Routes, row \in RouteRows : StartRoute(a, r, row)
  \/ CheckRoute(a)
  \/ WriteRoute(a)
  \/ ReadPolicy(a)
  \/ \E allowed \in SUBSET Aliases :
       \/ SavePolicy(a, allowed)
       \/ \E k \in ModelKeys : CreateKey(a, k, allowed)
  \/ Refuse(a)

Use(c) ==
  \/ \E kind \in {"list", "call"} :
       \/ AdmitUser(c, kind)
       \/ \E k \in ModelKeys : AdmitKey(c, kind, k)
  \/ \E r \in Routes : ReadRoute(c, r)
  \/ Quote(c)
  \/ \E expected \in {None, quote[c]} : Send(c, expected)
  \/ Leave(c)

Next ==
  \/ \E a \in Admins : Administer(a)
  \/ \E c \in Callers : Use(c)
  \/ \E k \in ModelKeys : RevokeKey(k)

Spec == Init /\ [][Next]_vars

-----------------------------------------------------------------------------
(* Properties                                                              *)

PolicyRows == [revision : Nat, allowed : SUBSET Aliases]

AdminRequests ==
  {Idle}
    \cup [kind : {"edit"}, checked : BOOLEAN, id : Providers,
          read : ProviderRows, new : ProviderRows]
    \cup [kind : {"route"}, checked : BOOLEAN, id : Routes,
          read : RouteRows \cup {None}, new : RouteRows]
    \cup [kind : {"policy"}, seen : PolicyRows]

ClientRequests ==
  {Idle}
    \cup [kind : {"list", "call"}, allowed : SUBSET Aliases]
    \cup [kind : {"routed"}, for : {"list", "call"}, route : RouteRows]
    \cup [kind : {"sent"}, asked : Configurations \cup {None}, used : Configurations]

\* Every row, request and client has its shape.
TypeOK ==
  /\ provider \in [Providers -> ProviderRows \cup {None}]
  /\ route \in [Routes -> RouteRows \cup {None}]
  /\ modelKey \in [ModelKeys -> [allowed : SUBSET Aliases, revoked : BOOLEAN] \cup {None}]
  /\ policy \in PolicyRows
  /\ audit \in Seq([seen : PolicyRows, saved : PolicyRows])
  /\ job \in [Admins -> AdminRequests]
  /\ call \in [Callers -> ClientRequests]
  /\ quote \in [Callers -> Configurations \cup {None}]
  /\ saves \in 0..MaxSaves
  /\ overtaken \in SUBSET Admins
  /\ raced \in BOOLEAN

\* A call that quotes a capability revision is sent with exactly the
\* configuration the revision was given for, key and destination included,
\* whatever administrators saved between the listing, the read of the route
\* and the read of the provider (gateway.py: X-Opsark-Expected-Capability-Revision).
DispatchedAsQuoted ==
  \A c \in Callers :
    call[c].kind = "sent" /\ call[c].asked # None => call[c].used = call[c].asked

\* edit_provider checks the routes it reads and save_route the provider it
\* reads; saved at once, they can store a pair neither has checked, and two
\* saves of one route a mixture nobody has (gateway.py:159, 273).  Only so: a
\* route that does not fit its provider, switched on or off, is never stored
\* unless a save was written that another had overtaken.
MisfitsNeedARace ==
  ~raced => \A r \in Known : Fits(provider[route[r].provider], route[r].settings)

\* An alias that a policy or a key allows is and stays the alias of a route:
\* what was allowed for one model can never come to mean nothing
\* (ALIAS_IMMUTABLE; routes are not deleted).
AllowedModelsExist ==
  /\ policy.allowed \subseteq AliasesOf(Known)
  /\ \A k \in ModelKeys : modelKey[k] # None => modelKey[k].allowed \subseteq AliasesOf(Known)

\* The audit tells the whole history of the policy: revision by revision, each
\* decided on the one before and the last one in force.  No save is lost under
\* another (POLICY_CONFLICT).
PolicyAudited ==
  /\ policy.revision = Len(audit)
  /\ \A i \in DOMAIN audit :
       /\ audit[i].saved.revision = i
       /\ i > 1 => audit[i].seen = audit[i - 1].saved
  /\ audit # <<>> => policy = audit[Len(audit)].saved

\* A key is only sent to the destination it was entered for: "更换地址需重新输入
\* 上游 Key" (edit_provider).
KeyForDestination ==
  \A c \in Callers :
    call[c].kind = "sent" => call[c].used.key.dest = call[c].used.url

=============================================================================
