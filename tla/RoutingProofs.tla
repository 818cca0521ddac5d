--------------------------- MODULE RoutingProofs ---------------------------
(***************************************************************************)
(* Theorems about Routing: what is sent, what is allowed and what the      *)
(* audit tells, for any number of administrators, clients, providers,      *)
(* routes, keys and changes.                                               *)
(***************************************************************************)
EXTENDS Routing, TLAPS

-----------------------------------------------------------------------------
(* Rows and requests.                                                      *)

Edits == [kind : {"edit"}, checked : BOOLEAN, id : Providers, read : ProviderRows, new : ProviderRows]
RouteSaves == [kind : {"route"}, checked : BOOLEAN, id : Routes, read : RouteRows \cup {None}, new : RouteRows]
PolicySaves == [kind : {"policy"}, seen : PolicyRows]

\* A row is something.
LEMMA RowsAreNotNone ==
  /\ None \notin ProviderRows
  /\ None \notin RouteRows
  /\ None \notin Configurations
  /\ None \notin [allowed : SUBSET Aliases, revoked : BOOLEAN]
BY DEF None, ProviderRows, RouteRows, Configurations

\* An UPDATE of the changed columns leaves settings, perhaps a mixture.
LEMMA SettingsUpdate ==
  ASSUME NEW current \in Settings, NEW read \in Settings, NEW new \in Settings
  PROVE  Updated(current, read, new) \in Settings
BY DEF Updated, Settings

\* An UPDATE of the changed columns leaves a route, of one of the two
\* providers, and the alias it had.
LEMMA RouteUpdate ==
  ASSUME NEW current \in RouteRows, NEW read \in RouteRows, NEW new \in RouteRows
  PROVE  /\ UpdatedRoute(current, read, new) \in RouteRows
         /\ UpdatedRoute(current, read, new).provider \in {current.provider, new.provider}
         /\ read.alias = new.alias => UpdatedRoute(current, read, new).alias = current.alias
<1> DEFINE row == Updated(current, read, new)
           settings == Updated(current.settings, read.settings, new.settings)
<1>1. settings \in Settings
  BY SettingsUpdate DEF RouteRows
<1>2. /\ row \in RouteRows
      /\ row.provider \in {current.provider, new.provider}
      /\ read.alias = new.alias => row.alias = current.alias
  BY DEF Updated, RouteRows
<1>3. UpdatedRoute(current, read, new) = [row EXCEPT !.settings = settings]
  BY DEF UpdatedRoute
<1> HIDE DEF row, settings
<1>4. QED BY <1>1, <1>2, <1>3 DEF RouteRows

\* An UPDATE of the changed columns leaves a provider.
LEMMA UpdatedProvider ==
  ASSUME NEW current \in ProviderRows, NEW read \in ProviderRows, NEW new \in ProviderRows
  PROVE  Updated(current, read, new) \in ProviderRows
BY DEF Updated, ProviderRows

\* Two configurations of one revision are the same.
LEMMA SameRevision ==
  ASSUME NEW x \in Configurations, NEW y \in Configurations, Revision(x) = Revision(y)
  PROVE  x = y
BY DEF Configurations, Revision

\* The kind of an administrator's request tells what it carries.
LEMMA AdminKinds ==
  ASSUME NEW j \in AdminRequests
  PROVE  /\ j.kind = "edit" => j \in Edits
         /\ j.kind = "route" => j \in RouteSaves
         /\ j.kind = "policy" => j \in PolicySaves
BY DEF AdminRequests, Idle, Edits, RouteSaves, PolicySaves

\* The kind of a client's request tells what it carries.
LEMMA ClientKinds ==
  ASSUME NEW r \in ClientRequests
  PROVE  /\ r.kind = "sent" => r \in [kind : {"sent"}, asked : Configurations \cup {None}, used : Configurations]
         /\ r.kind = "routed" => r \in [kind : {"routed"}, for : {"list", "call"}, route : RouteRows]
         /\ r.kind \in {"list", "call"} => r \in [kind : {"list", "call"}, allowed : SUBSET Aliases]
BY DEF ClientRequests, Idle

-----------------------------------------------------------------------------
(* The inductive invariant.                                                *)

\* What has been read is still there, and requests keep what they checked.
AdminConsistent(j) ==
  /\ j.kind = "edit" => provider[j.id] # None
  /\ j.kind = "route" =>
       /\ j.checked => provider[j.new.provider] # None
       /\ j.read # None => route[j.id] # None /\ j.read.alias = j.new.alias
  /\ j.kind = "policy" =>
       /\ j.seen.revision <= policy.revision
       /\ j.seen.revision = policy.revision => j.seen = policy

RowsStay ==
  /\ \A r \in Known : provider[route[r].provider] # None
  /\ \A a \in Admins : AdminConsistent(job[a])
  /\ \A c \in Callers : call[c].kind = "routed" => provider[call[c].route.provider] # None

RoutingInv ==
  /\ TypeOK
  /\ RowsStay
  /\ AllowedModelsExist
  /\ PolicyAudited
  /\ DispatchedAsQuoted

USE RoutingAssumption

\* The empty database satisfies the invariant.
LEMMA InitInv == Init => RoutingInv
<1> SUFFICES ASSUME Init PROVE RoutingInv
  OBVIOUS
<1>1. TypeOK
  <2>1. job \in [Admins -> AdminRequests] /\ call \in [Callers -> ClientRequests]
    BY DEF Init, AdminRequests, ClientRequests
  <2>2. policy \in PolicyRows /\ saves \in 0..MaxSaves
    BY DEF Init, PolicyRows
  <2>3. /\ provider \in [Providers -> ProviderRows \cup {None}]
        /\ route \in [Routes -> RouteRows \cup {None}]
        /\ modelKey \in [ModelKeys -> [allowed : SUBSET Aliases, revoked : BOOLEAN] \cup {None}]
        /\ quote \in [Callers -> Configurations \cup {None}]
    BY DEF Init
  <2>4. audit \in Seq([seen : PolicyRows, saved : PolicyRows])
    BY DEF Init
  <2>5. overtaken \in SUBSET Admins /\ raced \in BOOLEAN
    BY DEF Init
  <2>6. QED BY <2>1, <2>2, <2>3, <2>4, <2>5 DEF TypeOK
<1>2. RowsStay
  BY DEF Init, RowsStay, AdminConsistent, Known, Idle
<1>3. AllowedModelsExist
  BY DEF Init, AllowedModelsExist, AliasesOf
<1>4. PolicyAudited
  BY DEF Init, PolicyAudited
<1>5. DispatchedAsQuoted
  BY DEF Init, DispatchedAsQuoted, Idle
<1>6. QED BY <1>1, <1>2, <1>3, <1>4, <1>5 DEF RoutingInv

\* The histories keep their shape.
HistoryTyped == overtaken' \in SUBSET Admins /\ raced' \in BOOLEAN

\* Beginning or going on with a request keeps the invariant, if the request is
\* consistent.
LEMMA JobChanged ==
  ASSUME RoutingInv, NEW a \in Admins, NEW j \in AdminRequests, AdminConsistent(j),
         job' = [job EXCEPT ![a] = j], saves' \in 0..MaxSaves, HistoryTyped,
         UNCHANGED <<config, call, quote>>
  PROVE  RoutingInv'
<1>1. TypeOK'
  BY DEF RoutingInv, TypeOK, HistoryTyped, config
<1>2. RowsStay'
  <2>1. \A b \in Admins : AdminConsistent(job[b])'
    BY DEF RoutingInv, TypeOK, RowsStay, AdminConsistent, config
  <2>2. QED BY <2>1 DEF RoutingInv, RowsStay, Known, config
<1>3. AllowedModelsExist'
  BY DEF RoutingInv, AllowedModelsExist, AliasesOf, Known, config
<1>4. PolicyAudited'
  BY DEF RoutingInv, PolicyAudited, config
<1>5. DispatchedAsQuoted'
  BY DEF RoutingInv, DispatchedAsQuoted
<1>6. QED BY <1>1, <1>2, <1>3, <1>4, <1>5 DEF RoutingInv

\* A step of a client that keeps the invariant on what it reads and is quoted.
LEMMA CallChanged ==
  ASSUME RoutingInv, NEW c \in Callers, NEW r \in ClientRequests,
         NEW q \in Configurations \cup {None},
         call' = [call EXCEPT ![c] = r], quote' = [quote EXCEPT ![c] = q],
         UNCHANGED <<config, job, saves, history>>,
         r.kind = "routed" => provider[r.route.provider] # None,
         r.kind = "sent" /\ r.asked # None => r.used = r.asked
  PROVE  RoutingInv'
<1>1. TypeOK'
  BY DEF RoutingInv, TypeOK, config, history
<1>2. RowsStay'
  BY DEF RoutingInv, TypeOK, RowsStay, AdminConsistent, Known, config
<1>3. AllowedModelsExist'
  BY DEF RoutingInv, AllowedModelsExist, AliasesOf, Known, config
<1>4. PolicyAudited'
  BY DEF RoutingInv, PolicyAudited, config
<1>5. DispatchedAsQuoted'
  BY DEF RoutingInv, TypeOK, DispatchedAsQuoted
<1>6. QED BY <1>1, <1>2, <1>3, <1>4, <1>5 DEF RoutingInv

\* A request that has ended, or none.
LEMMA IdleConsistent == Idle \in AdminRequests /\ Idle \in ClientRequests /\ AdminConsistent(Idle)
BY DEF AdminRequests, ClientRequests, Idle, AdminConsistent

-----------------------------------------------------------------------------
(* Steps of administrators.                                                *)

\* Writing a provider keeps the invariant.
LEMMA ProviderWritten ==
  ASSUME RoutingInv, NEW p \in Providers, NEW row \in ProviderRows,
         provider' = [provider EXCEPT ![p] = row],
         saves' \in 0..MaxSaves, HistoryTyped,
         UNCHANGED <<route, modelKey, policy, audit, call, quote>>,
         job' = job \/ \E a \in Admins : job' = [job EXCEPT ![a] = Idle]
  PROVE  RoutingInv'
<1>1. TypeOK'
  BY IdleConsistent DEF RoutingInv, TypeOK, HistoryTyped
<1>2. RowsStay'
  <2>1. \A q \in Providers : provider[q] # None => provider'[q] # None
    BY RowsAreNotNone DEF RoutingInv, TypeOK
  <2>2. \A b \in Admins : AdminConsistent(job[b])'
    <3> SUFFICES ASSUME NEW b \in Admins PROVE AdminConsistent(job[b])'
      OBVIOUS
    <3>1. CASE job'[b] = Idle
      BY <3>1 DEF AdminConsistent, Idle
    <3>2. CASE job'[b] = job[b]
      BY <2>1, <3>2, AdminKinds DEF RoutingInv, TypeOK, RowsStay, AdminConsistent, Edits, RouteSaves, RouteRows
    <3>3. QED BY <3>1, <3>2 DEF RoutingInv, TypeOK
  <2>3. \A r \in Known : provider[route[r].provider]' # None
    BY <2>1 DEF RoutingInv, TypeOK, RowsStay, Known, RouteRows
  <2>4. \A c \in Callers : call[c].kind = "routed" => provider'[call[c].route.provider] # None
    BY <2>1, ClientKinds DEF RoutingInv, TypeOK, RowsStay, RouteRows
  <2>5. QED BY <2>2, <2>3, <2>4 DEF RowsStay, Known
<1>3. AllowedModelsExist'
  BY DEF RoutingInv, AllowedModelsExist, AliasesOf, Known
<1>4. PolicyAudited'
  BY DEF RoutingInv, PolicyAudited
<1>5. DispatchedAsQuoted'
  BY DEF RoutingInv, DispatchedAsQuoted
<1>6. QED BY <1>1, <1>2, <1>3, <1>4, <1>5 DEF RoutingInv

\* Writing a route that keeps the alias of the one it replaces keeps the
\* invariant: what is allowed stays an alias.
LEMMA RouteWritten ==
  ASSUME RoutingInv, NEW a \in Admins, NEW r \in Routes, NEW row \in RouteRows,
         route' = [route EXCEPT ![r] = row],
         route[r] # None => row.alias = route[r].alias,
         provider[row.provider] # None,
         job' = [job EXCEPT ![a] = Idle],
         HistoryTyped, UNCHANGED <<provider, modelKey, policy, audit, call, quote, saves>>
  PROVE  RoutingInv'
<1>1. TypeOK'
  BY IdleConsistent DEF RoutingInv, TypeOK, HistoryTyped
<1>2. Known' = Known \cup {r}
  BY RowsAreNotNone DEF RoutingInv, TypeOK, Known
<1>3. RowsStay'
  <2>1. \A b \in Admins : AdminConsistent(job[b])'
    <3> SUFFICES ASSUME NEW b \in Admins PROVE AdminConsistent(job[b])'
      OBVIOUS
    <3>1. CASE job'[b] = Idle
      BY <3>1 DEF AdminConsistent, Idle
    <3>2. CASE job'[b] = job[b]
      BY <3>2, AdminKinds, RowsAreNotNone DEF RoutingInv, TypeOK, RowsStay, AdminConsistent, RouteSaves
    <3>3. QED BY <3>1, <3>2 DEF RoutingInv, TypeOK
  <2>2. \A q \in Known' : provider[route[q].provider]' # None
    BY <1>2 DEF RoutingInv, TypeOK, RowsStay, Known
  <2>3. QED BY <2>1, <2>2 DEF RoutingInv, RowsStay
<1>4. AliasesOf(Known) \subseteq AliasesOf(Known)'
  BY <1>2 DEF RoutingInv, TypeOK, AliasesOf, Known
<1>5. AllowedModelsExist'
  BY <1>4 DEF RoutingInv, AllowedModelsExist
<1>6. PolicyAudited'
  BY DEF RoutingInv, PolicyAudited
<1>7. DispatchedAsQuoted'
  BY DEF RoutingInv, DispatchedAsQuoted
<1>8. QED BY <1>1, <1>3, <1>5, <1>6, <1>7 DEF RoutingInv

\* create_provider and edit_provider keep the invariant.
LEMMA ProviderSteps ==
  ASSUME RoutingInv, NEW a \in Admins
  PROVE  /\ \A p \in Providers, url \in Urls, defaults \in Defaults :
              CreateProvider(a, p, url, defaults) => RoutingInv'
         /\ \A p \in Providers, url \in Urls, defaults \in Defaults, keyed, enabled \in BOOLEAN :
              StartEdit(a, p, url, keyed, defaults, enabled) => RoutingInv'
         /\ CheckEdit(a) => RoutingInv'
         /\ WriteEdit(a) => RoutingInv'
<1>1. ASSUME NEW p \in Providers, NEW url \in Urls, NEW defaults \in Defaults,
             CreateProvider(a, p, url, defaults)
      PROVE  RoutingInv'
  <2> DEFINE row == [url |-> url, key |-> [dest |-> url, no |-> saves + 1],
                     defaults |-> defaults, enabled |-> TRUE]
  <2>1. saves + 1 \in 1..MaxSaves
    BY <1>1 DEF CreateProvider, RoutingInv, TypeOK
  <2>2. row \in ProviderRows
    BY <2>1 DEF ProviderRows, UpstreamKeys
  <2>3. provider' = [provider EXCEPT ![p] = row] /\ saves' \in 0..MaxSaves /\ HistoryTyped
    BY <1>1, <2>1 DEF CreateProvider, HistoryTyped, history, RoutingInv, TypeOK
  <2> HIDE DEF row
  <2>4. QED BY <1>1, <2>2, <2>3, ProviderWritten DEF CreateProvider
<1>2. ASSUME NEW p \in Providers, NEW url \in Urls, NEW defaults \in Defaults,
             NEW keyed \in BOOLEAN, NEW enabled \in BOOLEAN,
             StartEdit(a, p, url, keyed, defaults, enabled)
      PROVE  RoutingInv'
  <2> DEFINE key == IF keyed THEN [dest |-> url, no |-> saves + 1] ELSE provider[p].key
             new == [url |-> url, defaults |-> defaults, enabled |-> enabled, key |-> key]
             j == [kind |-> "edit", checked |-> FALSE, id |-> p, read |-> provider[p], new |-> new]
  <2>1. saves + 1 \in 1..MaxSaves
    BY <1>2 DEF StartEdit, Begin, RoutingInv, TypeOK
  <2>2. provider[p] \in ProviderRows
    BY <1>2 DEF StartEdit, RoutingInv, TypeOK
  <2>3. key \in UpstreamKeys
    BY <2>1, <2>2 DEF ProviderRows, UpstreamKeys
  <2>4. new \in ProviderRows
    BY <2>3 DEF ProviderRows
  <2>5. j \in AdminRequests
    BY <2>2, <2>4 DEF AdminRequests
  <2>6. AdminConsistent(j)
    BY <1>2 DEF StartEdit, AdminConsistent
  <2>7. Begin(a, j)
    BY <1>2 DEF StartEdit
  <2> HIDE DEF key, new, j
  <2>8. saves' \in 0..MaxSaves /\ HistoryTyped
    BY <2>7 DEF Begin, RoutingInv, TypeOK, HistoryTyped, history
  <2>9. QED BY <2>5, <2>6, <2>7, <2>8, JobChanged DEF Begin
<1>3. ASSUME CheckEdit(a) PROVE RoutingInv'
  <2> DEFINE j == [job[a] EXCEPT !.checked = TRUE]
  <2>1. job[a] \in Edits
    BY <1>3, AdminKinds DEF CheckEdit, RoutingInv, TypeOK
  <2>2. j \in AdminRequests /\ j.kind = "edit" /\ j.id = job[a].id
    BY <2>1 DEF Edits, AdminRequests
  <2>3. AdminConsistent(j)
    BY <1>3, <2>2 DEF CheckEdit, RoutingInv, RowsStay, AdminConsistent
  <2>4. Advance(a, j)
    BY <1>3 DEF CheckEdit
  <2> HIDE DEF j
  <2>5. QED BY <2>2, <2>3, <2>4, JobChanged DEF Advance, RoutingInv, TypeOK, HistoryTyped, history
<1>4. ASSUME WriteEdit(a) PROVE RoutingInv'
  <2> DEFINE p == job[a].id
             row == Updated(provider[p], job[a].read, job[a].new)
  <2>1. job[a] \in Edits
    BY <1>4, AdminKinds DEF WriteEdit, RoutingInv, TypeOK
  <2>2. p \in Providers /\ provider[p] \in ProviderRows
    BY <1>4, <2>1 DEF WriteEdit, Edits, RoutingInv, TypeOK, RowsStay, AdminConsistent
  <2>3. row \in ProviderRows
    BY <2>1, <2>2, UpdatedProvider DEF Edits
  <2>4. provider' = [provider EXCEPT ![p] = row]
    BY <1>4 DEF WriteEdit
  <2> HIDE DEF p, row
  <2>5. QED BY <1>4, <2>2, <2>3, <2>4, ProviderWritten
     DEF WriteEdit, End, Overtake, HistoryTyped, RoutingInv, TypeOK
<1>5. QED BY <1>1, <1>2, <1>3, <1>4

\* create_route and update_route keep the invariant.
LEMMA RouteSteps ==
  ASSUME RoutingInv, NEW a \in Admins
  PROVE  /\ \A r \in Routes, row \in RouteRows : StartRoute(a, r, row) => RoutingInv'
         /\ CheckRoute(a) => RoutingInv'
         /\ WriteRoute(a) => RoutingInv'
<1>1. ASSUME NEW r \in Routes, NEW row \in RouteRows, StartRoute(a, r, row) PROVE RoutingInv'
  <2> DEFINE j == [kind |-> "route", checked |-> FALSE, id |-> r, read |-> route[r], new |-> row]
  <2>1. j \in AdminRequests
    BY DEF RoutingInv, TypeOK, AdminRequests
  <2>2. AdminConsistent(j)
    BY <1>1 DEF StartRoute, AdminConsistent
  <2>3. Begin(a, j)
    BY <1>1 DEF StartRoute
  <2> HIDE DEF j
  <2>4. saves' \in 0..MaxSaves /\ HistoryTyped
    BY <2>3 DEF Begin, RoutingInv, TypeOK, HistoryTyped, history
  <2>5. QED BY <2>1, <2>2, <2>3, <2>4, JobChanged DEF Begin
<1>2. ASSUME CheckRoute(a) PROVE RoutingInv'
  <2> DEFINE j == [job[a] EXCEPT !.checked = TRUE]
  <2>1. job[a] \in RouteSaves
    BY <1>2, AdminKinds DEF CheckRoute, RoutingInv, TypeOK
  <2>2. j \in AdminRequests /\ j.kind = "route" /\ j.id = job[a].id /\ j.read = job[a].read /\ j.new = job[a].new
    BY <2>1 DEF RouteSaves, AdminRequests
  <2>3. AdminConsistent(j)
    BY <1>2, <2>2 DEF CheckRoute, RoutingInv, RowsStay, AdminConsistent
  <2>4. Advance(a, j)
    BY <1>2 DEF CheckRoute
  <2> HIDE DEF j
  <2>5. QED BY <2>2, <2>3, <2>4, JobChanged DEF Advance, RoutingInv, TypeOK, HistoryTyped, history
<1>3. ASSUME WriteRoute(a) PROVE RoutingInv'
  <2> DEFINE j == job[a]
  <2>1. j \in RouteSaves /\ AdminConsistent(j) /\ provider[j.new.provider] # None
    BY <1>3, AdminKinds DEF WriteRoute, RoutingInv, TypeOK, RowsStay, AdminConsistent
  <2>2. /\ job' = [job EXCEPT ![a] = Idle]
        /\ HistoryTyped
        /\ UNCHANGED <<provider, modelKey, policy, audit, call, quote, saves>>
    BY <1>3 DEF WriteRoute, End, Overtake, HistoryTyped, RoutingInv, TypeOK
  <2>3. CASE j.read = None
    <3>1. route[j.id] = None /\ route' = [route EXCEPT ![j.id] = j.new]
      BY <1>3, <2>3 DEF WriteRoute
    <3>2. j.id \in Routes /\ j.new \in RouteRows
      BY <2>1 DEF RouteSaves
    <3> HIDE DEF j
    <3>3. QED BY <2>1, <2>2, <3>1, <3>2, RouteWritten
  <2>4. CASE j.read # None
    <3> DEFINE row == UpdatedRoute(route[j.id], j.read, j.new)
    <3>1. route' = [route EXCEPT ![j.id] = row]
      BY <1>3, <2>4 DEF WriteRoute
    <3>2. /\ j.id \in Routes /\ j.new \in RouteRows /\ j.read \in RouteRows
          /\ route[j.id] \in RouteRows /\ j.read.alias = j.new.alias
      BY <1>3, <2>1, <2>4 DEF WriteRoute, RouteSaves, AdminConsistent, RoutingInv, TypeOK
    <3>3. /\ row \in RouteRows
          /\ row.alias = route[j.id].alias
          /\ row.provider \in {route[j.id].provider, j.new.provider}
      BY <3>2, RouteUpdate
    <3>4. provider[route[j.id].provider] # None
      BY <3>2, RowsAreNotNone DEF RoutingInv, RowsStay, Known
    <3>5. provider[row.provider] # None
      BY <2>1, <3>3, <3>4
    <3> HIDE DEF j, row
    <3>6. QED BY <2>2, <3>1, <3>2, <3>3, <3>5, RouteWritten
  <2>5. QED BY <2>3, <2>4
<1>4. QED BY <1>1, <1>2, <1>3

\* Reading and saving the policy keeps the invariant.
LEMMA PolicySteps ==
  ASSUME RoutingInv, NEW a \in Admins
  PROVE  /\ ReadPolicy(a) => RoutingInv'
         /\ \A allowed \in SUBSET Aliases : SavePolicy(a, allowed) => RoutingInv'
<1>1. ASSUME ReadPolicy(a) PROVE RoutingInv'
  <2> DEFINE j == [kind |-> "policy", seen |-> policy]
  <2>1. j \in AdminRequests
    BY DEF RoutingInv, TypeOK, AdminRequests
  <2>2. AdminConsistent(j)
    BY DEF RoutingInv, TypeOK, AdminConsistent, PolicyRows
  <2>3. Begin(a, j)
    BY <1>1 DEF ReadPolicy
  <2> HIDE DEF j
  <2>4. saves' \in 0..MaxSaves /\ HistoryTyped
    BY <2>3 DEF Begin, RoutingInv, TypeOK, HistoryTyped, history
  <2>5. QED BY <2>1, <2>2, <2>3, <2>4, JobChanged DEF Begin
<1>2. ASSUME NEW allowed \in SUBSET Aliases, SavePolicy(a, allowed) PROVE RoutingInv'
  <2> DEFINE seen == job[a].seen
             saved == [revision |-> policy.revision + 1, allowed |-> allowed]
             entry == [seen |-> seen, saved |-> saved]
  <2>1. job[a] \in PolicySaves
    BY <1>2, AdminKinds DEF SavePolicy, RoutingInv, TypeOK
  <2>2. seen = policy
    BY <1>2 DEF SavePolicy, RoutingInv, RowsStay, AdminConsistent
  <2>3. saved \in PolicyRows /\ seen \in PolicyRows
    BY <2>1, <2>2 DEF RoutingInv, TypeOK, PolicyRows
  <2>4. /\ policy' = saved /\ audit' = Append(audit, entry)
        /\ job' = [job EXCEPT ![a] = Idle]
        /\ UNCHANGED <<provider, route, modelKey, call, quote, saves, history>>
    BY <1>2, <2>2 DEF SavePolicy, End
  <2>5. entry \in [seen : PolicyRows, saved : PolicyRows]
    BY <2>3
  <2>6. saved.revision = policy.revision + 1 /\ saved.allowed = allowed /\ policy.revision \in Nat
    BY DEF RoutingInv, TypeOK, PolicyRows
  <2>7. entry.seen = policy /\ entry.saved = saved
    BY <2>2
  <2> HIDE DEF seen, saved, entry
  <2>8. TypeOK'
    BY <2>3, <2>4, <2>5, IdleConsistent DEF RoutingInv, TypeOK, history
  <2>9. RowsStay'
    <3>1. \A b \in Admins : AdminConsistent(job[b])'
      <4> SUFFICES ASSUME NEW b \in Admins PROVE AdminConsistent(job[b])'
        OBVIOUS
      <4>1. CASE job'[b] = Idle
        BY <4>1 DEF AdminConsistent, Idle
      <4>2. CASE job'[b] = job[b]
        <5>1. job[b].kind = "policy" => job[b].seen.revision \in Nat
          BY AdminKinds DEF RoutingInv, TypeOK, PolicySaves, PolicyRows
        <5>2. QED BY <2>4, <2>6, <4>2, <5>1 DEF RoutingInv, RowsStay, AdminConsistent
      <4>3. QED BY <2>4, <4>1, <4>2 DEF RoutingInv, TypeOK
    <3>2. QED BY <2>4, <3>1 DEF RoutingInv, RowsStay, Known
  <2>10. AllowedModelsExist'
    BY <1>2, <2>4, <2>6 DEF SavePolicy, RoutingInv, AllowedModelsExist, AliasesOf, Known
  <2>11. PolicyAudited'
    <3>1. /\ Len(audit') = Len(audit) + 1
          /\ \A i \in DOMAIN audit : audit'[i] = audit[i]
          /\ audit'[Len(audit) + 1] = entry
          /\ DOMAIN audit' = DOMAIN audit \cup {Len(audit) + 1}
          /\ Len(audit) \in Nat /\ DOMAIN audit = 1..Len(audit)
      BY <2>4, <2>5 DEF RoutingInv, TypeOK
    <3>2. policy'.revision = Len(audit')
      BY <2>4, <2>6, <3>1 DEF RoutingInv, PolicyAudited
    <3>3. \A i \in DOMAIN audit' :
            /\ audit'[i].saved.revision = i
            /\ i > 1 => audit'[i].seen = audit'[i - 1].saved
      <4> SUFFICES ASSUME NEW i \in DOMAIN audit'
                   PROVE  /\ audit'[i].saved.revision = i
                          /\ i > 1 => audit'[i].seen = audit'[i - 1].saved
        OBVIOUS
      <4>1. CASE i \in DOMAIN audit
        BY <3>1, <4>1 DEF RoutingInv, PolicyAudited
      <4>2. CASE i = Len(audit) + 1
        <5>1. audit'[i].saved.revision = i
          BY <2>6, <2>7, <3>1, <4>2 DEF RoutingInv, PolicyAudited
        <5>2. i > 1 => audit # <<>> /\ Len(audit) \in DOMAIN audit /\ i - 1 = Len(audit)
          BY <3>1, <4>2 DEF RoutingInv, TypeOK
        <5>3. QED BY <2>7, <3>1, <4>2, <5>1, <5>2 DEF RoutingInv, PolicyAudited
      <4>3. QED BY <3>1, <4>1, <4>2
    <3>4. policy' = audit'[Len(audit')].saved
      BY <2>4, <2>7, <3>1
    <3>5. QED BY <3>2, <3>3, <3>4 DEF PolicyAudited
  <2>12. DispatchedAsQuoted'
    BY <2>4 DEF RoutingInv, DispatchedAsQuoted
  <2>13. QED BY <2>8, <2>9, <2>10, <2>11, <2>12 DEF RoutingInv
<1>3. QED BY <1>1, <1>2

\* A key with models that exist keeps the invariant.
LEMMA KeyWritten ==
  ASSUME RoutingInv, NEW k \in ModelKeys, NEW row \in [allowed : SUBSET Aliases, revoked : BOOLEAN],
         modelKey' = [modelKey EXCEPT ![k] = row],
         row.allowed \subseteq AliasesOf(Known),
         saves' \in 0..MaxSaves, UNCHANGED <<provider, route, policy, audit, job, call, quote, history>>
  PROVE  RoutingInv'
<1>1. TypeOK'
  BY DEF RoutingInv, TypeOK, history
<1>2. RowsStay'
  BY DEF RoutingInv, RowsStay, AdminConsistent, Known
<1>3. AliasesOf(Known)' = AliasesOf(Known)
  BY DEF AliasesOf, Known
<1>4. AllowedModelsExist'
  BY <1>3 DEF RoutingInv, TypeOK, AllowedModelsExist
<1>5. (PolicyAudited /\ DispatchedAsQuoted)'
  BY DEF RoutingInv, PolicyAudited, DispatchedAsQuoted
<1>6. QED BY <1>1, <1>2, <1>4, <1>5 DEF RoutingInv

\* Creating and revoking keys keeps the invariant.
LEMMA KeySteps ==
  ASSUME RoutingInv, NEW k \in ModelKeys
  PROVE  /\ \A a \in Admins, allowed \in SUBSET Aliases : CreateKey(a, k, allowed) => RoutingInv'
         /\ RevokeKey(k) => RoutingInv'
<1>1. ASSUME NEW a \in Admins, NEW allowed \in SUBSET Aliases, CreateKey(a, k, allowed)
      PROVE  RoutingInv'
  <2> DEFINE row == [allowed |-> allowed, revoked |-> FALSE]
  <2>1. row \in [allowed : SUBSET Aliases, revoked : BOOLEAN] /\ row.allowed = allowed
    OBVIOUS
  <2>2. AliasesOf({r \in Known : route[r].enabled}) \subseteq AliasesOf(Known)
    BY DEF AliasesOf
  <2>3. /\ modelKey' = [modelKey EXCEPT ![k] = row]
        /\ saves' \in 0..MaxSaves
        /\ UNCHANGED <<provider, route, policy, audit, job, call, quote, history>>
    BY <1>1 DEF CreateKey, RoutingInv, TypeOK
  <2>4. row.allowed \subseteq AliasesOf(Known)
    BY <1>1, <2>1, <2>2 DEF CreateKey
  <2> HIDE DEF row
  <2>5. QED BY <2>1, <2>3, <2>4, KeyWritten
<1>2. ASSUME RevokeKey(k) PROVE RoutingInv'
  <2> DEFINE row == [modelKey[k] EXCEPT !.revoked = TRUE]
  <2>1. modelKey[k] \in [allowed : SUBSET Aliases, revoked : BOOLEAN]
    BY <1>2 DEF RevokeKey, RoutingInv, TypeOK
  <2>2. row \in [allowed : SUBSET Aliases, revoked : BOOLEAN] /\ row.allowed = modelKey[k].allowed
    BY <2>1
  <2>3. /\ modelKey' = [modelKey EXCEPT ![k] = row]
        /\ saves' \in 0..MaxSaves
        /\ UNCHANGED <<provider, route, policy, audit, job, call, quote, history>>
    BY <1>2 DEF RevokeKey, RoutingInv, TypeOK
  <2>4. row.allowed \subseteq AliasesOf(Known)
    BY <1>2, <2>2 DEF RevokeKey, RoutingInv, AllowedModelsExist
  <2> HIDE DEF row
  <2>5. QED BY <2>2, <2>3, <2>4, KeyWritten
<1>3. QED BY <1>1, <1>2

-----------------------------------------------------------------------------
(* Steps of clients.                                                       *)

\* What a call is sent with, or a listing quotes, is a configuration.
LEMMA ConfigurationType ==
  ASSUME RoutingInv, NEW c \in Callers, call[c].kind = "routed"
  PROVE  Configuration(c) \in Configurations
<1>1. call[c].route \in RouteRows
  BY ClientKinds DEF RoutingInv, TypeOK
<1>2. call[c].route.provider \in Providers /\ call[c].route.settings \in Settings
  BY <1>1 DEF RouteRows
<1>3. provider[call[c].route.provider] \in ProviderRows
  BY <1>2 DEF RoutingInv, TypeOK, RowsStay
<1>4. QED BY <1>2, <1>3 DEF Configuration, Configurations, ProviderRows

\* The steps of a listing or a call keep the invariant.
LEMMA ClientSteps ==
  ASSUME RoutingInv, NEW c \in Callers, Use(c)
  PROVE  RoutingInv'
<1>1. quote[c] \in Configurations \cup {None} /\ quote = [quote EXCEPT ![c] = quote[c]]
  BY DEF RoutingInv, TypeOK
<1>3. ASSUME NEW kind \in {"list", "call"}, NEW allowed \in SUBSET Aliases, Admit(c, kind, allowed)
      PROVE  RoutingInv'
  <2> DEFINE r == [kind |-> kind, allowed |-> allowed]
  <2>1. r \in ClientRequests /\ r.kind \notin {"routed", "sent"}
    BY DEF ClientRequests
  <2>2. call' = [call EXCEPT ![c] = r] /\ UNCHANGED <<config, job, saves, history, quote>>
    BY <1>3 DEF Admit, Proceed
  <2> HIDE DEF r
  <2>3. quote' = [quote EXCEPT ![c] = quote[c]]
    BY <1>1, <2>2
  <2>4. QED BY <1>1, <2>1, <2>2, <2>3, CallChanged
<1>4. ASSUME NEW kind \in {"list", "call"},
             AdmitUser(c, kind) \/ \E k \in ModelKeys : AdmitKey(c, kind, k)
      PROVE  RoutingInv'
  <2>1. policy.allowed \in SUBSET Aliases
    BY DEF RoutingInv, TypeOK, PolicyRows
  <2>2. \A k \in ModelKeys : modelKey[k] # None => modelKey[k].allowed \in SUBSET Aliases
    BY DEF RoutingInv, TypeOK
  <2>3. QED BY <1>3, <1>4, <2>1, <2>2 DEF AdmitUser, AdmitKey
<1>5. ASSUME NEW r \in Routes, ReadRoute(c, r) PROVE RoutingInv'
  <2> DEFINE request == [kind |-> "routed", for |-> call[c].kind, route |-> route[r]]
  <2>1. route[r] \in RouteRows /\ provider[route[r].provider] # None
    BY <1>5 DEF ReadRoute, RoutingInv, TypeOK, RowsStay, Known
  <2>2. /\ request \in ClientRequests /\ request.kind = "routed"
        /\ request.route = route[r]
    BY <1>5, <2>1 DEF ReadRoute, ClientRequests
  <2>3. call' = [call EXCEPT ![c] = request] /\ UNCHANGED <<config, job, saves, history, quote>>
    BY <1>5 DEF ReadRoute, Proceed
  <2> HIDE DEF request
  <2>4. quote' = [quote EXCEPT ![c] = quote[c]]
    BY <1>1, <2>3
  <2>5. QED BY <1>1, <2>1, <2>2, <2>3, <2>4, CallChanged
<1>6. ASSUME Quote(c) PROVE RoutingInv'
  <2> DEFINE q == IF Resolves(Configuration(c)) THEN Configuration(c) ELSE None
  <2>1. Configuration(c) \in Configurations
    BY <1>6, ConfigurationType DEF Quote
  <2>2. q \in Configurations \cup {None}
    BY <2>1
  <2>3. /\ call' = [call EXCEPT ![c] = Idle] /\ quote' = [quote EXCEPT ![c] = q]
        /\ UNCHANGED <<config, job, saves, history>>
    BY <1>6 DEF Quote, Proceed
  <2>4. Idle.kind = "idle"
    BY DEF Idle
  <2> HIDE DEF q
  <2>5. QED BY <2>2, <2>3, <2>4, IdleConsistent, CallChanged
<1>7. ASSUME NEW expected \in {None, quote[c]}, Send(c, expected) PROVE RoutingInv'
  <2> DEFINE request == [kind |-> "sent", asked |-> expected, used |-> Configuration(c)]
  <2>1. Configuration(c) \in Configurations
    BY <1>7, ConfigurationType DEF Send
  <2>2. expected \in Configurations \cup {None}
    BY <1>1
  <2>3. /\ request \in ClientRequests /\ request.kind = "sent"
        /\ request.asked = expected /\ request.used = Configuration(c)
    BY <2>1, <2>2 DEF ClientRequests
  <2>4. expected # None => Configuration(c) = expected
    BY <1>7, <2>1, <2>2, SameRevision DEF Send
  <2>6. call' = [call EXCEPT ![c] = request] /\ UNCHANGED <<config, job, saves, history, quote>>
    BY <1>7 DEF Send, Proceed
  <2> HIDE DEF request
  <2>7. quote' = [quote EXCEPT ![c] = quote[c]]
    BY <1>1, <2>6
  <2>8. QED BY <1>1, <2>3, <2>4, <2>6, <2>7, CallChanged
<1>8. ASSUME Leave(c) PROVE RoutingInv'
  <2>1. call' = [call EXCEPT ![c] = Idle] /\ UNCHANGED <<config, job, saves, history, quote>>
    BY <1>8 DEF Leave, Proceed
  <2>2. quote' = [quote EXCEPT ![c] = quote[c]]
    BY <1>1, <2>1
  <2>3. Idle.kind = "idle"
    BY DEF Idle
  <2>4. QED BY <1>1, <2>1, <2>2, <2>3, IdleConsistent, CallChanged
<1>9. QED BY <1>4, <1>5, <1>6, <1>7, <1>8 DEF Use

-----------------------------------------------------------------------------
(* What does not fit.                                                      *)

\* A request that nobody has overtaken would still read what it has read.
Current(j) ==
  /\ j.kind = "edit" =>
       /\ provider[j.id] = j.read
       /\ j.checked => \A r \in Known :
                         route[r].provider = j.id => Fits(j.new, route[r].settings)
  /\ j.kind = "route" =>
       /\ route[j.id] = j.read
       /\ j.checked => Fits(provider[j.new.provider], j.new.settings)

FitInv ==
  /\ MisfitsNeedARace
  /\ \A a \in Admins \ overtaken : Current(job[a])

LEMMA IdleCurrent == Current(Idle) /\ Current(Idle)'
BY DEF Current, Idle

\* Whoever begins, goes on or ends without writing a provider or a route.
LEMMA FitKept ==
  ASSUME RoutingInv, FitInv, UNCHANGED <<provider, route, raced>>,
         \/ job' = job /\ overtaken' = overtaken
         \/ \E a \in Admins : \E j :
              /\ overtaken \ {a} \subseteq overtaken'
              /\ job' = [job EXCEPT ![a] = j]
              /\ a \notin overtaken' => Current(j)
  PROVE  FitInv'
<1>1. MisfitsNeedARace'
  BY DEF FitInv, MisfitsNeedARace, Known
<1>2. ASSUME NEW b \in Admins \ overtaken' PROVE Current(job[b])'
  <2> DEFINE C(j) == Current(j)
  <2>1. C(job'[b])
    <3> HIDE DEF C
    <3>1. \A d \in Admins \ overtaken : C(job[d])
      BY DEF FitInv, C
    <3>2. CASE job' = job /\ overtaken' = overtaken
      BY <1>2, <3>1, <3>2
    <3>3. ASSUME NEW a \in Admins, NEW j, overtaken \ {a} \subseteq overtaken',
                 job' = [job EXCEPT ![a] = j], a \notin overtaken' => C(j)
          PROVE  C(job'[b])
      <4>1. DOMAIN job = Admins
        BY DEF RoutingInv, TypeOK
      <4>2. CASE b = a
        BY <1>2, <3>3, <4>1, <4>2
      <4>3. CASE b # a
        BY <1>2, <3>1, <3>3, <4>1, <4>3
      <4>4. QED BY <4>2, <4>3
    <3>4. CASE ~(job' = job /\ overtaken' = overtaken)
      <4>1. PICK a, j : /\ a \in Admins
                        /\ overtaken \ {a} \subseteq overtaken'
                        /\ job' = [job EXCEPT ![a] = j]
                        /\ a \notin overtaken' => C(j)
        BY <3>4 DEF C
      <4>2. QED BY <3>3, <4>1
    <3>5. QED BY <3>2, <3>4
  <2>2. QED BY <2>1 DEF Current, Known
<1>3. QED BY <1>1, <1>2 DEF FitInv

\* Whoever commits a change overtakes all others.
LEMMA FitOvertaken ==
  ASSUME RoutingInv, NEW a \in Admins, Overtake(a), job' = [job EXCEPT ![a] = Idle],
         MisfitsNeedARace'
  PROVE  FitInv'
<1>1. ASSUME NEW b \in Admins \ overtaken' PROVE Current(job[b])'
  <2>1. CASE b = a
    BY <2>1, IdleCurrent DEF RoutingInv, TypeOK
  <2>2. CASE b # a
    <3>1. job[b].kind \notin {"edit", "route"} /\ job'[b] = job[b]
      BY <1>1, <2>2 DEF Overtake, RoutingInv, TypeOK
    <3>2. QED BY <3>1 DEF Current
  <2>3. QED BY <2>1, <2>2
<1>2. QED BY <1>1 DEF FitInv

\* A row updated where nobody has written since it was read is the new row.
LEMMA UpdatedCurrent ==
  /\ \A read, new \in ProviderRows : Updated(read, read, new) = new
  /\ \A read, new \in RouteRows : UpdatedRoute(read, read, new) = new
<1>1. \A read, new \in ProviderRows : Updated(read, read, new) = new
  BY DEF Updated, ProviderRows
<1>2. \A read, new \in Settings : Updated(read, read, new) = new
  BY DEF Updated, Settings
<1>3. ASSUME NEW read \in RouteRows, NEW new \in RouteRows
      PROVE  UpdatedRoute(read, read, new) = new
  <2>1. Updated(read, read, new) = new
    BY DEF Updated, RouteRows
  <2>2. Updated(read.settings, read.settings, new.settings) = new.settings
    BY <1>2 DEF RouteRows
  <2>3. QED BY <2>1, <2>2 DEF UpdatedRoute, RouteRows
<1>4. QED BY <1>1, <1>3

LEMMA FitProviderSteps ==
  ASSUME RoutingInv, FitInv, NEW a \in Admins
  PROVE  /\ \A p \in Providers, url \in Urls, defaults \in Defaults :
              CreateProvider(a, p, url, defaults) => FitInv'
         /\ \A p \in Providers, url \in Urls, defaults \in Defaults, keyed, enabled \in BOOLEAN :
              StartEdit(a, p, url, keyed, defaults, enabled) => FitInv'
         /\ CheckEdit(a) => FitInv'
         /\ WriteEdit(a) => FitInv'
<1>1. ASSUME NEW p \in Providers, NEW url \in Urls, NEW defaults \in Defaults,
             CreateProvider(a, p, url, defaults)
      PROVE  FitInv'
  <2>1. /\ \A q \in Providers : provider[q] # None => provider'[q] = provider[q]
        /\ UNCHANGED <<route, job, overtaken, raced>>
    BY <1>1 DEF CreateProvider, history, RoutingInv, TypeOK
  <2>2. MisfitsNeedARace'
    <3>1. \A r \in Known : route[r] \in RouteRows /\ provider[route[r].provider] # None
      BY DEF RoutingInv, TypeOK, RowsStay, Known
    <3>2. \A r \in Known : provider'[route[r].provider] = provider[route[r].provider]
      BY <2>1, <3>1 DEF RouteRows
    <3>3. QED BY <2>1, <3>2 DEF FitInv, MisfitsNeedARace, Known
  <2>3. ASSUME NEW b \in Admins \ overtaken PROVE Current(job[b])'
    <3>1. AdminConsistent(job[b]) /\ Current(job[b])
      BY DEF RoutingInv, RowsStay, FitInv
    <3>2. job[b].kind = "edit" => provider'[job[b].id] = provider[job[b].id]
      BY <2>1, <3>1, AdminKinds DEF AdminConsistent, Edits, RoutingInv, TypeOK
    <3>3. job[b].kind = "route" /\ job[b].checked
            => provider'[job[b].new.provider] = provider[job[b].new.provider]
      BY <2>1, <3>1, AdminKinds DEF AdminConsistent, RouteSaves, RouteRows, RoutingInv, TypeOK
    <3>4. QED BY <2>1, <3>1, <3>2, <3>3 DEF Current, Known
  <2>4. QED BY <2>1, <2>2, <2>3 DEF FitInv
<1>2. ASSUME NEW p \in Providers, NEW url \in Urls, NEW defaults \in Defaults,
             NEW keyed \in BOOLEAN, NEW enabled \in BOOLEAN,
             StartEdit(a, p, url, keyed, defaults, enabled)
      PROVE  FitInv'
  <2>1. PICK j : Begin(a, j) /\ j.kind = "edit" /\ ~j.checked /\ provider[j.id] = j.read
    BY <1>2 DEF StartEdit
  <2>2. Current(j)
    BY <2>1 DEF Current
  <2>3. QED BY <2>1, <2>2, FitKept DEF Begin, config, history
<1>3. ASSUME CheckEdit(a) PROVE FitInv'
  <2> DEFINE j == [job[a] EXCEPT !.checked = TRUE]
  <2>1. job[a] \in Edits
    BY <1>3, AdminKinds DEF CheckEdit, RoutingInv, TypeOK
  <2>2. j.kind = "edit" /\ j.id = job[a].id /\ j.read = job[a].read /\ j.new = job[a].new
    BY <2>1 DEF Edits
  <2>3. a \notin overtaken => Current(j)
    BY <1>3, <2>2 DEF CheckEdit, Current, FitInv
  <2>4. Advance(a, j)
    BY <1>3 DEF CheckEdit
  <2> HIDE DEF j
  <2>5. QED BY <2>3, <2>4, FitKept DEF Advance, config, history
<1>4. ASSUME WriteEdit(a) PROVE FitInv'
  <2> DEFINE j == job[a]
  <2>1. /\ j \in Edits /\ j.checked
        /\ Overtake(a) /\ job' = [job EXCEPT ![a] = Idle] /\ route' = route
        /\ provider' = [provider EXCEPT ![j.id] = Updated(@, j.read, j.new)]
    BY <1>4, AdminKinds DEF WriteEdit, End, RoutingInv, TypeOK
  <2>2. MisfitsNeedARace'
    <3> SUFFICES ASSUME ~raced', NEW r \in Known
                 PROVE  Fits(provider[route[r].provider], route[r].settings)'
      BY <2>1 DEF MisfitsNeedARace, Known
    <3>1. ~raced /\ a \notin overtaken
      BY <2>1 DEF Overtake
    <3>2. j.kind = "edit" /\ Current(j)
      BY <2>1, <3>1 DEF FitInv, Edits
    <3>3. provider[j.id] = j.read /\ (route[r].provider = j.id => Fits(j.new, route[r].settings))
      BY <2>1, <3>2 DEF Current
    <3>4. provider' = [provider EXCEPT ![j.id] = j.new]
      BY <2>1, <3>3, UpdatedCurrent DEF Edits
    <3>5. Fits(provider[route[r].provider], route[r].settings)
      BY <3>1 DEF FitInv, MisfitsNeedARace
    <3>6. route[r] \in RouteRows
      BY DEF Known, RoutingInv, TypeOK
    <3>7. Fits(provider'[route[r].provider], route[r].settings)
      <4> HIDE DEF j
      <4>1. CASE route[r].provider = j.id
        BY <2>1, <3>3, <3>4, <4>1 DEF Edits, RoutingInv, TypeOK
      <4>2. CASE route[r].provider # j.id
        BY <3>4, <3>5, <3>6, <4>2 DEF RouteRows, RoutingInv, TypeOK
      <4>3. QED BY <4>1, <4>2
    <3>8. QED BY <2>1, <3>7 DEF Fits
  <2>3. QED BY <2>1, <2>2, FitOvertaken
<1>5. QED BY <1>1, <1>2, <1>3, <1>4

LEMMA FitRouteSteps ==
  ASSUME RoutingInv, FitInv, NEW a \in Admins
  PROVE  /\ \A r \in Routes, row \in RouteRows : StartRoute(a, r, row) => FitInv'
         /\ CheckRoute(a) => FitInv'
         /\ WriteRoute(a) => FitInv'
<1>1. ASSUME NEW r \in Routes, NEW row \in RouteRows, StartRoute(a, r, row) PROVE FitInv'
  <2>1. PICK j : Begin(a, j) /\ j.kind = "route" /\ ~j.checked /\ route[j.id] = j.read
    BY <1>1 DEF StartRoute
  <2>2. Current(j)
    BY <2>1 DEF Current
  <2>3. QED BY <2>1, <2>2, FitKept DEF Begin, config, history
<1>2. ASSUME CheckRoute(a) PROVE FitInv'
  <2> DEFINE j == [job[a] EXCEPT !.checked = TRUE]
  <2>1. job[a] \in RouteSaves
    BY <1>2, AdminKinds DEF CheckRoute, RoutingInv, TypeOK
  <2>2. j.kind = "route" /\ j.id = job[a].id /\ j.read = job[a].read /\ j.new = job[a].new
    BY <2>1 DEF RouteSaves
  <2>3. a \notin overtaken => Current(j)
    BY <1>2, <2>2 DEF CheckRoute, Current, FitInv
  <2>4. Advance(a, j)
    BY <1>2 DEF CheckRoute
  <2> HIDE DEF j
  <2>5. QED BY <2>3, <2>4, FitKept DEF Advance, config, history
<1>3. ASSUME WriteRoute(a) PROVE FitInv'
  <2> DEFINE j == job[a]
  <2>1. /\ j \in RouteSaves /\ j.checked
        /\ Overtake(a) /\ job' = [job EXCEPT ![a] = Idle] /\ provider' = provider
    BY <1>3, AdminKinds DEF WriteRoute, End, RoutingInv, TypeOK
  <2>2. MisfitsNeedARace'
    <3> SUFFICES ASSUME ~raced', NEW r \in Routes, route'[r] # None
                 PROVE  Fits(provider[route[r].provider], route[r].settings)'
      BY DEF MisfitsNeedARace, Known
    <3>1. ~raced /\ a \notin overtaken
      BY <2>1 DEF Overtake
    <3>2. j.kind = "route" /\ Current(j)
      BY <2>1, <3>1 DEF FitInv, RouteSaves
    <3>3. route[j.id] = j.read /\ Fits(provider[j.new.provider], j.new.settings)
      BY <2>1, <3>2 DEF Current
    <3>4. route' = [route EXCEPT ![j.id] = j.new]
      <4>1. CASE j.read = None
        BY <1>3, <4>1 DEF WriteRoute
      <4>2. CASE j.read # None
        BY <1>3, <2>1, <3>3, <4>2, UpdatedCurrent DEF WriteRoute, RouteSaves
      <4>3. QED BY <4>1, <4>2
    <3>5. Fits(provider[route'[r].provider], route'[r].settings)
      <4> HIDE DEF j
      <4>1. CASE r = j.id
        BY <3>3, <3>4, <4>1 DEF RoutingInv, TypeOK
      <4>2. CASE r # j.id
        <5>1. route'[r] = route[r]
          BY <3>4, <4>2 DEF RoutingInv, TypeOK
        <5>2. QED BY <3>1, <5>1 DEF FitInv, MisfitsNeedARace, Known
      <4>3. QED BY <4>1, <4>2
    <3>6. QED BY <2>1, <3>5 DEF Fits
  <2>3. QED BY <2>1, <2>2, FitOvertaken
<1>4. QED BY <1>1, <1>2, <1>3

\* No step stores what does not fit unless it was overtaken.
LEMMA StepFit == RoutingInv /\ FitInv /\ [Next]_vars => FitInv'
<1> SUFFICES ASSUME RoutingInv, FitInv, [Next]_vars PROVE FitInv'
  OBVIOUS
<1>1. ASSUME NEW a \in Admins, ReadPolicy(a) PROVE FitInv'
  <2>1. PICK j : Begin(a, j) /\ j.kind = "policy"
    BY <1>1 DEF ReadPolicy
  <2>2. QED BY <2>1, FitKept DEF Begin, config, history, Current
<1>2. ASSUME NEW a \in Admins, Refuse(a) \/ \E allowed \in SUBSET Aliases : SavePolicy(a, allowed)
      PROVE  FitInv'
  <2>1. /\ UNCHANGED <<provider, route, raced>>
        /\ overtaken \ {a} \subseteq overtaken' /\ job' = [job EXCEPT ![a] = Idle]
    BY <1>2 DEF Refuse, SavePolicy, End, config, history
  <2>2. QED BY <2>1, IdleCurrent, FitKept
<1>3. ASSUME UNCHANGED <<provider, route, raced, job, overtaken>> PROVE FitInv'
  BY <1>3, FitKept
<1>4. ASSUME NEW a \in Admins, NEW k \in ModelKeys, NEW allowed \in SUBSET Aliases,
             CreateKey(a, k, allowed)
      PROVE  FitInv'
  BY <1>3, <1>4 DEF CreateKey, history
<1>5. ASSUME NEW a \in Admins, Administer(a) PROVE FitInv'
  BY <1>1, <1>2, <1>4, <1>5, FitProviderSteps, FitRouteSteps DEF Administer
<1>6. ASSUME NEW c \in Callers, Use(c) PROVE FitInv'
  BY <1>3, <1>6 DEF Use, AdmitUser, AdmitKey, Admit, ReadRoute, Quote, Send, Leave, Proceed, config, history
<1>7. ASSUME NEW k \in ModelKeys, RevokeKey(k) PROVE FitInv'
  BY <1>3, <1>7 DEF RevokeKey, history
<1>8. ASSUME UNCHANGED vars PROVE FitInv'
  BY <1>3, <1>8 DEF vars
<1>9. QED BY <1>5, <1>6, <1>7, <1>8 DEF Next

LEMMA InitFit == Init => FitInv
BY DEF Init, FitInv, MisfitsNeedARace, Known, Current, Idle

-----------------------------------------------------------------------------
(* The theorems.                                                           *)

\* Every step keeps the invariant.
LEMMA StepInv == RoutingInv /\ [Next]_vars => RoutingInv'
<1> SUFFICES ASSUME RoutingInv, [Next]_vars PROVE RoutingInv'
  OBVIOUS
<1>1. ASSUME NEW a \in Admins, Administer(a) PROVE RoutingInv'
  <2>1. ASSUME Refuse(a) PROVE RoutingInv'
    <3>1. saves' \in 0..MaxSaves /\ HistoryTyped
      BY <2>1 DEF Refuse, RoutingInv, TypeOK, HistoryTyped
    <3>2. QED BY <2>1, <3>1, IdleConsistent, JobChanged DEF Refuse
  <2>2. QED BY <1>1, <2>1, ProviderSteps, RouteSteps, PolicySteps, KeySteps DEF Administer
<1>2. ASSUME NEW c \in Callers, Use(c) PROVE RoutingInv'
  BY <1>2, ClientSteps
<1>3. ASSUME NEW k \in ModelKeys, RevokeKey(k) PROVE RoutingInv'
  BY <1>3, KeySteps
<1>4. ASSUME UNCHANGED vars PROVE RoutingInv'
  <2>1. (TypeOK /\ RowsStay /\ AllowedModelsExist)'
    BY <1>4 DEF vars, RoutingInv, TypeOK, RowsStay, AdminConsistent, AllowedModelsExist, AliasesOf, Known
  <2>2. (PolicyAudited /\ DispatchedAsQuoted)'
    BY <1>4 DEF vars, RoutingInv, PolicyAudited, DispatchedAsQuoted
  <2>3. QED BY <2>1, <2>2 DEF RoutingInv
<1>5. QED BY <1>1, <1>2, <1>3, <1>4 DEF Next

\* The invariant holds in every state.
LEMMA InvAlways == Spec => []RoutingInv
BY InitInv, StepInv, PTL DEF Spec

\* Every row, request and client keeps its shape.
THEOREM RoutingTypeCorrect == Spec => []TypeOK
BY InvAlways, PTL DEF RoutingInv

\* A call that quotes a capability revision is sent with exactly the
\* configuration quoted, key and destination included.
THEOREM SentAsQuoted == Spec => []DispatchedAsQuoted
BY InvAlways, PTL DEF RoutingInv

\* A route that does not fit its provider is stored only by a save that another
\* had overtaken: one administrator at a time never stores one.
THEOREM MisfitsAreRaces == Spec => []MisfitsNeedARace
<1>1. Spec => [](RoutingInv /\ FitInv)
  BY InitInv, InitFit, StepInv, StepFit, PTL DEF Spec
<1>2. QED BY <1>1, PTL DEF FitInv

\* What a policy or a key allows is and stays the alias of a route.
THEOREM AllowedStays == Spec => []AllowedModelsExist
BY InvAlways, PTL DEF RoutingInv

\* The audit tells the whole history of the registration policy.
THEOREM AuditComplete == Spec => []PolicyAudited
BY InvAlways, PTL DEF RoutingInv
=============================================================================
