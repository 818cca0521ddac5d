--------------------------- MODULE ContentReleases ---------------------------
(***************************************************************************)
(* Official skills: the draft, its publications and what clients are       *)
(* offered, src/app/official_content.py for the kind "skills".  (The kind  *)
(* "tools" takes the same steps with a fixed set of items whose versions   *)
(* come from the catalogue.)                                               *)
(*                                                                         *)
(* Several administrators work from the revision they read.  A publication *)
(* is one transaction whose statements are steps here: its first one takes *)
(* the row lock of the draft, which the others hold until it ends.         *)
(***************************************************************************)
EXTENDS Naturals, Sequences, FiniteSets

CONSTANTS
  Admins,        \* administrators
  Skills,        \* ids of official skills
  Texts,         \* what a skill says, everything but its version
  TypedVersions, \* item versions an administrator sends
  Catalog,       \* the skills shipped with the service
  Cores,         \* versions of Core a publication may require
  MaxRevision,   \* bound: revisions of the draft
  MaxVersion,    \* bound: publication versions
  NoAdmin

ASSUME ContentAssumption ==
  /\ TypedVersions \subseteq Nat \ {0}
  /\ Cores \subseteq Nat
  /\ MaxRevision \in Nat /\ MaxVersion \in Nat
  /\ NoAdmin \notin Admins
  /\ DOMAIN Catalog \subseteq Skills
  /\ Catalog \in [DOMAIN Catalog -> [text : Texts, version : Nat \ {0}]]

VARIABLES
  drafts,    \* the contents of OfficialContentDraft by revision; the row holds
             \* the last one
  releases,  \* OfficialContentRelease rows in the order of publication
  lock,      \* who holds the row lock of the draft
  view,      \* the revision an administrator has read
  pc,        \* where an administrator's publication is
  job        \* what it is going to insert

vars == <<drafts, releases, lock, view, pc, job>>

Item == [text : Texts, version : Nat]
\* What an administrator sends: at least one item, no id twice.
TypedItems ==
  UNION {[ids -> [text : Texts, version : TypedVersions]] : ids \in (SUBSET Skills) \ {{}}}

Revision == Len(drafts)

Larger(m, n) == IF m > n THEN m ELSE n

\* The publication with the highest version, withdrawn ones included.
Previous == CHOOSE i \in DOMAIN releases :
              \A j \in DOMAIN releases : releases[j].version <= releases[i].version
PreviousVersion == IF releases = << >> THEN 0 ELSE releases[Previous].version
PreviousItems == IF releases = << >> THEN Catalog ELSE releases[Previous].items

NoJob == [version |-> 0]

Init ==
  /\ drafts = << >>
  /\ releases = << >>
  /\ lock = NoAdmin
  /\ view = [a \in Admins |-> 0]
  /\ pc = [a \in Admins |-> "idle"]
  /\ job = [a \in Admins |-> NoJob]

-----------------------------------------------------------------------------
\* read_draft: the revision, 0 while there is no row.
ReadDraft(a) ==
  /\ pc[a] = "idle"
  /\ view[a] # Revision
  /\ view' = [view EXCEPT ![a] = Revision]
  /\ UNCHANGED <<drafts, releases, lock, pc, job>>

\* save_draft: an insertion at revision 0, else a conditional update.
SaveDraft(a, items) ==
  /\ pc[a] = "idle"
  /\ lock = NoAdmin
  /\ view[a] = Revision
  /\ Revision < MaxRevision
  /\ drafts' = Append(drafts, items)
  /\ UNCHANGED <<releases, lock, view, pc, job>>

\* Mutant: the revision is compared without taking the row.
CompareRevision(a, version, core) ==
  /\ pc[a] = "idle"
  /\ view[a] = Revision
  /\ view[a] \in 1 .. MaxRevision - 1
  /\ pc' = [pc EXCEPT ![a] = "claimed"]
  /\ job' = [job EXCEPT ![a] = [version |-> version, core |-> core]]
  /\ UNCHANGED <<drafts, releases, lock, view>>

\* publish, first statement: the conditional update of the revision.
ClaimDraft(a, version, core) ==
  /\ pc[a] = "idle"
  /\ lock = NoAdmin
  /\ view[a] = Revision
  /\ view[a] \in 1 .. MaxRevision - 1
  /\ lock' = a
  /\ pc' = [pc EXCEPT ![a] = "claimed"]
  /\ job' = [job EXCEPT ![a] = [version |-> version, core |-> core]]
  /\ UNCHANGED <<drafts, releases, view>>

\* Mutant: the version typed by the administrator is taken as it is.
Typed(items, old) == [s \in DOMAIN items |-> [items[s] EXCEPT !.version = Larger(@, 1)]]

\* A skill whose text differs from the previous publication gets a version
\* above the one it had there; one that does not keeps at least that version.
Bumped(items, old) ==
  [s \in DOMAIN items |->
     IF s \notin DOMAIN old THEN items[s]
     ELSE [items[s] EXCEPT !.version =
             Larger(@, old[s].version + (IF items[s].text = old[s].text THEN 0 ELSE 1))]]

\* publish, the reads: the draft and the previous publication.
Compose(a) ==
  /\ pc[a] = "claimed"
  /\ job[a].version > PreviousVersion
  /\ pc' = [pc EXCEPT ![a] = "composed"]
  /\ job' = [job EXCEPT ![a] = [version |-> @.version, core |-> @.core,
                                items |-> Bumped(drafts[Revision], PreviousItems)]]
  /\ UNCHANGED <<drafts, releases, lock, view>>

End(a) ==
  /\ lock' = IF lock = a THEN NoAdmin ELSE lock
  /\ pc' = [pc EXCEPT ![a] = "idle"]
  /\ job' = [job EXCEPT ![a] = NoJob]

\* publish, the insertion and the commit: the draft carries the versions on.
Insert(a) ==
  /\ pc[a] = "composed"
  /\ \A i \in DOMAIN releases : releases[i].version # job[a].version
  /\ drafts' = Append(drafts, job[a].items)
  /\ releases' = Append(releases, [version |-> job[a].version, core |-> job[a].core,
                                   items |-> job[a].items, enabled |-> TRUE,
                                   source |-> view[a]])
  /\ End(a)
  /\ UNCHANGED view

\* 409, or the request is lost: the transaction is rolled back.
Refuse(a) ==
  /\ pc[a] # "idle"
  /\ End(a)
  /\ UNCHANGED <<drafts, releases, view>>

\* withdraw
Withdraw(i) ==
  /\ releases[i].enabled
  /\ releases' = [releases EXCEPT ![i].enabled = FALSE]
  /\ UNCHANGED <<drafts, lock, view, pc, job>>

\* Mutant: only the latest enabled publication is looked at.
RunnableLatest(core) ==
  {i \in DOMAIN releases : /\ releases[i].enabled /\ releases[i].core <= core
                           /\ \A j \in DOMAIN releases :
                                releases[j].enabled => releases[j].version <= releases[i].version}

\* available_content, for clients of protocol 3: the latest publication that is
\* enabled and that this Core can run; 0 when there is none.
Runnable(core) == {i \in DOMAIN releases : releases[i].enabled /\ releases[i].core <= core}

Offered(core) ==
  IF Runnable(core) = {} THEN 0
  ELSE CHOOSE n \in {releases[i].version : i \in Runnable(core)} :
         \A i \in Runnable(core) : releases[i].version <= n

AdminNext(a) ==
  \/ ReadDraft(a)
  \/ \E items \in TypedItems : SaveDraft(a, items)
  \/ \E version \in 1 .. MaxVersion, core \in Cores : ClaimDraft(a, version, core)
  \/ Compose(a)
  \/ Insert(a)
  \/ Refuse(a)

Next ==
  \/ \E a \in Admins : AdminNext(a)
  \/ \E i \in DOMAIN releases : Withdraw(i)

Spec == Init /\ [][Next]_vars

-----------------------------------------------------------------------------
(* Properties.                                                             *)

\* Rows and requests have their shape, and the lock is held during a
\* publication only.
TypeOK ==
  /\ \A r \in DOMAIN drafts :
       /\ DOMAIN drafts[r] \in (SUBSET Skills) \ {{}}
       /\ drafts[r] \in [DOMAIN drafts[r] -> Item]
  /\ \A i \in DOMAIN releases :
       /\ releases[i].version \in 1 .. MaxVersion
       /\ releases[i].core \in Cores
       /\ releases[i].source \in DOMAIN drafts
  /\ view \in [Admins -> 0 .. MaxRevision]
  /\ pc \in [Admins -> {"idle", "claimed", "composed"}]
  /\ \A a \in Admins : lock = a <=> pc[a] # "idle"

\* What is published is the draft the administrator had read, not one saved
\* while the publication was under way.
PublishedAsRead ==
  \A i \in DOMAIN releases :
    LET items == releases[i].items
        read  == drafts[releases[i].source]
    IN /\ DOMAIN items = DOMAIN read
       /\ \A s \in DOMAIN items : items[s].text = read[s].text

\* Publications come in the order of their versions; and from one to the very
\* next a skill that both contain never goes back to an older version of its own
\* and moves on when its text changes, whatever versions administrators typed.
\* Nothing is said of a skill that was dropped in between: publish() compares
\* with the previous publication only, so it may return with a version it had.
VersionsIncrease ==
  /\ \A i, j \in DOMAIN releases : i < j => releases[i].version < releases[j].version
  /\ \A i \in DOMAIN releases \ {1} :
       LET old == releases[i - 1].items
           new == releases[i].items
       IN \A s \in DOMAIN old \cap DOMAIN new :
            /\ new[s].version >= old[s].version
            /\ new[s].text # old[s].text => new[s].version > old[s].version

\* A client is offered an older publication only because one was withdrawn.
OffersOnlyFallByWithdrawal ==
  [][\A core \in Cores :
       Offered(core)' < Offered(core) =>
         \E i \in DOMAIN releases : releases[i].enabled /\ ~releases'[i].enabled]_vars
=============================================================================
