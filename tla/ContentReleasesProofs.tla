------------------------ MODULE ContentReleasesProofs ------------------------
(***************************************************************************)
(* Theorems about ContentReleases: what a publication contains and how its *)
(* versions and those of its skills follow each other, for any number of   *)
(* administrators, skills and publications.                                *)
(***************************************************************************)
EXTENDS ContentReleases, TLAPS

USE ContentAssumption

-----------------------------------------------------------------------------
(* The inductive invariant.                                                *)

\* Contents of a draft or a publication, and the rows of the publications.
Contents == UNION {[ids -> Item] : ids \in (SUBSET Skills) \ {{}}}
Release == [version : 1 .. MaxVersion, core : Cores, items : Contents, enabled : BOOLEAN,
            source : Nat]

Shape ==
  /\ drafts \in Seq(Contents) /\ Len(drafts) <= MaxRevision
  /\ releases \in Seq(Release)
  /\ \A i \in DOMAIN releases : releases[i].source \in DOMAIN drafts
  /\ view \in [Admins -> 0 .. MaxRevision]
  /\ pc \in [Admins -> {"idle", "claimed", "composed"}]
  /\ job \in [Admins -> {NoJob} \cup [version : 1 .. MaxVersion, core : Cores]
                              \cup [version : 1 .. MaxVersion, core : Cores, items : Contents]]
  /\ \A a \in Admins : lock = a <=> pc[a] # "idle"

\* Versions grow, so the publication with the highest one is the last.
InOrder == \A i, j \in DOMAIN releases : i < j => releases[i].version < releases[j].version

LastItems == IF releases = << >> THEN Catalog ELSE releases[Len(releases)].items

\* A publication under way has the draft it was asked for, and once composed it
\* is above all others and continues the last of them.
Publishing(a) ==
  /\ pc[a] # "idle" =>
       view[a] = Revision /\ view[a] \in 1 .. MaxRevision - 1
  /\ pc[a] = "claimed" => job[a] \in [version : 1 .. MaxVersion, core : Cores]
  /\ pc[a] = "composed" =>
       /\ job[a] \in [version : 1 .. MaxVersion, core : Cores, items : Contents]
       /\ \A i \in DOMAIN releases : releases[i].version < job[a].version
       /\ job[a].items = Bumped(drafts[Revision], LastItems)

\* From one publication to the next no skill's version goes back, and it moves
\* on when the text changes.
Follows(old, new) ==
  \A s \in DOMAIN old \cap DOMAIN new :
    /\ new[s].version >= old[s].version
    /\ new[s].text # old[s].text => new[s].version > old[s].version

\* Any publications have a last one among them.  (An invariant, which grows by
\* one publication at a time, in place of an induction on their number.)
HaveLast ==
  \A I \in SUBSET DOMAIN releases : I # {} => \E n \in I : \A i \in I : i <= n

ContentInv ==
  /\ Shape
  /\ HaveLast
  /\ InOrder
  /\ \A a \in Admins : Publishing(a)
  /\ PublishedAsRead
  /\ \A i \in DOMAIN releases \ {1} : Follows(releases[i - 1].items, releases[i].items)

LEMMA InitInv == Init => ContentInv
BY DEF Init, ContentInv, Shape, HaveLast, InOrder, Publishing, PublishedAsRead, Contents, Release

LEMMA ContentsOf ==
  ASSUME NEW f
  PROVE  f \in Contents <=> DOMAIN f \in (SUBSET Skills) \ {{}} /\ f \in [DOMAIN f -> Item]
BY DEF Contents

LEMMA Rows ==
  ASSUME ContentInv
  PROVE  /\ Len(releases) \in Nat /\ DOMAIN releases = 1 .. Len(releases)
         /\ \A i \in DOMAIN releases : /\ releases[i] \in Release
                                      /\ releases[i].version \in Nat
                                      /\ releases[i].items \in Contents
<1>1. \A i \in DOMAIN releases : releases[i] \in Release
  BY DEF ContentInv, Shape
<1>2. QED BY <1>1 DEF ContentInv, Shape, Release

\* What a publication continues.
LEMMA LastContents ==
  ASSUME ContentInv
  PROVE  \E ids \in SUBSET Skills : LastItems \in [ids -> Item]
<1>1. CASE releases = << >>
  BY <1>1 DEF LastItems, Item
<1>2. CASE releases # << >>
  <2>1. Len(releases) \in DOMAIN releases
    BY <1>2 DEF ContentInv, Shape
  <2>2. LastItems \in Contents
    BY <1>2, <2>1, Rows DEF LastItems
  <2>3. QED BY <2>2, ContentsOf
<1>3. QED BY <1>1, <1>2

\* The publication that publish() compares with is the last one.
LEMMA PreviousIsLast ==
  ASSUME ContentInv
  PROVE  /\ PreviousItems = LastItems
         /\ \A version \in Nat : version > PreviousVersion =>
              \A i \in DOMAIN releases : releases[i].version < version
<1>1. CASE releases = << >>
  BY <1>1 DEF PreviousItems, LastItems
<1>2. CASE releases # << >>
  <2> DEFINE n == Len(releases)
             Highest(i) == \A j \in DOMAIN releases : releases[j].version <= releases[i].version
  <2>1. releases \in Seq(Release) /\ n \in Nat \ {0} /\ DOMAIN releases = 1 .. n
    BY <1>2 DEF ContentInv, Shape
  <2>2. \A i \in DOMAIN releases : releases[i].version \in Nat
    BY Rows
  <2>3. Highest(n) /\ n \in DOMAIN releases
    BY <2>1, <2>2 DEF ContentInv, InOrder
  <2>4. \A i \in DOMAIN releases : Highest(i) => i = n
    <3> SUFFICES ASSUME NEW i \in DOMAIN releases, Highest(i), i < n PROVE FALSE
      BY <2>1
    <3>1. releases[i].version < releases[n].version
      BY <2>3 DEF ContentInv, InOrder
    <3>2. releases[n].version <= releases[i].version
      BY <2>3
    <3>3. QED BY <2>2, <2>3, <3>1, <3>2
  <2>5. Previous = n
    BY <2>3, <2>4 DEF Previous
  <2>6. QED BY <1>2, <2>2, <2>3, <2>5 DEF PreviousItems, PreviousVersion, LastItems
<1>3. QED BY <1>1, <1>2

\* A skill of a publication has its text from the draft and a version that
\* follows the one it had.
LEMMA BumpedItems ==
  ASSUME NEW items \in Contents, NEW old, NEW ids \in SUBSET Skills, old \in [ids -> Item]
  PROVE  LET new == Bumped(items, old)
         IN  /\ new \in Contents /\ DOMAIN new = DOMAIN items
             /\ \A s \in DOMAIN items : new[s].text = items[s].text
             /\ Follows(old, new)
<1> DEFINE new == Bumped(items, old)
<1>1. DOMAIN items \in (SUBSET Skills) \ {{}} /\ items \in [DOMAIN items -> Item]
  BY ContentsOf
<1>2. DOMAIN old = ids
  OBVIOUS
<1>3. DOMAIN new = DOMAIN items /\ new = [s \in DOMAIN items |-> new[s]]
  BY DEF Bumped
<1>4. ASSUME NEW s \in DOMAIN items, s \notin ids
      PROVE  new[s] = items[s]
  BY <1>2, <1>4 DEF Bumped
<1>5. ASSUME NEW s \in DOMAIN items, s \in ids
      PROVE  /\ new[s] \in Item /\ new[s].text = items[s].text
             /\ new[s].version >= old[s].version
             /\ new[s].text # old[s].text => new[s].version > old[s].version
  <2>1. items[s] \in Item /\ old[s] \in Item
    BY <1>1, <1>5
  <2> DEFINE v == Larger(items[s].version,
                         old[s].version + (IF items[s].text = old[s].text THEN 0 ELSE 1))
  <2>2. new[s] = [items[s] EXCEPT !.version = v]
    BY <1>2, <1>5, <2>1 DEF Bumped, Item
  <2>3. /\ v \in Nat /\ v >= old[s].version
        /\ items[s].text # old[s].text => v > old[s].version
    BY <2>1 DEF Item, Larger
  <2> HIDE DEF v
  <2>4. /\ [items[s] EXCEPT !.version = v] \in Item
        /\ [items[s] EXCEPT !.version = v].version = v
        /\ [items[s] EXCEPT !.version = v].text = items[s].text
    BY <2>1, <2>3 DEF Item
  <2>5. QED BY <2>2, <2>3, <2>4
<1>6. \A s \in DOMAIN items : new[s] \in Item /\ new[s].text = items[s].text
  BY <1>1, <1>4, <1>5
<1>7. new \in Contents
  BY <1>1, <1>3, <1>6, ContentsOf
<1>8. Follows(old, new)
  BY <1>2, <1>3, <1>5 DEF Follows
<1>9. QED BY <1>3, <1>6, <1>7, <1>8

-----------------------------------------------------------------------------
(* The steps.                                                              *)

LEMMA ReadDraftStep ==
  ASSUME ContentInv, NEW a \in Admins, ReadDraft(a)
  PROVE  ContentInv'
<1>1. Revision \in 0 .. MaxRevision
  BY DEF ContentInv, Shape, Revision
<1>2. Shape'
  BY <1>1 DEF ReadDraft, ContentInv, Shape
<1>3. \A b \in Admins : Publishing(b)'
  BY DEF ReadDraft, ContentInv, Shape, Publishing, LastItems, Revision
<1>4. QED BY <1>2, <1>3 DEF ReadDraft, ContentInv, HaveLast, InOrder, PublishedAsRead

\* No publication is under way while nobody has the lock.
LEMMA SaveDraftStep ==
  ASSUME ContentInv, NEW a \in Admins, NEW items \in TypedItems, SaveDraft(a, items)
  PROVE  ContentInv'
<1>1. items \in Contents
  <2>1. PICK ids \in (SUBSET Skills) \ {{}} : items \in [ids -> [text : Texts, version : TypedVersions]]
    BY DEF TypedItems
  <2>2. items \in [ids -> Item]
    BY <2>1 DEF Item
  <2>3. QED BY <2>2 DEF Contents
<1>2. /\ drafts' \in Seq(Contents) /\ Len(drafts') = Len(drafts) + 1
      /\ Len(drafts') <= MaxRevision /\ DOMAIN drafts \subseteq DOMAIN drafts'
      /\ \A r \in DOMAIN drafts : drafts'[r] = drafts[r]
  BY <1>1 DEF SaveDraft, ContentInv, Shape, Revision
<1>3. UNCHANGED <<releases, lock, view, pc, job>> /\ \A b \in Admins : pc[b] = "idle"
  BY DEF SaveDraft, ContentInv, Shape
<1>4. Shape'
  BY <1>2, <1>3 DEF ContentInv, Shape
<1>5. \A b \in Admins : Publishing(b)'
  BY <1>3 DEF Publishing
<1>6. PublishedAsRead'
  BY <1>2, <1>3 DEF ContentInv, Shape, PublishedAsRead
<1>7. QED BY <1>3, <1>4, <1>5, <1>6 DEF ContentInv, HaveLast, InOrder

LEMMA ClaimDraftStep ==
  ASSUME ContentInv, NEW a \in Admins, NEW version \in 1 .. MaxVersion, NEW core \in Cores,
         ClaimDraft(a, version, core)
  PROVE  ContentInv'
<1>1. /\ pc'[a] = "claimed" /\ job'[a] = [version |-> version, core |-> core]
      /\ \A b \in Admins \ {a} : pc'[b] = pc[b] /\ job'[b] = job[b]
      /\ UNCHANGED <<drafts, releases, view>>
      /\ view[a] = Revision /\ view[a] \in 1 .. MaxRevision - 1
      /\ lock = NoAdmin /\ lock' = a
  BY DEF ClaimDraft, ContentInv, Shape
<1>2. Shape'
  BY <1>1 DEF ClaimDraft, ContentInv, Shape
<1>3. \A b \in Admins : Publishing(b)'
  BY <1>1 DEF ContentInv, Publishing, LastItems, Revision
<1>4. QED BY <1>1, <1>2, <1>3 DEF ContentInv, HaveLast, InOrder, PublishedAsRead

LEMMA ComposeStep ==
  ASSUME ContentInv, NEW a \in Admins, Compose(a)
  PROVE  ContentInv'
<1>1. /\ job[a] \in [version : 1 .. MaxVersion, core : Cores]
      /\ Revision \in DOMAIN drafts /\ drafts[Revision] \in Contents
  BY DEF Compose, ContentInv, Publishing, Shape, Revision
<1>2. PICK ids \in SUBSET Skills : LastItems \in [ids -> Item]
  BY LastContents
<1> DEFINE new == Bumped(drafts[Revision], LastItems)
<1>3. new \in Contents
  BY <1>1, <1>2, BumpedItems
<1>4. /\ pc'[a] = "composed"
      /\ job'[a] = [version |-> job[a].version, core |-> job[a].core, items |-> new]
      /\ \A b \in Admins \ {a} : pc'[b] = pc[b] /\ job'[b] = job[b]
      /\ UNCHANGED <<drafts, releases, lock, view>>
  BY PreviousIsLast DEF Compose, ContentInv, Shape
<1>5. job'[a] \in [version : 1 .. MaxVersion, core : Cores, items : Contents]
  BY <1>1, <1>3, <1>4
<1>6. Shape'
  BY <1>4, <1>5 DEF Compose, ContentInv, Shape
<1>7. \A i \in DOMAIN releases : releases[i].version < job[a].version
  BY <1>1, PreviousIsLast DEF Compose
<1>8. \A b \in Admins : Publishing(b)'
  <2>1. Publishing(a)'
    BY <1>4, <1>5, <1>7 DEF Compose, ContentInv, Publishing, LastItems, Revision
  <2>2. ASSUME NEW b \in Admins \ {a} PROVE Publishing(b)'
    BY <1>4 DEF ContentInv, Publishing, LastItems, Revision
  <2>3. QED BY <2>1, <2>2
<1>9. QED BY <1>4, <1>6, <1>8 DEF ContentInv, HaveLast, InOrder, PublishedAsRead

LEMMA RefuseStep ==
  ASSUME ContentInv, NEW a \in Admins, Refuse(a)
  PROVE  ContentInv'
<1>1. /\ pc'[a] = "idle" /\ job'[a] = NoJob
      /\ \A b \in Admins \ {a} : pc'[b] = pc[b] /\ job'[b] = job[b] /\ (lock' = b <=> lock = b)
      /\ UNCHANGED <<drafts, releases, view>> /\ lock' # a
  BY DEF Refuse, End, ContentInv, Shape
<1>2. Shape'
  BY <1>1 DEF Refuse, End, ContentInv, Shape
<1>3. \A b \in Admins : Publishing(b)'
  BY <1>1 DEF ContentInv, Publishing, LastItems, Revision
<1>4. QED BY <1>1, <1>2, <1>3 DEF ContentInv, HaveLast, InOrder, PublishedAsRead

\* The new publication comes last, with the draft that was read.
LEMMA InsertStep ==
  ASSUME ContentInv, NEW a \in Admins, Insert(a)
  PROVE  ContentInv'
<1> DEFINE n == Len(releases)
           new == [version |-> job[a].version, core |-> job[a].core, items |-> job[a].items,
                   enabled |-> TRUE, source |-> view[a]]
<1>1. /\ job[a] \in [version : 1 .. MaxVersion, core : Cores, items : Contents]
      /\ view[a] = Revision /\ view[a] \in 1 .. MaxRevision - 1
      /\ \A i \in DOMAIN releases : releases[i].version < job[a].version
      /\ job[a].items = Bumped(drafts[Revision], LastItems)
      /\ lock = a
  BY DEF Insert, ContentInv, Publishing, Shape
<1>2. /\ drafts' \in Seq(Contents) /\ Len(drafts') = Len(drafts) + 1
      /\ Len(drafts') <= MaxRevision /\ DOMAIN drafts \subseteq DOMAIN drafts'
      /\ \A r \in DOMAIN drafts : drafts'[r] = drafts[r]
      /\ Revision \in DOMAIN drafts /\ drafts[Revision] \in Contents
  BY <1>1 DEF Insert, ContentInv, Shape, Revision
<1>3. new \in Release
  BY <1>1 DEF Release
<1>4. /\ releases' \in Seq(Release) /\ n \in Nat
      /\ DOMAIN releases = 1 .. n /\ DOMAIN releases' = 1 .. n + 1
      /\ releases'[n + 1] = new
      /\ \A i \in 1 .. n : releases'[i] = releases[i]
  BY <1>3 DEF Insert, ContentInv, Shape
<1>5. /\ pc'[a] = "idle" /\ job'[a] = NoJob
      /\ \A b \in Admins \ {a} : pc'[b] = "idle"
      /\ lock' = NoAdmin /\ view' = view
      /\ pc' \in [Admins -> {"idle", "claimed", "composed"}]
  BY <1>1 DEF Insert, End, ContentInv, Shape
<1>6. Shape'
  <2>1. \A i \in DOMAIN releases' : releases'[i].source \in DOMAIN drafts'
    <3>1. \A i \in 1 .. n : releases[i].source \in DOMAIN drafts
      BY <1>4 DEF ContentInv, Shape
    <3>2. \A i \in 1 .. n : releases'[i].source \in DOMAIN drafts'
      BY <1>2, <1>4, <3>1
    <3>3. releases'[n + 1].source = Revision
      BY <1>1, <1>4
    <3>4. QED BY <1>2, <1>4, <3>2, <3>3
  <2>2. job' \in [Admins -> {NoJob} \cup [version : 1 .. MaxVersion, core : Cores]
                               \cup [version : 1 .. MaxVersion, core : Cores, items : Contents]]
    BY DEF Insert, End, ContentInv, Shape
  <2>3. QED BY <1>2, <1>4, <1>5, <2>1, <2>2 DEF ContentInv, Shape
<1>7. InOrder'
  <2>1. \A i \in 1 .. n : releases'[i].version < releases'[n + 1].version
    BY <1>1, <1>4
  <2>2. \A i, j \in 1 .. n : i < j => releases'[i].version < releases'[j].version
    BY <1>4 DEF ContentInv, InOrder
  <2>3. ASSUME NEW i \in DOMAIN releases', NEW j \in DOMAIN releases', i < j
        PROVE  releases'[i].version < releases'[j].version
    <3>1. i \in 1 .. n /\ (j \in 1 .. n \/ j = n + 1)
      BY <1>4, <2>3
    <3>2. QED BY <2>1, <2>2, <2>3, <3>1
  <2>4. QED BY <2>3 DEF InOrder
<1>8. \A b \in Admins : Publishing(b)'
  BY <1>5 DEF Publishing
<1>9. PICK ids \in SUBSET Skills : LastItems \in [ids -> Item]
  BY LastContents
<1>10. /\ DOMAIN job[a].items = DOMAIN drafts[Revision]
       /\ \A s \in DOMAIN job[a].items : job[a].items[s].text = drafts[Revision][s].text
       /\ Follows(LastItems, job[a].items)
  BY <1>1, <1>2, <1>9, BumpedItems
<1>11. PublishedAsRead'
  <2>1. \A i \in 1 .. n : releases[i].source \in DOMAIN drafts
    BY <1>4 DEF ContentInv, Shape
  <2>2. ASSUME NEW i \in 1 .. n
        PROVE  /\ DOMAIN releases'[i].items = DOMAIN drafts'[releases'[i].source]
               /\ \A s \in DOMAIN releases'[i].items :
                    releases'[i].items[s].text = drafts'[releases'[i].source][s].text
    BY <1>2, <1>4, <2>1 DEF ContentInv, PublishedAsRead
  <2>3. /\ DOMAIN releases'[n + 1].items = DOMAIN drafts'[releases'[n + 1].source]
        /\ \A s \in DOMAIN releases'[n + 1].items :
             releases'[n + 1].items[s].text = drafts'[releases'[n + 1].source][s].text
    BY <1>1, <1>2, <1>4, <1>10
  <2>4. QED BY <1>4, <2>2, <2>3 DEF PublishedAsRead
<1>12. (\A i \in DOMAIN releases \ {1} : Follows(releases[i - 1].items, releases[i].items))'
  <2>1. ASSUME NEW i \in 2 .. n PROVE Follows(releases'[i - 1].items, releases'[i].items)
    <3>1. i \in DOMAIN releases \ {1} /\ i - 1 \in 1 .. n /\ i \in 1 .. n
      BY <1>4
    <3>2. QED BY <1>4, <3>1 DEF ContentInv
  <2>2. ASSUME n # 0 PROVE Follows(releases'[n].items, releases'[n + 1].items)
    <3>1. releases # << >>
      BY <2>2
    <3>2. LastItems = releases'[n].items
      BY <1>4, <2>2, <3>1 DEF LastItems
    <3>3. QED BY <1>4, <1>10, <3>2
  <2>3. ASSUME NEW i \in DOMAIN releases' \ {1} PROVE Follows(releases'[i - 1].items, releases'[i].items)
    BY <1>4, <2>1, <2>2
  <2>4. QED BY <2>3
<1>13. HaveLast'
  <2> SUFFICES ASSUME NEW I \in SUBSET (1 .. n + 1), I # {}
               PROVE  \E l \in I : \A i \in I : i <= l
    BY <1>4 DEF HaveLast
  <2>1. CASE n + 1 \in I
    BY <1>4, <2>1
  <2>2. CASE n + 1 \notin I
    <3>1. I \in SUBSET (1 .. n)
      BY <1>4, <2>2
    <3>2. QED BY <1>4, <3>1 DEF ContentInv, HaveLast
  <2>3. QED BY <2>1, <2>2
<1>14. QED BY <1>6, <1>7, <1>8, <1>11, <1>12, <1>13 DEF ContentInv

\* A withdrawn publication keeps its version, its items and its draft.
LEMMA WithdrawStep ==
  ASSUME ContentInv, NEW w \in DOMAIN releases, Withdraw(w)
  PROVE  ContentInv'
<1>1. /\ DOMAIN releases' = DOMAIN releases /\ Len(releases') = Len(releases)
      /\ releases' \in Seq(Release)
      /\ \A i \in DOMAIN releases :
           /\ releases'[i].version = releases[i].version /\ releases'[i].items = releases[i].items
           /\ releases'[i].source = releases[i].source
  <2>1. releases[w] \in Release /\ releases' = [releases EXCEPT ![w] = [@ EXCEPT !.enabled = FALSE]]
    BY DEF Withdraw, ContentInv, Shape
  <2>2. LET row == [releases[w] EXCEPT !.enabled = FALSE]
        IN  /\ row \in Release /\ row.version = releases[w].version
            /\ row.items = releases[w].items /\ row.source = releases[w].source
    BY <2>1 DEF Release
  <2>3. releases' \in Seq(Release) /\ Len(releases') = Len(releases)
    BY <2>1, <2>2 DEF ContentInv, Shape
  <2>4. \A i \in DOMAIN releases :
          releases'[i] = IF i = w THEN [releases[w] EXCEPT !.enabled = FALSE] ELSE releases[i]
    BY <2>1
  <2>5. QED BY <2>1, <2>2, <2>3, <2>4
<1>2. UNCHANGED <<drafts, lock, view, pc, job>>
  BY DEF Withdraw
<1>3. Shape'
  BY <1>1, <1>2 DEF ContentInv, Shape
<1>4. LastItems' = LastItems
  <2>1. CASE releases = << >>
    BY <1>1, <2>1
  <2>2. CASE releases # << >>
    <3>1. Len(releases) \in DOMAIN releases /\ releases' # << >>
      BY <1>1, <2>2 DEF ContentInv, Shape
    <3>2. QED BY <1>1, <2>2, <3>1 DEF LastItems
  <2>3. QED BY <2>1, <2>2
<1>5. \A b \in Admins : Publishing(b)'
  BY <1>1, <1>2, <1>4 DEF ContentInv, Publishing, Revision
<1>6. HaveLast' /\ InOrder' /\ PublishedAsRead'
  BY <1>1, <1>2 DEF ContentInv, HaveLast, InOrder, PublishedAsRead
<1>7. (\A i \in DOMAIN releases \ {1} : Follows(releases[i - 1].items, releases[i].items))'
  <2>1. \A i \in DOMAIN releases \ {1} : i - 1 \in DOMAIN releases
    BY DEF ContentInv, Shape
  <2>2. QED BY <1>1, <2>1 DEF ContentInv
<1>8. QED BY <1>3, <1>5, <1>6, <1>7 DEF ContentInv

-----------------------------------------------------------------------------
(* The invariant is inductive.                                             *)

LEMMA StepInv == ContentInv /\ [Next]_vars => ContentInv'
<1> SUFFICES ASSUME ContentInv, [Next]_vars PROVE ContentInv'
  OBVIOUS
<1>1. CASE UNCHANGED vars
  BY <1>1 DEF vars, ContentInv, Shape, HaveLast, InOrder, Publishing, LastItems, Revision, PublishedAsRead
<1>2. ASSUME NEW a \in Admins, AdminNext(a) PROVE ContentInv'
  BY <1>2, ReadDraftStep, SaveDraftStep, ClaimDraftStep, ComposeStep, InsertStep, RefuseStep
     DEF AdminNext
<1>3. QED BY <1>1, <1>2, WithdrawStep DEF Next

LEMMA Invariance == Spec => []ContentInv
<1>1. QED BY InitInv, StepInv, PTL DEF Spec

-----------------------------------------------------------------------------
(* Theorems.                                                               *)

\* Rows and requests keep their shape, and the lock is held during a
\* publication only.
THEOREM ContentTypeCorrect == Spec => []TypeOK
<1>1. ContentInv => TypeOK
  <2> SUFFICES ASSUME ContentInv PROVE TypeOK
    OBVIOUS
  <2>1. \A r \in DOMAIN drafts : drafts[r] \in Contents
    BY DEF ContentInv, Shape
  <2>2. \A i \in DOMAIN releases : releases[i] \in Release
    BY DEF ContentInv, Shape
  <2>3. QED BY <2>1, <2>2, ContentsOf DEF ContentInv, Shape, Release, TypeOK
<1>2. QED BY <1>1, Invariance, PTL

\* publish() publishes the draft its administrator had read: the first
\* statement holds the draft's row against save_draft until the commit.
THEOREM PublicationsAreRead == Spec => []PublishedAsRead
<1>1. ContentInv => PublishedAsRead
  BY DEF ContentInv
<1>2. QED BY <1>1, Invariance, PTL

\* The versions of publications grow, and so does that of a skill from one
\* publication to the next while both contain it.
THEOREM VersionsAreMonotone == Spec => []VersionsIncrease
<1>1. ContentInv => VersionsIncrease
  BY DEF ContentInv, InOrder, Follows, VersionsIncrease
<1>2. QED BY <1>1, Invariance, PTL

\* What a client is offered is the last of the publications it can run.
LEMMA OfferedIsLast ==
  ASSUME ContentInv, NEW core, Runnable(core) # {}
  PROVE  \E l \in Runnable(core) : /\ Offered(core) = releases[l].version
                                   /\ \A i \in Runnable(core) : releases[i].version <= releases[l].version
<1>1. Runnable(core) \in SUBSET DOMAIN releases
  BY DEF Runnable
<1>2. PICK l \in Runnable(core) : \A i \in Runnable(core) : i <= l
  BY <1>1 DEF ContentInv, HaveLast
<1>3. \A i \in DOMAIN releases : i \in Nat /\ releases[i].version \in Nat
  BY Rows
<1>4. ASSUME NEW i \in Runnable(core) PROVE releases[i].version <= releases[l].version
  <2>1. i \in DOMAIN releases /\ l \in DOMAIN releases /\ (i = l \/ i < l)
    BY <1>1, <1>2, <1>3
  <2>2. QED BY <1>3, <2>1 DEF ContentInv, InOrder
<1> DEFINE Versions == {releases[i].version : i \in Runnable(core)}
           Top(n) == \A i \in Runnable(core) : releases[i].version <= n
<1>5. Offered(core) = CHOOSE n \in Versions : Top(n)
  BY DEF Offered
<1>6. releases[l].version \in Versions /\ Top(releases[l].version)
  BY <1>4
<1>7. Offered(core) \in Versions /\ Top(Offered(core))
  BY <1>5, <1>6
<1>8. Offered(core) = releases[l].version
  <2>1. Offered(core) \in Nat /\ releases[l].version \in Nat
    BY <1>1, <1>3, <1>7
  <2>2. releases[l].version <= Offered(core)
    BY <1>7
  <2>3. Offered(core) <= releases[l].version
    BY <1>4, <1>7
  <2>4. QED BY <2>1, <2>2, <2>3
<1>9. QED BY <1>4, <1>8

\* The same in the next state.
LEMMA OfferedIsLastNext ==
  ASSUME ContentInv', NEW core \in Cores, Runnable(core)' # {}
  PROVE  \E l \in Runnable(core)' :
           /\ Offered(core)' = releases'[l].version
           /\ \A i \in Runnable(core)' : releases'[i].version <= releases'[l].version
<1>1. (ContentInv /\ core \in Cores /\ Runnable(core) # {} =>
         \E l \in Runnable(core) : /\ Offered(core) = releases[l].version
                                   /\ \A i \in Runnable(core) : releases[i].version <= releases[l].version)'
  BY OfferedIsLast, PTL
<1>2. QED BY <1>1

LEMMA RowsNext == ContentInv' => \A i \in DOMAIN releases' : releases'[i].version \in Nat
<1>1. ContentInv => \A i \in DOMAIN releases : releases[i].version \in Nat
  BY Rows
<1>2. (ContentInv => \A i \in DOMAIN releases : releases[i].version \in Nat)'
  BY <1>1, PTL
<1>3. QED BY <1>2

\* available_content() goes back to an older publication only when one has been
\* withdrawn; saving, publishing and refusals never take one away.
THEOREM OffersStand == Spec => OffersOnlyFallByWithdrawal
<1> DEFINE Withdrawn == \E i \in DOMAIN releases : releases[i].enabled /\ ~releases'[i].enabled
           Stands(core) == Offered(core)' < Offered(core) => Withdrawn
<1>1. ContentInv /\ ContentInv' /\ [Next]_vars => [\A core \in Cores : Stands(core)]_vars
  <2> SUFFICES ASSUME ContentInv, ContentInv', Next, NEW core \in Cores,
                      Offered(core)' < Offered(core)
               PROVE  Withdrawn
    OBVIOUS
  <2>1. CASE releases' = releases
    <3>1. Offered(core)' = Offered(core)
      BY <2>1 DEF Offered, Runnable
    <3>2. Offered(core) \in Nat
      <4>1. CASE Runnable(core) = {}
        BY <4>1 DEF Offered
      <4>2. CASE Runnable(core) # {}
        BY <4>2, OfferedIsLast, Rows DEF Runnable
      <4>3. QED BY <4>1, <4>2
    <3>3. QED BY <3>1, <3>2
  <2>2. ASSUME NEW a \in Admins, Insert(a) PROVE FALSE
    <3> DEFINE n == Len(releases)
    <3>1. /\ DOMAIN releases = 1 .. n /\ DOMAIN releases' = 1 .. n + 1 /\ n \in Nat
          /\ \A i \in 1 .. n : releases'[i] = releases[i]
      BY <2>2 DEF Insert, ContentInv, Shape
    <3>2. Runnable(core) \subseteq Runnable(core)'
      BY <3>1 DEF Runnable
    <3>3. CASE Runnable(core) = {}
      <4>1. Offered(core) = 0
        BY <3>3 DEF Offered
      <4>2. Offered(core)' \in Nat
        <5>1. CASE Runnable(core)' = {}
          BY <5>1 DEF Offered
        <5>2. CASE Runnable(core)' # {}
          <6>1. PICK l \in Runnable(core)' : Offered(core)' = releases'[l].version
            BY <5>2, OfferedIsLastNext
          <6>2. QED BY <6>1, RowsNext DEF Runnable
        <5>3. QED BY <5>1, <5>2
      <4>3. QED BY <4>1, <4>2
    <3>4. CASE Runnable(core) # {}
      <4>1. PICK l \in Runnable(core) : Offered(core) = releases[l].version
        BY <3>4, OfferedIsLast
      <4>2. l \in 1 .. n /\ l \in Runnable(core)' /\ releases'[l].version = releases[l].version
        BY <3>1, <3>2, <4>1 DEF Runnable
      <4>3. PICK m \in Runnable(core)' : /\ Offered(core)' = releases'[m].version
                                        /\ \A i \in Runnable(core)' :
                                             releases'[i].version <= releases'[m].version
        BY <4>2, OfferedIsLastNext
      <4>4. releases[l].version \in Nat /\ releases'[m].version \in Nat
        BY <3>1, <4>2, <4>3, Rows, RowsNext DEF Runnable
      <4>5. QED BY <4>1, <4>2, <4>3, <4>4
    <3>5. QED BY <3>3, <3>4
  <2>3. ASSUME NEW w \in DOMAIN releases, Withdraw(w) PROVE Withdrawn
    <3>1. releases[w] \in Release /\ releases[w].enabled
      BY <2>3, Rows DEF Withdraw
    <3>2. releases'[w] = [releases[w] EXCEPT !.enabled = FALSE]
      BY <2>3 DEF Withdraw, ContentInv, Shape
    <3>3. ~releases'[w].enabled
      BY <3>1, <3>2 DEF Release
    <3>4. QED BY <3>1, <3>3
  <2>4. ASSUME NEW a \in Admins, AdminNext(a), ~Insert(a) PROVE releases' = releases
    BY <2>4 DEF AdminNext, ReadDraft, SaveDraft, ClaimDraft, Compose, Refuse
  <2>5. QED BY <2>1, <2>2, <2>3, <2>4 DEF Next
<1>2. QED BY <1>1, Invariance, PTL DEF Spec, OffersOnlyFallByWithdrawal
=============================================================================
