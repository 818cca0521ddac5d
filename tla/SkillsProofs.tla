----------------------------- MODULE SkillsProofs -----------------------------
(***************************************************************************)
(* Theorems about Skills: revisions and the mutations that made them, and  *)
(* the limit, for any number of devices, skills and mutations.             *)
(***************************************************************************)
EXTENDS Skills, FiniteSetTheorems, TLAPS

USE SkillsAssumption

-----------------------------------------------------------------------------
(* The inductive invariant.                                                *)

\* A request under way and what it asks.
Asked(w) ==
  /\ pc[w] = "idle" => job[w] = NoJob
  /\ pc[w] # "idle" => job[w] \in Jobs /\ job[w].request.base < MaxRevision

\* Every revision a skill has had has one maker, and those to come have none.
Explained(i) ==
  \A r \in 1 .. MaxRevision :
    IF r <= skill[i].revision THEN \E m \in Mutations : Makers(i, r) = {m}
                              ELSE Makers(i, r) = {}

\* The maker of the current revision says whether the skill is deleted.
Current(m) ==
  LET i == recorded[m].request.id
  IN recorded[m].used /\ recorded[m].revision = skill[i].revision =>
       recorded[m].request.deletes = skill[i].deleted

\* Requests that are about to insert a row.
Creators == {w \in Workers : pc[w] = "writing" /\ job[w].request.base = 0}

\* Rows and requests about to insert one.
Counted ==
  /\ IsFiniteSet(Rows)
  /\ Cardinality(Rows) + Cardinality(Creators) + 1 <= Limit + Cardinality(Workers)

SkillsInv ==
  /\ TypeOK
  /\ \A w \in Workers : Asked(w)
  /\ \A i \in Ids : Explained(i)
  /\ \A m \in Mutations : Current(m)
  /\ Counted

\* A subset of the workers has no more elements than they.
LEMMA SomeWorkers ==
  ASSUME NEW W \in SUBSET Workers
  PROVE  /\ IsFiniteSet(W) /\ Cardinality(W) \in Nat
         /\ Cardinality(W) <= Cardinality(Workers)
BY FS_Subset, FS_CardinalityType

LEMMA Creating == Creators \in SUBSET Workers
BY DEF Creators

LEMMA InitInv == Init => SkillsInv
<1> SUFFICES ASSUME Init PROVE SkillsInv
  OBVIOUS
<1>1. TypeOK
  BY DEF Init, TypeOK, NoRow, Skill
<1>2. \A w \in Workers : Asked(w)
  BY DEF Init, Asked
<1>3. \A i \in Ids : Explained(i)
  BY DEF Init, Explained, Makers, NoRow, Unused
<1>4. \A m \in Mutations : Current(m)
  BY DEF Init, Current, Unused
<1>5. Counted
  <2>1. Rows = {} /\ Creators = {}
    BY DEF Init, Rows, Creators, NoRow
  <2>2. Cardinality(Workers) \in Nat /\ Cardinality(Workers) # 0
    BY FS_CardinalityType, FS_EmptySet
  <2>3. QED BY <2>1, <2>2, FS_EmptySet DEF Counted
<1>6. QED BY <1>1, <1>2, <1>3, <1>4, <1>5 DEF SkillsInv

-----------------------------------------------------------------------------
(* The steps.                                                              *)

\* Before the write the tables stay as they are.
LEMMA Unwritten ==
  ASSUME SkillsInv, TypeOK', UNCHANGED <<skill, recorded>>,
         \A w \in Workers : Asked(w)',
         Cardinality(Rows) + Cardinality(Creators') + 1 <= Limit + Cardinality(Workers)
  PROVE  SkillsInv'
<1>1. (\A i \in Ids : Explained(i))'
  BY DEF SkillsInv, Explained, Makers
<1>2. (\A m \in Mutations : Current(m))'
  BY DEF SkillsInv, Current
<1>3. Rows' = Rows
  BY DEF Rows
<1>4. Counted'
  BY <1>3 DEF SkillsInv, Counted
<1>5. QED BY <1>1, <1>2, <1>4 DEF SkillsInv

\* Requests that are no longer about to insert do not count.
LEMMA FewerCreators ==
  ASSUME SkillsInv, Creators' \in SUBSET Creators
  PROVE  Cardinality(Rows) + Cardinality(Creators') + 1 <= Limit + Cardinality(Workers)
<1>1. IsFiniteSet(Creators) /\ Cardinality(Creators) \in Nat
  BY Creating, SomeWorkers
<1>2. Cardinality(Creators') <= Cardinality(Creators) /\ Cardinality(Creators') \in Nat
  BY <1>1, FS_Subset, FS_CardinalityType
<1>3. Cardinality(Rows) \in Nat /\ Cardinality(Workers) \in Nat
  BY FS_CardinalityType DEF SkillsInv, Counted
<1>4. QED BY <1>1, <1>2, <1>3 DEF SkillsInv, Counted

LEMMA LookStep ==
  ASSUME SkillsInv, NEW w \in Workers, NEW m \in Mutations, NEW request \in Requests,
         Look(w, m, request)
  PROVE  SkillsInv'
<1>1. [mutation |-> m, request |-> request] \in Jobs
  BY DEF Jobs
<1>2. /\ pc'[w] = "reading" /\ job'[w] = [mutation |-> m, request |-> request]
      /\ request.base < MaxRevision
      /\ \A u \in Workers \ {w} : pc'[u] = pc[u] /\ job'[u] = job[u]
  BY DEF Look, SkillsInv, TypeOK
<1>3. TypeOK'
  BY <1>1 DEF Look, SkillsInv, TypeOK
<1>4. \A u \in Workers : Asked(u)'
  BY <1>1, <1>2 DEF SkillsInv, Asked
<1>5. Creators' \in SUBSET Creators
  BY <1>2 DEF Creators
<1>6. QED BY <1>3, <1>4, <1>5, FewerCreators, Unwritten DEF Look

LEMMA CheckStep ==
  ASSUME SkillsInv, NEW w \in Workers, Check(w)
  PROVE  SkillsInv'
<1>1. job' = job /\ pc'[w] = "writing" /\ \A u \in Workers \ {w} : pc'[u] = pc[u]
  BY DEF Check, SkillsInv, TypeOK
<1>2. TypeOK'
  BY DEF Check, SkillsInv, TypeOK
<1>3. \A u \in Workers : Asked(u)'
  BY <1>1 DEF Check, SkillsInv, Asked
<1>4. CASE job[w].request.base = 0
  <2>1. Cardinality(Rows) < Limit
    BY <1>4 DEF Check
  <2>2. Creators' \in SUBSET Workers
    BY DEF Creators
  <2>3. Cardinality(Creators') \in Nat /\ Cardinality(Creators') <= Cardinality(Workers)
    BY <2>2, SomeWorkers
  <2>4. Cardinality(Rows) \in Nat /\ Cardinality(Workers) \in Nat
    BY FS_CardinalityType DEF SkillsInv, Counted
  <2>5. QED BY <1>2, <1>3, <2>1, <2>3, <2>4, Unwritten DEF Check
<1>5. CASE job[w].request.base # 0
  <2>1. Creators' \in SUBSET Creators
    BY <1>1, <1>5 DEF Creators
  <2>2. QED BY <1>2, <1>3, <2>1, FewerCreators, Unwritten DEF Check
<1>6. QED BY <1>4, <1>5

LEMMA RefuseStep ==
  ASSUME SkillsInv, NEW w \in Workers, Refuse(w)
  PROVE  SkillsInv'
<1>1. /\ pc'[w] = "idle" /\ job'[w] = NoJob
      /\ \A u \in Workers \ {w} : pc'[u] = pc[u] /\ job'[u] = job[u]
  BY DEF Refuse, End, SkillsInv, TypeOK
<1>2. TypeOK'
  BY DEF Refuse, End, SkillsInv, TypeOK
<1>3. \A u \in Workers : Asked(u)'
  BY <1>1 DEF SkillsInv, Asked
<1>4. Creators' \in SUBSET Creators
  BY <1>1 DEF Creators
<1>5. QED BY <1>2, <1>3, <1>4, FewerCreators, Unwritten DEF Refuse

\* The mutation is the maker of the revision it writes, and of no other.
LEMMA WriteStep ==
  ASSUME SkillsInv, NEW w \in Workers, Write(w)
  PROVE  SkillsInv'
<1>1. job[w] \in Jobs /\ pc[w] = "writing" /\ job[w].request.base < MaxRevision
  BY DEF Write, SkillsInv, Asked
<1>2. PICK i \in Ids, m \in Mutations, b \in 0 .. MaxRevision, d \in BOOLEAN :
        /\ i = job[w].request.id /\ m = job[w].mutation
        /\ b = job[w].request.base /\ d = job[w].request.deletes
  BY <1>1 DEF Jobs, Requests
<1>3. /\ b < MaxRevision /\ b + 1 \in 1 .. MaxRevision
      /\ ~recorded[m].used /\ skill[i].revision = b
  BY <1>1, <1>2 DEF Write
<1>4. /\ skill'[i] = [revision |-> b + 1, deleted |-> d]
      /\ \A j \in Ids \ {i} : skill'[j] = skill[j]
      /\ skill' \in [Ids -> Skill]
  BY <1>2, <1>3 DEF Write, Written, SkillsInv, TypeOK, Skill
<1>5. /\ recorded'[m] = Answered(job[w].request)
      /\ \A n \in Mutations \ {m} : recorded'[n] = recorded[n]
      /\ recorded' \in [Mutations -> {Unused} \cup {Answered(r) : r \in {q \in Requests : q.base < MaxRevision}}]
  BY <1>1, <1>2 DEF Write, Recorded, SkillsInv, TypeOK, Jobs
<1>6. /\ recorded'[m].used /\ recorded'[m].request = job[w].request
      /\ recorded'[m].revision = b + 1
  BY <1>2, <1>5 DEF Answered
<1>7. /\ pc'[w] = "idle" /\ job'[w] = NoJob
      /\ \A u \in Workers \ {w} : pc'[u] = pc[u] /\ job'[u] = job[u]
      /\ pc' \in [Workers -> {"idle", "reading", "writing"}]
      /\ job' \in [Workers -> Jobs \cup {NoJob}]
  BY DEF Write, End, SkillsInv, TypeOK
<1>8. TypeOK'
  BY <1>4, <1>5, <1>7 DEF TypeOK
<1>9. \A u \in Workers : Asked(u)'
  BY <1>7 DEF SkillsInv, Asked
<1>10. \A j \in Ids, r \in 1 .. MaxRevision :
         Makers(j, r)' = IF j = i /\ r = b + 1 THEN Makers(j, r) \cup {m} ELSE Makers(j, r)
  <2>1. ASSUME NEW j \in Ids, NEW r \in 1 .. MaxRevision, NEW n \in Mutations
        PROVE  n \in Makers(j, r)' <=> n \in Makers(j, r) \/ (n = m /\ j = i /\ r = b + 1)
    <3>1. CASE n = m
      BY <1>2, <1>3, <1>6, <3>1 DEF Makers
    <3>2. CASE n # m
      BY <1>5, <3>2 DEF Makers
    <3>3. QED BY <3>1, <3>2
  <2>2. \A j \in Ids, r \in 1 .. MaxRevision : Makers(j, r)' \subseteq Mutations /\ Makers(j, r) \subseteq Mutations
    BY DEF Makers
  <2>3. QED BY <2>1, <2>2
<1>11. (\A j \in Ids : Explained(j))'
  <2>1. ASSUME NEW j \in Ids, NEW r \in 1 .. MaxRevision
        PROVE  IF r <= skill'[j].revision THEN \E n \in Mutations : Makers(j, r)' = {n}
                                          ELSE Makers(j, r)' = {}
    <3>1. IF r <= skill[j].revision THEN \E n \in Mutations : Makers(j, r) = {n}
                                    ELSE Makers(j, r) = {}
      BY DEF SkillsInv, Explained
    <3>2. CASE j = i /\ r = b + 1
      <4>1. Makers(j, r) = {}
        BY <1>3, <3>1, <3>2
      <4>2. Makers(j, r)' = {m} /\ r <= skill'[j].revision
        BY <1>4, <1>10, <3>2, <4>1
      <4>3. QED BY <4>2
    <3>3. CASE j = i /\ r # b + 1
      <4>1. Makers(j, r)' = Makers(j, r)
        BY <1>10, <3>3
      <4>2. r <= skill'[j].revision <=> r <= skill[j].revision
        BY <1>3, <1>4, <3>3
      <4>3. QED BY <3>1, <4>1, <4>2
    <3>4. CASE j # i
      <4>1. Makers(j, r)' = Makers(j, r) /\ skill'[j] = skill[j]
        BY <1>4, <1>10, <3>4
      <4>2. QED BY <3>1, <4>1
    <3>5. QED BY <3>2, <3>3, <3>4
  <2>2. QED BY <2>1 DEF Explained
<1>12. (\A n \in Mutations : Current(n))'
  <2>1. ASSUME NEW n \in Mutations PROVE Current(n)'
    <3>1. CASE n = m
      <4>1. recorded'[n].request.id = i /\ recorded'[n].request.deletes = d
        BY <1>2, <1>6, <3>1
      <4>2. skill'[i].deleted = d
        BY <1>4
      <4>3. QED BY <4>1, <4>2 DEF Current
    <3>2. CASE n # m /\ recorded[n].used
      <4>1. recorded[n].request.id \in Ids /\ recorded[n].revision \in Nat \ {0}
        BY <3>2 DEF SkillsInv, TypeOK, Unused, Answered, Requests
      <4>2. CASE recorded[n].request.id = i
        <5>1. recorded[n].revision # b + 1
          <6> SUFFICES ASSUME recorded[n].revision = b + 1 PROVE FALSE
            OBVIOUS
          <6>1. n \in Makers(i, b + 1)
            BY <3>2, <4>2 DEF Makers
          <6>2. ~(b + 1 <= skill[i].revision)
            BY <1>3
          <6>3. QED BY <1>3, <6>1, <6>2 DEF SkillsInv, Explained
        <5>2. QED BY <1>4, <1>5, <3>2, <4>2, <5>1 DEF Current
      <4>3. CASE recorded[n].request.id # i
        BY <1>4, <1>5, <3>2, <4>1, <4>3 DEF SkillsInv, Current
      <4>4. QED BY <4>2, <4>3
    <3>3. CASE n # m /\ ~recorded[n].used
      BY <1>5, <3>3 DEF Current
    <3>4. QED BY <3>1, <3>2, <3>3
  <2>2. QED BY <2>1
<1>13. Counted'
  <2>1. /\ IsFiniteSet(Rows) /\ Cardinality(Rows) \in Nat /\ Cardinality(Workers) \in Nat
        /\ IsFiniteSet(Creators) /\ Cardinality(Creators) \in Nat
    BY Creating, SomeWorkers, FS_CardinalityType DEF SkillsInv, Counted
  <2>2. Creators' = Creators \ {w}
    BY <1>1, <1>7 DEF Creators
  <2>3. Rows' = Rows \cup {i}
    <3>1. skill'[i].revision > 0
      BY <1>3, <1>4
    <3>2. QED BY <1>4, <3>1 DEF Rows
  <2>4. CASE b = 0
    <3>1. w \in Creators /\ i \notin Rows
      <4>1. w \in Creators
        BY <1>1, <1>2, <2>4 DEF Creators
      <4>2. i \notin Rows
        BY <1>3, <2>4 DEF Rows
      <4>3. QED BY <4>1, <4>2
    <3>2. IsFiniteSet(Rows') /\ Cardinality(Rows') = Cardinality(Rows) + 1
      BY <2>1, <2>3, <3>1, FS_AddElement
    <3>3. Cardinality(Creators') = Cardinality(Creators) - 1
      BY <2>1, <2>2, <3>1, FS_RemoveElement
    <3>4. QED BY <2>1, <3>2, <3>3 DEF SkillsInv, Counted
  <2>5. CASE b # 0
    <3>1. i \in Rows
      BY <1>3, <2>5 DEF Rows
    <3>2. Rows' = Rows
      BY <2>3, <3>1
    <3>3. Creators' \in SUBSET Creators
      BY <2>2
    <3>4. QED BY <2>1, <3>2, <3>3, FewerCreators DEF Counted
  <2>6. QED BY <2>4, <2>5
<1>14. QED BY <1>8, <1>9, <1>11, <1>12, <1>13 DEF SkillsInv

-----------------------------------------------------------------------------
(* The invariant is inductive.                                             *)

LEMMA StepInv == SkillsInv /\ [Next]_vars => SkillsInv'
<1> SUFFICES ASSUME SkillsInv, [Next]_vars PROVE SkillsInv'
  OBVIOUS
<1>1. CASE UNCHANGED vars
  <2>1. TypeOK' /\ \A w \in Workers : Asked(w)'
    BY <1>1 DEF vars, SkillsInv, TypeOK, Asked
  <2>2. Creators' \in SUBSET Creators
    BY <1>1 DEF vars, Creators
  <2>3. QED BY <1>1, <2>1, <2>2, FewerCreators, Unwritten DEF vars
<1>2. QED BY <1>1, LookStep, CheckStep, WriteStep, RefuseStep DEF Next

LEMMA Invariance == Spec => []SkillsInv
<1>1. QED BY InitInv, StepInv, PTL DEF Spec

-----------------------------------------------------------------------------
(* Theorems.                                                               *)

\* Every variable keeps its type.
THEOREM SkillsTypeCorrect == Spec => []TypeOK
<1>1. SkillsInv => TypeOK
  BY DEF SkillsInv
<1>2. QED BY <1>1, Invariance, PTL

\* mutate() gives every revision of a skill one recorded mutation that made it:
\* no device's write is overwritten unseen, none is applied twice.
THEOREM EveryRevisionExplained == Spec => []RevisionsExplained
<1>1. SkillsInv => RevisionsExplained
  <2> SUFFICES ASSUME SkillsInv, NEW i \in Ids, NEW r \in 1 .. MaxRevision
               PROVE  Cardinality(Makers(i, r)) = IF r <= skill[i].revision THEN 1 ELSE 0
    BY DEF RevisionsExplained
  <2>1. IF r <= skill[i].revision THEN \E m \in Mutations : Makers(i, r) = {m}
                                  ELSE Makers(i, r) = {}
    BY DEF SkillsInv, Explained
  <2>2. QED BY <2>1, FS_EmptySet, FS_Singleton
<1>2. QED BY <1>1, Invariance, PTL

\* The text of a deleted skill comes back only through a request made from the
\* revision of its deletion: the mutation that made the next revision.
THEOREM DeletionIsNotice == Spec => []NoSilentRevival
<1>1. SkillsInv => NoSilentRevival
  <2> SUFFICES ASSUME SkillsInv, NEW i \in Ids, ~skill[i].deleted, NEW m \in Mutations,
                      recorded[m].used, recorded[m].request.id = i, recorded[m].request.deletes
               PROVE  \E n \in Mutations : /\ recorded[n].used
                                           /\ recorded[n].request.id = i
                                           /\ recorded[n].request.base = recorded[m].revision
    BY DEF NoSilentRevival
  <2>1. PICK request \in Requests : recorded[m] = Answered(request) /\ request.base < MaxRevision
    BY DEF SkillsInv, TypeOK, Unused
  <2>2. recorded[m].revision = request.base + 1 /\ request.base \in 0 .. MaxRevision
    BY <2>1 DEF Answered, Requests
  <2> DEFINE r == recorded[m].revision
  <2>3. r # skill[i].revision
    BY DEF SkillsInv, Current
  <2>4. skill[i].revision \in 0 .. MaxRevision
    BY DEF SkillsInv, TypeOK, Skill
  <2>5. ASSUME r <= MaxRevision PROVE r <= skill[i].revision
    <3>1. m \in Makers(i, r) /\ r \in 1 .. MaxRevision
      BY <2>2, <2>5 DEF Makers
    <3>2. QED BY <3>1 DEF SkillsInv, Explained
  <2>6. r <= MaxRevision
    BY <2>1, <2>2
  <2>7. r + 1 \in 1 .. MaxRevision /\ r + 1 <= skill[i].revision
    BY <2>2, <2>3, <2>4, <2>5, <2>6
  <2>8. PICK n \in Mutations : Makers(i, r + 1) = {n}
    BY <2>7 DEF SkillsInv, Explained
  <2>9. n \in Makers(i, r + 1)
    BY <2>8
  <2>10. recorded[n].used /\ recorded[n].request.id = i /\ recorded[n].revision = r + 1
    BY <2>9 DEF Makers
  <2>11. PICK other \in Requests : recorded[n] = Answered(other)
    BY <2>10 DEF SkillsInv, TypeOK, Unused
  <2>12. recorded[n].request.base = r
    BY <2>2, <2>10, <2>11 DEF Answered, Requests
  <2>13. QED BY <2>10, <2>12
<1>2. QED BY <1>1, Invariance, PTL

\* First uploads that overlap exceed the documented limit by at most one for
\* each request but one.
THEOREM LimitNearlyKept == Spec => []OvershootBounded
<1>1. SkillsInv => OvershootBounded
  <2> SUFFICES ASSUME SkillsInv PROVE OvershootBounded
    OBVIOUS
  <2>1. Cardinality(Creators) \in Nat /\ Cardinality(Rows) \in Nat /\ Cardinality(Workers) \in Nat
    BY Creating, SomeWorkers, FS_CardinalityType DEF SkillsInv, Counted
  <2>2. QED BY <2>1 DEF SkillsInv, Counted, OvershootBounded
<1>2. QED BY <1>1, Invariance, PTL
=============================================================================
