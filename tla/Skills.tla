------------------------------- MODULE Skills -------------------------------
(***************************************************************************)
(* Cloud copies of one user's skills: src/app/skill_sync.py, mutate().     *)
(*                                                                         *)
(* A mutation names the revision it was made from and carries an id under  *)
(* which the client repeats it until it is answered.  The lookup of the id *)
(* and the reading of the row are statements of their own; the write and   *)
(* the commit are one step, since unique keys and row locks make           *)
(* overlapping writers wait and test again.                                *)
(***************************************************************************)
EXTENDS Naturals, FiniteSets

CONSTANTS
  Workers,      \* concurrent requests
  Ids,          \* user_skills.id
  Mutations,    \* cloud_mutations.id
  Limit,        \* skill ids of a user, deleted ones included (200 in the code)
  MaxRevision   \* bound: revisions of a skill

ASSUME SkillsAssumption ==
  /\ IsFiniteSet(Workers) /\ Workers # {}
  /\ Limit \in Nat
  /\ MaxRevision \in Nat

VARIABLES
  skill,     \* UserSkill rows: revision (0: no row) and deleted
  recorded,  \* CloudMutation rows: request and answer
  pc,        \* where a request is
  job        \* what it asks

vars == <<skill, recorded, pc, job>>

Skill == [revision : 0 .. MaxRevision, deleted : BOOLEAN]
NoRow == [revision |-> 0, deleted |-> FALSE]
Rows == {i \in Ids : skill[i].revision > 0}

\* The request hash stands for skill, base revision and content; the content
\* is a text or, for a deletion, none.
Requests == [id : Ids, base : 0 .. MaxRevision, deletes : BOOLEAN]
Jobs == [mutation : Mutations, request : Requests]
NoJob == [mutation |-> "none"]

Unused == [used |-> FALSE]
Answered(request) == [used |-> TRUE, request |-> request, revision |-> request.base + 1]

Init ==
  /\ skill = [i \in Ids |-> NoRow]
  /\ recorded = [m \in Mutations |-> Unused]
  /\ pc = [w \in Workers |-> "idle"]
  /\ job = [w \in Workers |-> NoJob]

End(w) ==
  /\ pc' = [pc EXCEPT ![w] = "idle"]
  /\ job' = [job EXCEPT ![w] = NoJob]

\* The mutation is not recorded yet.  A recorded one is answered from the
\* record, or refused when it was another request, and changes nothing.
Look(w, m, request) ==
  /\ pc[w] = "idle"
  /\ ~recorded[m].used
  /\ request.base < MaxRevision
  /\ pc' = [pc EXCEPT ![w] = "reading"]
  /\ job' = [job EXCEPT ![w] = [mutation |-> m, request |-> request]]
  /\ UNCHANGED <<skill, recorded>>

\* Mutant: the skills are not counted.
CheckUncounted(w) ==
  /\ pc[w] = "reading"
  /\ LET request == job[w].request
         row == skill[request.id]
     IN /\ row.revision = request.base
        /\ row.revision = 0 => ~request.deletes
  /\ pc' = [pc EXCEPT ![w] = "writing"]
  /\ UNCHANGED <<skill, recorded, job>>

\* The row has the base revision, or there is none and room for one.
Check(w) ==
  /\ pc[w] = "reading"
  /\ LET request == job[w].request
         row == skill[request.id]
     IN /\ row.revision = request.base
        /\ row.revision = 0 => ~request.deletes /\ Cardinality(Rows) < Limit
  /\ pc' = [pc EXCEPT ![w] = "writing"]
  /\ UNCHANGED <<skill, recorded, job>>

\* 404 or 409 at the check or at the write, rolled back; or the worker is lost.
Refuse(w) ==
  /\ pc[w] # "idle"
  /\ End(w)
  /\ UNCHANGED <<skill, recorded>>

Written(w) ==
  [skill EXCEPT ![job[w].request.id] =
     [revision |-> job[w].request.base + 1, deleted |-> job[w].request.deletes]]

Recorded(w) ==
  [recorded EXCEPT ![job[w].mutation] = Answered(job[w].request)]

\* Mutant: the update is by id, not by id and revision.
WriteById(w) ==
  /\ pc[w] = "writing"
  /\ ~recorded[job[w].mutation].used
  /\ skill' = Written(w)
  /\ recorded' = Recorded(w)
  /\ End(w)

\* Mutant: a deleted skill's row is removed with its text.
WriteRemoving(w) ==
  /\ pc[w] = "writing"
  /\ ~recorded[job[w].mutation].used
  /\ skill[job[w].request.id].revision = job[w].request.base
  /\ skill' = IF job[w].request.deletes
                THEN [skill EXCEPT ![job[w].request.id] = NoRow] ELSE Written(w)
  /\ recorded' = Recorded(w)
  /\ End(w)

\* UPDATE ... WHERE revision = base, or an INSERT under the unique key when no
\* row was found, and the INSERT of the mutation under its own key.
Write(w) ==
  /\ pc[w] = "writing"
  /\ ~recorded[job[w].mutation].used
  /\ skill[job[w].request.id].revision = job[w].request.base
  /\ skill' = Written(w)
  /\ recorded' = Recorded(w)
  /\ End(w)

Next ==
  \E w \in Workers :
    \/ \E m \in Mutations, request \in Requests : Look(w, m, request)
    \/ Check(w) \/ Write(w) \/ Refuse(w)

Spec == Init /\ [][Next]_vars

-----------------------------------------------------------------------------
(* Properties.                                                             *)

TypeOK ==
  /\ skill    \in [Ids -> Skill]
  /\ recorded \in [Mutations -> {Unused} \cup
                               {Answered(r) : r \in {q \in Requests : q.base < MaxRevision}}]
  /\ pc       \in [Workers -> {"idle", "reading", "writing"}]
  /\ job      \in [Workers -> Jobs \cup {NoJob}]

\* Mutations recorded for a skill that claim to have made revision r of it.
Makers(i, r) ==
  {m \in Mutations : /\ recorded[m].used
                     /\ recorded[m].request.id = i
                     /\ recorded[m].revision = r}

\* Every revision a skill has had was made by exactly one recorded mutation,
\* and no answer on record claims another: whatever devices wrote at once, no
\* write was overwritten unseen and a repeated one was not applied twice.
RevisionsExplained ==
  \A i \in Ids : \A r \in 1 .. MaxRevision :
    Cardinality(Makers(i, r)) = IF r <= skill[i].revision THEN 1 ELSE 0

\* "Deletion keeps a revision tombstone, so that old devices do not silently
\* revive the text": the text of a deleted skill comes back only through a
\* request made from the revision of its deletion.
NoSilentRevival ==
  \A i \in Ids : skill[i].revision > 0 /\ ~skill[i].deleted =>
    \A m \in Mutations :
      recorded[m].used /\ recorded[m].request.id = i /\ recorded[m].request.deletes
        => \E n \in Mutations : /\ recorded[n].used
                                /\ recorded[n].request.id = i
                                /\ recorded[n].request.base = recorded[m].revision

\* "At most 200 cloud ids (deletion records included)": count and insertion are
\* not serialised, so first uploads that overlap can exceed the limit; they do
\* so by one each, less the one that was entitled to the last place.
OvershootBounded == Cardinality(Rows) + 1 <= Limit + Cardinality(Workers)
=============================================================================
