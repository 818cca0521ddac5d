------------------------------ MODULE Tickets ------------------------------
(***************************************************************************)
(* Support tickets: src/app/feedback.py.  A user submits a ticket, may     *)
(* erase its text, staff reply by revision, and expired text is purged.    *)
(*                                                                         *)
(* A request is a transaction that reads first and writes later; its write *)
(* and commit are one step, because the row lock and the unique keys make  *)
(* overlapping writers wait and test again.  A request refused at its      *)
(* first read changes nothing and is left out.                             *)
(***************************************************************************)
EXTENDS Naturals, FiniteSets

CONSTANTS
  Workers,     \* concurrent requests
  Ids,         \* support_tickets.id
  Keys,        \* mutation ids of submissions
  ReplyLimit,  \* replies a ticket can hold (50 in the code)
  MaxRevision  \* bound: revisions below it are replied to and deleted

ASSUME TicketsAssumption ==
  /\ ReplyLimit \in Nat
  /\ MaxRevision \in Nat \ {0}

VARIABLES
  ticket,    \* SupportTicket rows
  expired,   \* tickets past expires_at
  job,       \* what each request read and was asked
  accepted,  \* replies that were acknowledged, for each ticket
  deleted    \* tickets their author has deleted at some time

vars == <<ticket, expired, job, accepted, deleted>>

\* A text with n replies; no text is encrypted_payload IS NULL.
Erased == [kept |-> FALSE, replies |-> 0]
Text(n) == [kept |-> TRUE, replies |-> n]

\* "open" stands for open, in_progress and resolved: staff set any of them.
Statuses == {"open", "deleted", "expired"}

Absent == [status |-> "absent"]
Exists(i) == ticket[i].status # "absent"
Readable(i) == Exists(i) /\ ticket[i].text.kept /\ i \notin expired

Idle == [kind |-> "idle"]

Init ==
  /\ ticket = [i \in Ids |-> Absent]
  /\ expired = {}
  /\ job = [w \in Workers |-> Idle]
  /\ accepted = [i \in Ids |-> 0]
  /\ deleted = {}

Begin(w, request) ==
  /\ job[w] = Idle
  /\ job' = [job EXCEPT ![w] = request]
  /\ UNCHANGED <<ticket, expired, accepted, deleted>>

End(w) == job' = [job EXCEPT ![w] = Idle]

\* Refused at the write: 409, rolled back.  Also a connection or process lost.
Refuse(w) ==
  /\ job[w] # Idle
  /\ End(w)
  /\ UNCHANGED <<ticket, expired, accepted, deleted>>

-----------------------------------------------------------------------------
(* purge_expired, which every listing, reading and submission begins with. *)

\* Mutant: erases the text and leaves the revision as it was.
PurgedQuietly ==
  [i \in Ids |->
     IF i \in expired /\ ticket[i].text.kept
       THEN [ticket[i] EXCEPT !.text = Erased, !.status = "expired"]
       ELSE ticket[i]]

Purged ==
  [i \in Ids |->
     IF i \in expired /\ ticket[i].text.kept
       THEN [ticket[i] EXCEPT !.text = Erased, !.status = "expired", !.revision = @ + 1]
       ELSE ticket[i]]

Purging == {i \in expired : ticket[i].text.kept}

Purge ==
  /\ Purging # {}
  /\ ticket' = Purged
  /\ UNCHANGED <<expired, job, accepted, deleted>>

Expire(i) ==
  /\ Exists(i)
  /\ i \notin expired
  /\ expired' = expired \cup {i}
  /\ UNCHANGED <<ticket, job, accepted, deleted>>

-----------------------------------------------------------------------------
(* submit: a repeated mutation id is answered with the first ticket.       *)

Submitted(k) == \E i \in Ids : Exists(i) /\ ticket[i].key = k

StartSubmit(w, k) ==
  /\ ~Submitted(k)
  /\ Begin(w, [kind |-> "submit", key |-> k])

\* Mutant: only the lookup at the start guards against a repeated submission.
SubmitUnchecked(w, i) ==
  /\ job[w].kind = "submit"
  /\ ~Exists(i)
  /\ ticket' = [Purged EXCEPT ![i] = [status |-> "open", revision |-> 1, text |-> Text(0),
                                      key |-> job[w].key]]
  /\ End(w)
  /\ UNCHANGED <<expired, accepted, deleted>>

\* The unique key (cloud_mutations for users, guest_submission_key for guests)
\* refuses what another request has inserted since the lookup.
Submit(w, i) ==
  /\ job[w].kind = "submit"
  /\ ~Exists(i)
  /\ ~Submitted(job[w].key)
  /\ ticket' = [Purged EXCEPT ![i] = [status |-> "open", revision |-> 1, text |-> Text(0),
                                      key |-> job[w].key]]
  /\ End(w)
  /\ UNCHANGED <<expired, accepted, deleted>>

-----------------------------------------------------------------------------
(* delete_mine: the columns that differ from the object read at the start  *)
(* are written by its id.                                                  *)

StartDelete(w, i) ==
  /\ Exists(i)
  /\ ticket[i].revision < MaxRevision
  /\ Begin(w, [kind |-> "delete", id |-> i, read |-> ticket[i]])

Delete(w) ==
  /\ job[w].kind = "delete"
  /\ LET i == job[w].id
         read == job[w].read
     IN
       /\ ticket' = [ticket EXCEPT ![i].text = IF read.text.kept THEN Erased ELSE @,
                                   ![i].status = IF read.status # "deleted" THEN "deleted" ELSE @,
                                   ![i].revision = read.revision + 1]
       /\ deleted' = deleted \cup {i}
  /\ End(w)
  /\ UNCHANGED <<expired, accepted>>

-----------------------------------------------------------------------------
(* reply: staff quote a revision they have been shown, as the console      *)
(* does; the endpoint would take any from 1 on (README, section 5).        *)

\* A reply with a message, or a change of status alone.
StartReply(w, i, seen, message) ==
  /\ Readable(i)
  /\ seen <= ticket[i].revision
  /\ ticket[i].text.replies < ReplyLimit
  /\ Begin(w, [kind |-> "reply", id |-> i, revision |-> seen, adds |-> message,
               replies |-> ticket[i].text.replies])

\* Mutant: the text read at the start is written back whatever happened since.
ReplyAnyway(w) ==
  /\ job[w].kind = "reply"
  /\ LET i == job[w].id IN
       /\ ticket' = [ticket EXCEPT ![i].text = Text(job[w].replies + job[w].adds),
                                   ![i].status = "open",
                                   ![i].revision = job[w].revision + 1]
       /\ accepted' = [accepted EXCEPT ![i] = @ + job[w].adds]
  /\ End(w)
  /\ UNCHANGED <<expired, deleted>>

\* UPDATE ... WHERE revision = the one quoted.
Reply(w) ==
  /\ job[w].kind = "reply"
  /\ LET i == job[w].id IN
       /\ ticket[i].revision = job[w].revision
       /\ ticket' = [ticket EXCEPT ![i].text = Text(job[w].replies + job[w].adds),
                                   ![i].status = "open",
                                   ![i].revision = job[w].revision + 1]
       /\ accepted' = [accepted EXCEPT ![i] = @ + job[w].adds]
  /\ End(w)
  /\ UNCHANGED <<expired, deleted>>

-----------------------------------------------------------------------------
Next ==
  \/ \E w \in Workers :
       \/ \E k \in Keys : StartSubmit(w, k)
       \/ \E i \in Ids : Submit(w, i) \/ StartDelete(w, i)
       \/ \E i \in Ids, seen \in 1 .. MaxRevision - 1, message \in {0, 1} :
            StartReply(w, i, seen, message)
       \/ Delete(w) \/ Reply(w) \/ Refuse(w)
  \/ \E i \in Ids : Expire(i)
  \/ Purge

Spec == Init /\ [][Next]_vars

-----------------------------------------------------------------------------
(* Properties.                                                             *)

Ticket ==
  [status : Statuses, revision : Nat \ {0}, text : [kept : BOOLEAN, replies : Nat], key : Keys]

Jobs ==
  {Idle} \cup [kind : {"submit"}, key : Keys]
         \cup [kind : {"delete"}, id : Ids, read : Ticket]
         \cup [kind : {"reply"}, id : Ids, revision : Nat, adds : {0, 1}, replies : Nat]

TypeOK ==
  /\ ticket \in [Ids -> {Absent} \cup Ticket]
  /\ expired \subseteq {i \in Ids : Exists(i)}
  /\ deleted \subseteq {i \in Ids : Exists(i)}
  /\ job \in [Workers -> Jobs]
  /\ accepted \in [Ids -> Nat]

\* A submission that the client repeats, at the same time or later, makes one
\* ticket.
SubmittedOnce ==
  \A i, j \in Ids :
    Exists(i) /\ Exists(j) /\ ticket[i].key = ticket[j].key => i = j

\* Two members of staff who reply at once: of a ticket its author never deleted
\* no acknowledged reply is lost while the text is kept, and together they do
\* not get past the limit that each of them has checked.
RepliesKept ==
  \A i \in Ids :
    Exists(i) /\ i \notin deleted /\ ticket[i].text.kept =>
      ticket[i].text = Text(accepted[i]) /\ accepted[i] <= ReplyLimit

\* A reply that was being written when the text was purged does not bring it
\* back.  (After a deletion, which can set the revision back, it may.)
PurgedStaysErased ==
  [][\A i \in Ids : ticket[i].status = "expired" /\ i \notin deleted =>
       ticket'[i].status \in {"expired", "deleted"} /\ ~ticket'[i].text.kept]_vars

\* A text its author has deleted is not brought back by anyone.
DeletedStaysErased ==
  [][\A i \in Ids : ticket[i].status = "deleted" =>
       ticket'[i].status = "deleted" /\ ~ticket'[i].text.kept]_vars
=============================================================================
