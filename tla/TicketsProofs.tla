---------------------------- MODULE TicketsProofs ----------------------------
(***************************************************************************)
(* Theorems about Tickets: repeated submissions, concurrent replies and    *)
(* purges, for any number of requests, tickets and replies.                *)
(***************************************************************************)
EXTENDS Tickets, TLAPS

USE TicketsAssumption

-----------------------------------------------------------------------------
(* The inductive invariant.                                                *)

\* A reply in progress: of a ticket never deleted it quotes no revision to come,
\* and if it quotes the current one it has read the replies there are.
Fresh(w) ==
  job[w].kind = "reply" =>
    /\ Exists(job[w].id)
    /\ job[w].id \notin deleted =>
         /\ job[w].revision <= ticket[job[w].id].revision
         /\ job[w].revision = ticket[job[w].id].revision =>
              /\ ticket[job[w].id].text.kept
              /\ job[w].replies = accepted[job[w].id]
              /\ job[w].replies < ReplyLimit

\* A ticket that is not there has no replies; purged text is gone until an
\* author's deletion.
Row(i) ==
  /\ ~Exists(i) => accepted[i] = 0
  /\ ticket[i].status = "expired" /\ i \notin deleted => ~ticket[i].text.kept

TicketsInv ==
  /\ TypeOK
  /\ \A i \in Ids : Row(i)
  /\ \A w \in Workers : Fresh(w) /\ (job[w].kind = "delete" => Exists(job[w].id))
  /\ SubmittedOnce
  /\ RepliesKept

LEMMA InitInv == Init => TicketsInv
<1> SUFFICES ASSUME Init PROVE TicketsInv
  OBVIOUS
<1>1. TypeOK
  BY DEF Init, TypeOK, Jobs
<1>2. \A i \in Ids : ~Exists(i) /\ Row(i)
  BY DEF Init, Exists, Absent, Row
<1>3. \A w \in Workers : job[w].kind = "idle"
  BY DEF Init, Idle
<1>4. QED BY <1>1, <1>2, <1>3 DEF TicketsInv, Fresh, SubmittedOnce, RepliesKept

\* What a request carries.
LEMMA JobKinds ==
  ASSUME TypeOK, NEW w \in Workers
  PROVE  /\ job[w].kind = "submit" => job[w].key \in Keys
         /\ job[w].kind = "delete" => job[w].id \in Ids /\ job[w].read \in Ticket
         /\ job[w].kind = "reply" =>
              /\ job[w].id \in Ids /\ job[w].revision \in Nat /\ job[w].replies \in Nat
              /\ job[w].adds \in {0, 1}
BY DEF TypeOK, Jobs, Idle

\* Texts, and a ticket with another one.
LEMMA Texts ==
  /\ Erased \in [kept : BOOLEAN, replies : Nat] /\ ~Erased.kept
  /\ \A n \in Nat : /\ Text(n) \in [kept : BOOLEAN, replies : Nat]
                    /\ Text(n).kept /\ Text(n).replies = n
BY DEF Erased, Text

With(row, text, status, revision) ==
  [row EXCEPT !.text = text, !.status = status, !.revision = revision]

LEMMA Edited ==
  ASSUME NEW row \in Ticket, NEW text \in [kept : BOOLEAN, replies : Nat],
         NEW status \in Statuses, NEW revision \in Nat \ {0}
  PROVE  LET edited == With(row, text, status, revision)
         IN  /\ edited \in Ticket
             /\ edited.text = text /\ edited.status = status
             /\ edited.revision = revision /\ edited.key = row.key
BY DEF Ticket, With

LEMMA ExistingTicket ==
  ASSUME TypeOK, NEW i \in Ids
  PROVE  Exists(i) <=> ticket[i] \in Ticket
BY DEF TypeOK, Exists, Absent, Ticket, Statuses

-----------------------------------------------------------------------------
(* What a step can do to a ticket it is not about.                         *)

\* Nothing, or a purge.
Kept(i) == ticket'[i] = ticket[i]
Gone(i) ==
  /\ Exists(i) /\ ticket[i].text.kept
  /\ ticket'[i].status = "expired" /\ ~ticket'[i].text.kept
  /\ ticket'[i].revision = ticket[i].revision + 1
  /\ ticket'[i].key = ticket[i].key
Aside(i) == Kept(i) \/ Gone(i)

LEMMA PurgedRows ==
  ASSUME TypeOK, NEW i \in Ids
  PROVE  /\ Purged \in [Ids -> {Absent} \cup Ticket]
         /\ \/ Purged[i] = ticket[i]
            \/ /\ Exists(i) /\ ticket[i].text.kept
               /\ Purged[i].status = "expired" /\ ~Purged[i].text.kept
               /\ Purged[i].revision = ticket[i].revision + 1
               /\ Purged[i].key = ticket[i].key
<1> DEFINE Due(j) == j \in expired /\ ticket[j].text.kept
<1>1. \A j \in Ids : Purged[j] = IF Due(j) THEN With(ticket[j], Erased, "expired", ticket[j].revision + 1)
                                 ELSE ticket[j]
  BY DEF Purged, With
<1>2. ASSUME NEW j \in Ids, Due(j)
      PROVE  /\ Exists(j) /\ Purged[j] \in Ticket
             /\ Purged[j].status = "expired" /\ ~Purged[j].text.kept
             /\ Purged[j].revision = ticket[j].revision + 1
             /\ Purged[j].key = ticket[j].key
  <2>1. ticket[j] \in Ticket /\ Exists(j)
    BY <1>2, ExistingTicket DEF TypeOK
  <2>2. PICK r \in Nat \ {0} : r = ticket[j].revision + 1
    BY <2>1 DEF Ticket
  <2>3. Purged[j] = With(ticket[j], Erased, "expired", r)
    BY <1>1, <1>2, <2>2
  <2>4. "expired" \in Statuses
    BY DEF Statuses
  <2>5. Erased \in [kept : BOOLEAN, replies : Nat] /\ ~Erased.kept
    BY Texts
  <2>6. /\ Purged[j] \in Ticket
        /\ Purged[j].text = Erased /\ Purged[j].status = "expired"
        /\ Purged[j].revision = r /\ Purged[j].key = ticket[j].key
    BY <2>1, <2>3, <2>4, <2>5, Edited
  <2>7. QED BY <1>2, <2>1, <2>2, <2>5, <2>6
<1>3. \A j \in Ids : Purged[j] \in {Absent} \cup Ticket
  <2>1. ASSUME NEW j \in Ids, ~Due(j) PROVE Purged[j] \in {Absent} \cup Ticket
    BY <1>1, <2>1 DEF TypeOK
  <2>2. QED BY <1>2, <2>1
<1>4. Purged \in [Ids -> {Absent} \cup Ticket]
  <2>1. Purged = [j \in Ids |-> Purged[j]]
    BY DEF Purged
  <2>2. QED BY <1>3, <2>1
<1>5. CASE Due(i)
  BY <1>2, <1>4, <1>5
<1>6. CASE ~Due(i)
  BY <1>1, <1>4, <1>6
<1>7. QED BY <1>5, <1>6

\* It keeps the ticket's part of the invariant and the replies under way.
LEMMA AsideRow ==
  ASSUME TicketsInv, NEW i \in Ids, Aside(i), accepted'[i] = accepted[i],
         i \in deleted' <=> i \in deleted
  PROVE  /\ Row(i)'
         /\ Exists(i)' <=> Exists(i)
         /\ Exists(i) => ticket'[i].key = ticket[i].key
         /\ Exists(i)' /\ i \notin deleted' /\ ticket'[i].text.kept =>
              ticket'[i].text = Text(accepted'[i]) /\ accepted'[i] <= ReplyLimit
         /\ ticket[i].status = "expired" /\ i \notin deleted =>
              ticket'[i].status = "expired" /\ ~ticket'[i].text.kept
BY DEF TicketsInv, Aside, Kept, Gone, Row, Exists, RepliesKept

LEMMA AsideJob ==
  ASSUME TicketsInv, NEW u \in Workers, job'[u] = job[u],
         job[u].kind = "reply" =>
           LET i == job[u].id
           IN Aside(i) /\ accepted'[i] = accepted[i] /\ (i \in deleted' <=> i \in deleted),
         job[u].kind = "delete" => Aside(job[u].id)
  PROVE  Fresh(u)' /\ (job[u].kind = "delete" => Exists(job[u].id))'
<1>1. CASE job[u].kind = "reply"
  <2> DEFINE i == job[u].id
  <2>1. i \in Ids /\ job[u].revision \in Nat /\ Exists(i) /\ Fresh(u)
    BY <1>1, JobKinds DEF TicketsInv, Fresh
  <2>2. ticket[i].revision \in Nat
    BY <2>1 DEF TicketsInv, TypeOK, Exists, Absent, Ticket
  <2>3. CASE Kept(i)
    BY <1>1, <2>1, <2>3 DEF Kept, Fresh, Exists
  <2>4. CASE Gone(i)
    BY <1>1, <2>1, <2>2, <2>4 DEF Gone, Fresh, Exists
  <2>5. QED BY <1>1, <2>3, <2>4 DEF Aside
<1>2. CASE job[u].kind = "delete"
  BY <1>2, JobKinds DEF TicketsInv, Fresh, Aside, Kept, Gone, Exists
<1>3. CASE job[u].kind \notin {"reply", "delete"}
  BY <1>3 DEF Fresh
<1>4. QED BY <1>1, <1>2, <1>3

\* A step that leaves every ticket aside.
LEMMA AsideStep ==
  ASSUME TicketsInv, TypeOK', \A i \in Ids : Aside(i), UNCHANGED <<accepted, deleted>>,
         \A w \in Workers : job'[w] = job[w] \/ (Fresh(w) /\ (job[w].kind = "delete" => Exists(job[w].id)))'
  PROVE  TicketsInv'
<1>1. \A w \in Workers : Fresh(w)' /\ (job[w].kind = "delete" => Exists(job[w].id))'
  BY AsideJob, JobKinds DEF TicketsInv
<1>2. (\A i \in Ids : Row(i))' /\ RepliesKept'
  BY AsideRow DEF RepliesKept
<1>3. SubmittedOnce'
  BY AsideRow DEF TicketsInv, SubmittedOnce
<1>4. QED BY <1>1, <1>2, <1>3 DEF TicketsInv

-----------------------------------------------------------------------------
(* The steps.                                                              *)

\* The first read of a request.
LEMMA BeginStep ==
  ASSUME TicketsInv, NEW w \in Workers, NEW request \in Jobs, Begin(w, request),
         request.kind = "reply" => /\ Exists(request.id) /\ request.revision <= ticket[request.id].revision
                                   /\ ticket[request.id].text.kept
                                   /\ request.replies = ticket[request.id].text.replies
                                   /\ request.replies < ReplyLimit,
         request.kind = "delete" => Exists(request.id)
  PROVE  TicketsInv'
<1>1. TypeOK'
  BY DEF TicketsInv, TypeOK, Begin, Exists
<1>2. job'[w] = request /\ \A u \in Workers \ {w} : job'[u] = job[u]
  BY DEF TicketsInv, TypeOK, Begin
<1>3. UNCHANGED <<ticket, accepted, deleted>>
  BY DEF Begin
<1>4. request.kind = "reply" /\ request.id \notin deleted => request.replies = accepted[request.id]
  <2> SUFFICES ASSUME request.kind = "reply", request.id \notin deleted
               PROVE  request.replies = accepted[request.id]
    OBVIOUS
  <2>1. request.id \in Ids
    BY DEF Jobs, Idle
  <2>2. ticket[request.id].text = Text(accepted[request.id]) /\ accepted[request.id] \in Nat
    BY <2>1 DEF TicketsInv, TypeOK, RepliesKept
  <2>3. QED BY <2>2, Texts
<1>5. (Fresh(w) /\ (job[w].kind = "delete" => Exists(job[w].id)))'
  BY <1>2, <1>3, <1>4 DEF Fresh, Exists
<1>6. QED BY <1>1, <1>2, <1>3, <1>5, AsideStep DEF Aside, Kept

LEMMA StartSteps ==
  ASSUME TicketsInv, NEW w \in Workers
  PROVE  /\ \A k \in Keys : StartSubmit(w, k) => TicketsInv'
         /\ \A i \in Ids : StartDelete(w, i) => TicketsInv'
         /\ \A i \in Ids, seen \in 1 .. MaxRevision - 1, message \in {0, 1} :
              StartReply(w, i, seen, message) => TicketsInv'
<1>1. ASSUME NEW k \in Keys, StartSubmit(w, k) PROVE TicketsInv'
  <2>1. [kind |-> "submit", key |-> k] \in Jobs
    BY DEF Jobs
  <2>2. QED BY <1>1, <2>1, BeginStep DEF StartSubmit
<1>2. ASSUME NEW i \in Ids, StartDelete(w, i) PROVE TicketsInv'
  <2>1. ticket[i] \in Ticket
    BY <1>2 DEF StartDelete, TicketsInv, TypeOK, Exists, Absent
  <2>2. [kind |-> "delete", id |-> i, read |-> ticket[i]] \in Jobs
    BY <2>1 DEF Jobs
  <2>3. QED BY <1>2, <2>2, BeginStep DEF StartDelete
<1>3. ASSUME NEW i \in Ids, NEW seen \in 1 .. MaxRevision - 1, NEW message \in {0, 1},
             StartReply(w, i, seen, message)
      PROVE  TicketsInv'
  <2> DEFINE request == [kind |-> "reply", id |-> i, revision |-> seen, adds |-> message,
                         replies |-> ticket[i].text.replies]
  <2>1. ticket[i] \in Ticket
    BY <1>3 DEF StartReply, Readable, TicketsInv, TypeOK, Exists, Absent
  <2>2. request \in Jobs
    BY <2>1 DEF Jobs, Ticket
  <2>3. QED BY <1>3, <2>2, BeginStep DEF StartReply, Readable
<1>4. QED BY <1>1, <1>2, <1>3

LEMMA RefuseStep ==
  ASSUME TicketsInv, NEW w \in Workers, Refuse(w)
  PROVE  TicketsInv'
<1>1. TypeOK'
  BY DEF TicketsInv, TypeOK, Refuse, End, Exists, Jobs
<1>2. job'[w].kind = "idle" /\ \A u \in Workers \ {w} : job'[u] = job[u]
  BY DEF TicketsInv, TypeOK, Refuse, End, Idle
<1>3. (Fresh(w) /\ (job[w].kind = "delete" => Exists(job[w].id)))'
  BY <1>2 DEF Fresh
<1>4. QED BY <1>1, <1>2, <1>3, AsideStep DEF Aside, Kept, Refuse

LEMMA ExpireStep ==
  ASSUME TicketsInv, NEW i \in Ids, Expire(i)
  PROVE  TicketsInv'
<1>1. TypeOK'
  BY DEF TicketsInv, TypeOK, Expire, Exists
<1>2. QED BY <1>1, AsideStep DEF Aside, Kept, Expire

LEMMA PurgeStep ==
  ASSUME TicketsInv, Purge
  PROVE  TicketsInv'
<1>1. \A i \in Ids : Aside(i)
  BY PurgedRows DEF TicketsInv, Purge, Aside, Kept, Gone
<1>2. \A i \in Ids : Exists(i)' <=> Exists(i)
  BY <1>1, AsideRow DEF TicketsInv, Purge
<1>3. TypeOK'
  <2>1. ticket' \in [Ids -> {Absent} \cup Ticket]
    <3>1. CASE Ids = {}
      BY <3>1 DEF TicketsInv, TypeOK, Purge, Purged
    <3>2. CASE Ids # {}
      BY <3>2, PurgedRows DEF TicketsInv, Purge
    <3>3. QED BY <3>1, <3>2
  <2>2. QED BY <1>2, <2>1 DEF TicketsInv, TypeOK, Purge
<1>4. QED BY <1>1, <1>3, AsideStep DEF Purge

\* The new ticket is the only one under its key.
LEMMA SubmitStep ==
  ASSUME TicketsInv, NEW w \in Workers, NEW i \in Ids, Submit(w, i)
  PROVE  TicketsInv'
<1> DEFINE new == [status |-> "open", revision |-> 1, text |-> Text(0), key |-> job[w].key]
<1>1. /\ ~Exists(i) /\ ~Submitted(job[w].key) /\ job[w].key \in Keys
      /\ UNCHANGED <<expired, accepted, deleted>>
  BY JobKinds DEF Submit, TicketsInv
<1>2. new \in Ticket
  BY <1>1 DEF Ticket, Statuses, Text
<1>3. ticket' \in [Ids -> {Absent} \cup Ticket] /\ ticket'[i] = new
  BY <1>2, PurgedRows DEF TicketsInv, Submit
<1>4. \A j \in Ids \ {i} : Aside(j)
  BY PurgedRows DEF TicketsInv, Submit, Aside, Kept, Gone
<1>5. \A j \in Ids : Exists(j) => Exists(j)'
  BY <1>1, <1>4, AsideRow DEF TicketsInv
<1>6. TypeOK'
  BY <1>1, <1>3, <1>5 DEF TicketsInv, TypeOK, Submit, End, Jobs
<1>7. job'[w].kind = "idle" /\ \A u \in Workers \ {w} : job'[u] = job[u]
  BY DEF TicketsInv, TypeOK, Submit, End, Idle
<1>8. \A u \in Workers : job[u].kind \in {"reply", "delete"} => job[u].id \in Ids \ {i}
  BY <1>1, JobKinds DEF TicketsInv, Fresh
<1>9. \A u \in Workers : Fresh(u)' /\ (job[u].kind = "delete" => Exists(job[u].id))'
  <2>1. Fresh(w)' /\ (job[w].kind = "delete" => Exists(job[w].id))'
    BY <1>7 DEF Fresh
  <2>2. ASSUME NEW u \in Workers \ {w}
        PROVE  Fresh(u)' /\ (job[u].kind = "delete" => Exists(job[u].id))'
    BY <1>1, <1>4, <1>7, <1>8, AsideJob
  <2>3. QED BY <2>1, <2>2
<1>10. i \notin deleted /\ accepted[i] = 0
  BY <1>1 DEF TicketsInv, TypeOK, Row
<1>11. (\A j \in Ids : Row(j))'
  <2>1. Row(i)'
    BY <1>1, <1>3, <1>10 DEF Row, Exists
  <2>2. QED BY <1>1, <1>4, <2>1, AsideRow
<1>12. RepliesKept'
  <2>1. ticket'[i].text = Text(accepted'[i]) /\ accepted'[i] <= ReplyLimit
    BY <1>1, <1>3, <1>10
  <2>2. QED BY <1>1, <1>4, <2>1, AsideRow DEF RepliesKept
<1>13. SubmittedOnce'
  <2>1. \A j \in Ids \ {i} : Exists(j)' => Exists(j) /\ ticket'[j].key = ticket[j].key
    BY <1>1, <1>4, AsideRow
  <2>2. \A j \in Ids \ {i} : Exists(j)' => ticket'[j].key # ticket'[i].key
    BY <1>1, <1>3, <2>1 DEF Submitted
  <2>3. QED BY <2>1, <2>2 DEF TicketsInv, SubmittedOnce
<1>14. QED BY <1>6, <1>9, <1>11, <1>12, <1>13 DEF TicketsInv

\* Of a ticket that was deleted nothing more is claimed.
LEMMA DeleteStep ==
  ASSUME TicketsInv, NEW w \in Workers, Delete(w)
  PROVE  TicketsInv'
<1>0. PICK i \in Ids : i = job[w].id
  BY JobKinds DEF TicketsInv, Delete
<1>1. i \in Ids /\ job[w].read \in Ticket /\ Exists(i)
  BY <1>0, JobKinds DEF TicketsInv, Delete
<1>2. ticket[i] \in Ticket
  BY <1>1 DEF TicketsInv, TypeOK, Exists, Absent
<1>3. /\ ticket'[i] \in Ticket /\ ticket'[i].key = ticket[i].key
      /\ \A j \in Ids \ {i} : ticket'[j] = ticket[j]
      /\ ticket' \in [Ids -> {Absent} \cup Ticket]
  <2> DEFINE text == IF job[w].read.text.kept THEN Erased ELSE ticket[i].text
             status == IF job[w].read.status # "deleted" THEN "deleted" ELSE ticket[i].status
  <2>1. ticket'[i] = With(ticket[i], text, status, job[w].read.revision + 1)
    BY <1>0, <1>1, <1>2 DEF TicketsInv, TypeOK, Delete, With, Ticket
  <2>2. ticket'[i] \in Ticket /\ ticket'[i].key = ticket[i].key
    <3>1. /\ text \in [kept : BOOLEAN, replies : Nat] /\ status \in Statuses
          /\ job[w].read.revision + 1 \in Nat \ {0}
      BY <1>1, <1>2, Texts DEF Ticket, Statuses
    <3> HIDE DEF text, status
    <3>2. QED BY <1>2, <2>1, <3>1, Edited
  <2>3. /\ \A j \in Ids \ {i} : ticket'[j] = ticket[j]
        /\ DOMAIN ticket' = Ids /\ ticket' = [j \in Ids |-> ticket'[j]]
    BY <1>0, <1>1 DEF TicketsInv, TypeOK, Delete
  <2>4. \A j \in Ids : ticket'[j] \in {Absent} \cup Ticket
    BY <2>2, <2>3 DEF TicketsInv, TypeOK
  <2>5. QED BY <2>2, <2>3, <2>4
<1>4. Exists(i)' /\ \A j \in Ids : Exists(j)' <=> Exists(j)
  <2>1. ticket'[i].status # "absent"
    BY <1>3 DEF Ticket, Statuses
  <2>2. QED BY <1>1, <1>3, <2>1 DEF Exists
<1>5. /\ deleted' = deleted \cup {i} /\ UNCHANGED <<expired, accepted>>
      /\ job'[w].kind = "idle" /\ \A u \in Workers \ {w} : job'[u] = job[u]
      /\ job' \in [Workers -> Jobs]
  BY <1>0 DEF TicketsInv, TypeOK, Delete, End, Idle, Jobs
<1>6. TypeOK'
  BY <1>1, <1>3, <1>4, <1>5 DEF TicketsInv, TypeOK
<1>7. (\A j \in Ids : Row(j))'
  BY <1>3, <1>4, <1>5 DEF TicketsInv, Row
<1>8. \A u \in Workers : Fresh(u)' /\ (job[u].kind = "delete" => Exists(job[u].id))'
  <2>1. ASSUME NEW u \in Workers \ {w}, job[u].kind = "reply" PROVE Fresh(u)'
    <3>1. job[u].id \in Ids /\ Exists(job[u].id)
      BY <2>1, JobKinds DEF TicketsInv, Fresh
    <3>2. CASE job[u].id = i
      BY <1>4, <1>5, <3>1, <3>2 DEF Fresh
    <3>3. CASE job[u].id # i
      BY <1>3, <1>4, <1>5, <3>1, <3>3 DEF TicketsInv, Fresh
    <3>4. QED BY <3>2, <3>3
  <2>2. \A u \in Workers : job'[u].kind = "reply" => u # w /\ job[u].kind = "reply"
    BY <1>5
  <2>3. \A u \in Workers : Fresh(u)'
    BY <2>1, <2>2 DEF Fresh
  <2>4. \A u \in Workers : (job[u].kind = "delete" => Exists(job[u].id))'
    BY <1>4, <1>5, JobKinds DEF TicketsInv
  <2>5. QED BY <2>3, <2>4
<1>9. SubmittedOnce'
  BY <1>3, <1>4 DEF TicketsInv, SubmittedOnce
<1>10. RepliesKept'
  BY <1>3, <1>4, <1>5 DEF TicketsInv, RepliesKept
<1>11. QED BY <1>6, <1>7, <1>8, <1>9, <1>10 DEF TicketsInv

\* The reply whose revision is still the current one makes all others of that
\* revision stale.
LEMMA ReplyStep ==
  ASSUME TicketsInv, NEW w \in Workers, Reply(w)
  PROVE  TicketsInv'
<1> DEFINE n == job[w].replies + job[w].adds
<1>0. PICK i \in Ids : i = job[w].id
  BY JobKinds DEF TicketsInv, Reply
<1>1. /\ i \in Ids /\ Exists(i) /\ job[w].kind = "reply"
      /\ job[w].revision \in Nat /\ job[w].replies \in Nat /\ job[w].adds \in {0, 1}
      /\ ticket[i].revision = job[w].revision
      /\ i \notin deleted => job[w].replies = accepted[i] /\ job[w].replies < ReplyLimit
  BY <1>0, JobKinds DEF TicketsInv, Reply, Fresh
<1>2. ticket[i] \in Ticket /\ accepted[i] \in Nat
  BY <1>1 DEF TicketsInv, TypeOK, Exists, Absent
<1>3. /\ ticket'[i].text = Text(n) /\ ticket'[i].status = "open"
      /\ ticket'[i].revision = ticket[i].revision + 1 /\ ticket'[i].key = ticket[i].key
      /\ \A j \in Ids \ {i} : ticket'[j] = ticket[j]
      /\ ticket' \in [Ids -> {Absent} \cup Ticket]
  <2>1. ticket'[i] = With(ticket[i], Text(n), "open", job[w].revision + 1)
    BY <1>0, <1>1, <1>2 DEF TicketsInv, TypeOK, Reply, With, Ticket
  <2>2. /\ ticket'[i] \in Ticket /\ ticket'[i].text = Text(n) /\ ticket'[i].status = "open"
        /\ ticket'[i].revision = ticket[i].revision + 1 /\ ticket'[i].key = ticket[i].key
    <3>1. /\ Text(n) \in [kept : BOOLEAN, replies : Nat] /\ "open" \in Statuses
          /\ job[w].revision + 1 \in Nat \ {0}
      BY <1>1, Texts DEF Statuses
    <3>2. QED BY <1>1, <1>2, <2>1, <3>1, Edited
  <2>3. /\ \A j \in Ids \ {i} : ticket'[j] = ticket[j]
        /\ DOMAIN ticket' = Ids /\ ticket' = [j \in Ids |-> ticket'[j]]
    BY <1>0, <1>1 DEF TicketsInv, TypeOK, Reply
  <2>4. \A j \in Ids : ticket'[j] \in {Absent} \cup Ticket
    BY <2>2, <2>3 DEF TicketsInv, TypeOK
  <2>5. QED BY <2>2, <2>3, <2>4
<1>4. Exists(i)' /\ \A j \in Ids : Exists(j)' <=> Exists(j)
  <2>1. ticket'[i].status # "absent"
    BY <1>3
  <2>2. QED BY <1>1, <1>3, <2>1 DEF Exists
<1>5. /\ accepted'[i] = accepted[i] + job[w].adds /\ accepted' \in [Ids -> Nat]
      /\ \A j \in Ids \ {i} : accepted'[j] = accepted[j]
      /\ UNCHANGED <<expired, deleted>>
      /\ job'[w].kind = "idle" /\ \A u \in Workers \ {w} : job'[u] = job[u]
      /\ job' \in [Workers -> Jobs]
  BY <1>0, <1>1 DEF TicketsInv, TypeOK, Reply, End, Idle, Jobs
<1>6. TypeOK'
  BY <1>3, <1>4, <1>5 DEF TicketsInv, TypeOK
<1>7. (\A j \in Ids : Row(j))'
  <2>1. Row(i)'
    BY <1>3, <1>4 DEF Row
  <2>2. ASSUME NEW j \in Ids \ {i} PROVE Row(j)'
    BY <1>3, <1>4, <1>5 DEF TicketsInv, Row
  <2>3. QED BY <2>1, <2>2
<1>8. \A u \in Workers : Fresh(u)' /\ (job[u].kind = "delete" => Exists(job[u].id))'
  <2>1. ASSUME NEW u \in Workers \ {w}, job[u].kind = "reply" PROVE Fresh(u)'
    <3>1. job[u].id \in Ids /\ Exists(job[u].id) /\ job[u].revision \in Nat
      BY <2>1, JobKinds DEF TicketsInv, Fresh
    <3>2. CASE job[u].id = i
      <4>1. i \notin deleted => job[u].revision <= ticket[i].revision
        BY <2>1, <3>2 DEF TicketsInv, Fresh
      <4>2. i \notin deleted => job[u].revision < ticket'[i].revision
        BY <1>1, <1>3, <3>1, <4>1
      <4>3. /\ job'[u] = job[u] /\ deleted' = deleted /\ Exists(i)'
            /\ ticket'[i].revision \in Nat
        BY <1>1, <1>3, <1>4, <1>5
      <4>4. QED BY <3>1, <3>2, <4>2, <4>3 DEF Fresh
    <3>3. CASE job[u].id # i
      BY <1>3, <1>4, <1>5, <3>1, <3>3 DEF TicketsInv, Fresh
    <3>4. QED BY <3>2, <3>3
  <2>2. \A u \in Workers : job'[u].kind = "reply" => u # w /\ job[u].kind = "reply"
    BY <1>5
  <2>3. \A u \in Workers : Fresh(u)'
    BY <2>1, <2>2 DEF Fresh
  <2>4. \A u \in Workers : (job[u].kind = "delete" => Exists(job[u].id))'
    BY <1>4, <1>5, JobKinds DEF TicketsInv
  <2>5. QED BY <2>3, <2>4
<1>9. SubmittedOnce'
  BY <1>3, <1>4 DEF TicketsInv, SubmittedOnce
<1>10. RepliesKept'
  <2>1. i \notin deleted => ticket'[i].text = Text(accepted'[i]) /\ accepted'[i] <= ReplyLimit
    BY <1>1, <1>2, <1>3, <1>5
  <2>2. \A j \in Ids \ {i} :
          Exists(j)' /\ j \notin deleted' /\ ticket'[j].text.kept =>
            ticket'[j].text = Text(accepted'[j]) /\ accepted'[j] <= ReplyLimit
    BY <1>3, <1>4, <1>5 DEF TicketsInv, RepliesKept
  <2>3. QED BY <1>5, <2>1, <2>2 DEF RepliesKept
<1>11. QED BY <1>6, <1>7, <1>8, <1>9, <1>10 DEF TicketsInv

-----------------------------------------------------------------------------
(* The invariant is inductive.                                             *)

LEMMA StepInv == TicketsInv /\ [Next]_vars => TicketsInv'
<1> SUFFICES ASSUME TicketsInv, [Next]_vars PROVE TicketsInv'
  OBVIOUS
<1>1. CASE UNCHANGED vars
  <2>1. TypeOK'
    BY <1>1 DEF vars, TicketsInv, TypeOK, Exists
  <2>2. QED BY <1>1, <2>1, AsideStep DEF vars, Aside, Kept
<1>2. QED BY <1>1, StartSteps, SubmitStep, DeleteStep, ReplyStep, RefuseStep, ExpireStep, PurgeStep
      DEF Next

LEMMA Invariance == Spec => []TicketsInv
<1>1. QED BY InitInv, StepInv, PTL DEF Spec

-----------------------------------------------------------------------------
(* Theorems.                                                               *)

\* Every variable keeps its type.
THEOREM TicketsTypeCorrect == Spec => []TypeOK
<1>1. TicketsInv => TypeOK
  BY DEF TicketsInv
<1>2. QED BY <1>1, Invariance, PTL

\* A submission repeated under its mutation id makes one ticket, since its
\* unique key refuses a second one.
THEOREM OneTicketPerSubmission == Spec => []SubmittedOnce
<1>1. TicketsInv => SubmittedOnce
  BY DEF TicketsInv
<1>2. QED BY <1>1, Invariance, PTL

\* No reply that reply() acknowledged is lost to another one, nor do concurrent
\* ones exceed the limit, for any number of staff.
THEOREM AcknowledgedRepliesKept == Spec => []RepliesKept
<1>1. TicketsInv => RepliesKept
  BY DEF TicketsInv
<1>2. QED BY <1>1, Invariance, PTL

\* What purge_expired has erased stays erased, whatever replies were in progress.
THEOREM PurgeIsFinal == Spec => PurgedStaysErased
<1> DEFINE Final(i) == ticket[i].status = "expired" /\ i \notin deleted =>
                         ticket'[i].status \in {"expired", "deleted"} /\ ~ticket'[i].text.kept
<1>1. TicketsInv /\ [Next]_vars => [\A i \in Ids : Final(i)]_vars
  <2> SUFFICES ASSUME TicketsInv, Next, NEW i \in Ids,
                      ticket[i].status = "expired", i \notin deleted
               PROVE  ticket'[i].status \in {"expired", "deleted"} /\ ~ticket'[i].text.kept
    OBVIOUS
  <2>1. ~ticket[i].text.kept /\ Exists(i) /\ ticket[i] \in Ticket
    BY DEF TicketsInv, TypeOK, Row, Exists, Absent
  <2>2. CASE Kept(i)
    BY <2>1, <2>2 DEF Kept
  <2>3. CASE Purge
    BY <2>1, <2>3, PurgedRows DEF Purge, TicketsInv
  <2>4. ASSUME NEW w \in Workers, NEW j \in Ids, Submit(w, j)
        PROVE  ticket'[i].status = "expired" /\ ~ticket'[i].text.kept
    <3>1. j # i
      BY <2>1, <2>4 DEF Submit
    <3>2. ticket'[i] = Purged[i]
      BY <2>4, <3>1, PurgedRows DEF Submit, TicketsInv
    <3>3. QED BY <2>1, <3>2, PurgedRows DEF TicketsInv
  <2>5. ASSUME NEW w \in Workers, Delete(w)
        PROVE  ticket'[i].status \in {"expired", "deleted"} /\ ~ticket'[i].text.kept
    <3>1. CASE job[w].id = i
      <4>1. /\ ticket'[i].text = IF job[w].read.text.kept THEN Erased ELSE ticket[i].text
            /\ ticket'[i].status = IF job[w].read.status # "deleted" THEN "deleted" ELSE ticket[i].status
        BY <2>1, <2>5, <3>1 DEF Delete, TicketsInv, TypeOK, Ticket
      <4>2. QED BY <2>1, <4>1 DEF Erased
    <3>2. CASE job[w].id # i
      BY <2>1, <2>5, <3>2 DEF Delete, TicketsInv, TypeOK
    <3>3. QED BY <3>1, <3>2
  <2>6. ASSUME NEW w \in Workers, Reply(w) PROVE Kept(i)
    <3>1. job[w].id # i
      BY <2>1, <2>6 DEF TicketsInv, Fresh, Reply
    <3>2. QED BY <2>6, <3>1 DEF Reply, TicketsInv, TypeOK, Kept
  <2>7. ASSUME NEW w \in Workers, Refuse(w) \/ (\E k \in Keys : StartSubmit(w, k))
               \/ (\E j \in Ids : StartDelete(w, j))
               \/ (\E j \in Ids, seen \in 1 .. MaxRevision - 1, message \in {0, 1} :
                     StartReply(w, j, seen, message))
        PROVE  Kept(i)
    BY <2>7 DEF Refuse, StartSubmit, StartDelete, StartReply, Begin, Kept
  <2>8. CASE \E j \in Ids : Expire(j)
    BY <2>1, <2>8 DEF Expire
  <2>9. QED BY <2>2, <2>3, <2>4, <2>5, <2>6, <2>7, <2>8 DEF Next
<1>2. QED BY <1>1, Invariance, PTL DEF Spec, PurgedStaysErased
=============================================================================
