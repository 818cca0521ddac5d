--------------------------- MODULE GatewayProofs ---------------------------
(***************************************************************************)
(* Theorems about Gateway: permits, honesty about the dispatch, and status *)
(* and journal that follow the call, for any calls and any number of       *)
(* permits.  And theorems about Parameters, what the gateway sends a call  *)
(* with: budgets, aliases and capabilities, for any configuration and any  *)
(* request.                                                                *)
(***************************************************************************)
EXTENDS Gateway, Parameters, FiniteSetTheorems, TLAPS

USE GatewayAssumption

-----------------------------------------------------------------------------
(* The inductive invariant, call by call.                                  *)

Journals == {"absent", "pending_usage", "released", "settled", "needs_reconciliation"}
Statuses == {"absent", "running", "succeeded", "failed", "cancelled"}

\* Not finished yet.
Serving == {"waiting", "unsupported", "connecting", "awaiting", "refused",
            "reading", "offered", "streaming", "leaked"}

LocalInv(c) ==
  /\ at[c] = "new" => status[c] = "absent" /\ journal[c] = "absent"
  /\ at[c] \in Serving =>
       status[c] = "running" /\ (c \in Official => journal[c] = "pending_usage")
  /\ at[c] \in Serving \cup {"new"} => told[c] = "nothing" /\ ~http[c] /\ code[c] = "none"
  /\ at[c] \in {"new", "waiting", "unsupported", "connecting"} => ~reached[c]
  /\ at[c] \in {"new", "waiting", "unsupported", "connecting", "awaiting"} => ~answered[c]
  /\ at[c] \in {"refused", "reading", "offered", "streaming", "closing", "leaked"} => answered[c]
  /\ at[c] \in {"offered", "streaming", "leaked"} => c \in Streams

\* The properties of one call.
Honest(c) ==
  LET claims == {told[c]} \cup (IF c \in Official THEN {StatusCertainty(c)} ELSE {})
  IN /\ "not_dispatched" \in claims => ~reached[c]
     /\ "response_received" \in claims => answered[c]

Agreeing(c) == c \in Official /\ told[c] # "nothing" => told[c] = StatusCertainty(c)

Following(c) ==
  c \in Official =>
    /\ journal[c] = "pending_usage" <=> status[c] = "running"
    /\ journal[c] = "settled" => answered[c]

Good(c) == LocalInv(c) /\ Honest(c) /\ Agreeing(c) /\ Following(c)

Holders == {c \in Calls : at[c] \in Holding}

GatewayInv ==
  /\ TypeOK
  /\ \A c \in Calls : Good(c)
  /\ SlotsBalanced

-----------------------------------------------------------------------------
(* What a step of one call does.                                           *)

\* Tables of the right shape.
Tables ==
  /\ at \in [Calls -> Places]
  /\ answered \in [Calls -> BOOLEAN]
  /\ status \in [Calls -> Statuses]
  /\ http \in [Calls -> BOOLEAN]
  /\ code \in [Calls -> Codes]
  /\ journal \in [Calls -> Journals]
  /\ told \in [Calls -> Certainties \cup {"nothing"}]
  /\ reached \in [Calls -> BOOLEAN]

\* It writes what belongs to the call, and nothing else.
Written(c) ==
  /\ Tables'
  /\ \A d \in Calls \ {c} :
       /\ at'[d] = at[d]
       /\ answered'[d] = answered[d]
       /\ status'[d] = status[d]
       /\ http'[d] = http[d]
       /\ code'[d] = code[d]
       /\ journal'[d] = journal[d]
       /\ told'[d] = told[d]
       /\ reached'[d] = reached[d]

\* It takes a permit, gives one back, or leaves them alone.
PermitMoved(c) ==
  \/ at[c] \notin Holding /\ at'[c] \in Holding /\ free > 0 /\ free' = free - 1
  \/ at[c] \in Holding /\ at'[c] \notin Holding /\ free' = free + 1
  \/ (at[c] \in Holding <=> at'[c] \in Holding) /\ free' = free

Ended(c, final, error, dispatched, known) ==
  /\ \E x \in {"released", "settled", "needs_reconciliation"} :
       /\ c \in Official => journal' = [journal EXCEPT ![c] = x]
       /\ c \notin Official => journal' = journal
       /\ x = "released" <=> ~dispatched
       /\ x = "settled" => known
  /\ status' = [status EXCEPT ![c] = final]
  /\ http' = [http EXCEPT ![c] = answered[c]]
  /\ code' = [code EXCEPT ![c] = error]

\* finish() gives the row one of three final states.
LEMMA FinishEnds ==
  ASSUME NEW c \in Calls, NEW final, NEW error, NEW dispatched \in BOOLEAN, NEW known \in BOOLEAN,
         Finish(c, final, error, dispatched, known)
  PROVE  Ended(c, final, error, dispatched, known)
BY DEF Finish, SettledAs, Ended

\* The step of one call keeps its properties.
LEMMA OwnStep ==
  ASSUME TypeOK, NEW c \in Calls, Good(c), Admit(c) \/ Serve(c) \/ Leave(c)
  PROVE  Written(c) /\ Good(c)' /\ PermitMoved(c)
<1>1. ASSUME Admit(c) PROVE Written(c) /\ Good(c)' /\ PermitMoved(c)
  <2>1. Written(c)
    BY <1>1 DEF Written, Tables, Admit, Goto, TypeOK, Places, Holding, Certainties, Statuses, Journals, Codes
  <2>2. PermitMoved(c)
    BY <1>1 DEF PermitMoved, Admit, Goto, Release, TypeOK, Holding, Cancellable
  <2>3. LocalInv(c)'
    BY <1>1 DEF Good, LocalInv, Admit, Goto, TypeOK, Serving, Cancellable
  <2>4. (Honest(c) /\ Agreeing(c) /\ Following(c))'
    BY <1>1 DEF LocalInv, Honest, Agreeing, Following, StatusCertainty, Good, Serving, Admit, Goto, TypeOK, Cancellable
  <2>5. QED BY <2>1, <2>2, <2>3, <2>4 DEF Good
<1>2. ASSUME RefuseCapability(c) PROVE Written(c) /\ Good(c)' /\ PermitMoved(c)
  <2>1. Written(c)
    BY <1>2 DEF Written, Tables, RefuseCapability, Tell, Goto, TypeOK, Places, Holding, Certainties, Statuses, Journals, Codes
  <2>2. PermitMoved(c)
    BY <1>2 DEF PermitMoved, RefuseCapability, Goto, Release, TypeOK, Holding, Cancellable
  <2>3. LocalInv(c)'
    BY <1>2 DEF Good, LocalInv, RefuseCapability, Tell, Goto, TypeOK, Serving, Cancellable
  <2>4. (Honest(c) /\ Agreeing(c) /\ Following(c))'
    BY <1>2 DEF LocalInv, Honest, Agreeing, Following, StatusCertainty, Good, Serving, RefuseCapability, Tell, Goto, TypeOK, Cancellable
  <2>5. QED BY <2>1, <2>2, <2>3, <2>4 DEF Good
<1>3. ASSUME BusyTimeout(c) PROVE Written(c) /\ Good(c)' /\ PermitMoved(c)
  <2>1. Ended(c, "failed", "unsent", FALSE, FALSE)
    BY <1>3, FinishEnds DEF BusyTimeout
  <2>2. Written(c)
    BY <2>1, <1>3 DEF Written, Tables, BusyTimeout, Ended, Tell, Goto, TypeOK, Places, Holding, Certainties, Statuses, Journals, Codes
  <2>3. PermitMoved(c)
    BY <1>3 DEF PermitMoved, BusyTimeout, Goto, Release, TypeOK, Holding, Cancellable
  <2>4. LocalInv(c)'
    BY <2>1, <1>3 DEF Good, LocalInv, BusyTimeout, Ended, Tell, Goto, TypeOK, Serving, Cancellable
  <2>5. (Honest(c) /\ Agreeing(c) /\ Following(c))'
    BY <2>1, <1>3 DEF LocalInv, Honest, Agreeing, Following, StatusCertainty, Good, Serving, BusyTimeout, Ended, Tell, Goto, TypeOK, Cancellable
  <2>6. QED BY <2>2, <2>3, <2>4, <2>5 DEF Good
<1>4. ASSUME Acquire(c) PROVE Written(c) /\ Good(c)' /\ PermitMoved(c)
  <2>1. Written(c)
    BY <1>4 DEF Written, Tables, Acquire, Goto, TypeOK, Places, Holding, Certainties, Statuses, Journals, Codes
  <2>2. PermitMoved(c)
    BY <1>4 DEF PermitMoved, Acquire, Goto, Release, TypeOK, Holding, Cancellable
  <2>3. LocalInv(c)'
    BY <1>4 DEF Good, LocalInv, Acquire, Goto, TypeOK, Serving, Cancellable
  <2>4. (Honest(c) /\ Agreeing(c) /\ Following(c))'
    BY <1>4 DEF LocalInv, Honest, Agreeing, Following, StatusCertainty, Good, Serving, Acquire, Goto, TypeOK, Cancellable
  <2>5. QED BY <2>1, <2>2, <2>3, <2>4 DEF Good
<1>5. ASSUME EncodingFails(c) PROVE Written(c) /\ Good(c)' /\ PermitMoved(c)
  <2>1. Ended(c, "failed", "other", FALSE, FALSE)
    BY <1>5, FinishEnds DEF EncodingFails
  <2>2. Written(c)
    BY <2>1, <1>5 DEF Written, Tables, EncodingFails, Ended, Tell, Goto, TypeOK, Places, Holding, Certainties, Statuses, Journals, Codes
  <2>3. PermitMoved(c)
    BY <1>5 DEF PermitMoved, EncodingFails, Goto, Release, TypeOK, Holding, Cancellable
  <2>4. LocalInv(c)'
    BY <2>1, <1>5 DEF Good, LocalInv, EncodingFails, Ended, Tell, Goto, TypeOK, Serving, Cancellable
  <2>5. (Honest(c) /\ Agreeing(c) /\ Following(c))'
    BY <2>1, <1>5 DEF LocalInv, Honest, Agreeing, Following, StatusCertainty, Good, Serving, EncodingFails, Ended, Tell, Goto, TypeOK, Cancellable
  <2>6. QED BY <2>2, <2>3, <2>4, <2>5 DEF Good
<1>6. ASSUME Transmit(c) PROVE Written(c) /\ Good(c)' /\ PermitMoved(c)
  <2>1. Written(c)
    BY <1>6 DEF Written, Tables, Transmit, Goto, TypeOK, Places, Holding, Certainties, Statuses, Journals, Codes
  <2>2. PermitMoved(c)
    BY <1>6 DEF PermitMoved, Transmit, Goto, Release, TypeOK, Holding, Cancellable
  <2>3. LocalInv(c)'
    BY <1>6 DEF Good, LocalInv, Transmit, Goto, TypeOK, Serving, Cancellable
  <2>4. (Honest(c) /\ Agreeing(c) /\ Following(c))'
    BY <1>6 DEF LocalInv, Honest, Agreeing, Following, StatusCertainty, Good, Serving, Transmit, Goto, TypeOK, Cancellable
  <2>5. QED BY <2>1, <2>2, <2>3, <2>4 DEF Good
<1>7. ASSUME ConnectFails(c) PROVE Written(c) /\ Good(c)' /\ PermitMoved(c)
  <2>1. Ended(c, "failed", "unsent", FALSE, FALSE)
    BY <1>7, FinishEnds DEF ConnectFails
  <2>2. Written(c)
    BY <2>1, <1>7 DEF Written, Tables, ConnectFails, Ended, Tell, Goto, TypeOK, Places, Holding, Certainties, Statuses, Journals, Codes
  <2>3. PermitMoved(c)
    BY <1>7 DEF PermitMoved, ConnectFails, Goto, Release, TypeOK, Holding, Cancellable
  <2>4. LocalInv(c)'
    BY <2>1, <1>7 DEF Good, LocalInv, ConnectFails, Ended, Tell, Goto, TypeOK, Serving, Cancellable
  <2>5. (Honest(c) /\ Agreeing(c) /\ Following(c))'
    BY <2>1, <1>7 DEF LocalInv, Honest, Agreeing, Following, StatusCertainty, Good, Serving, ConnectFails, Ended, Tell, Goto, TypeOK, Cancellable
  <2>6. QED BY <2>2, <2>3, <2>4, <2>5 DEF Good
<1>8. ASSUME WriteFails(c) PROVE Written(c) /\ Good(c)' /\ PermitMoved(c)
  <2>1. Ended(c, "failed", "other", TRUE, FALSE)
    BY <1>8, FinishEnds DEF WriteFails
  <2>2. Written(c)
    <3>1. reached' \in {reached, [reached EXCEPT ![c] = TRUE]}
      BY <1>8 DEF WriteFails
    <3>2. reached' \in [Calls -> BOOLEAN] /\ \A d \in Calls \ {c} : reached'[d] = reached[d]
      BY <3>1 DEF TypeOK
    <3>3. QED BY <3>2, <2>1, <1>8 DEF Written, Tables, WriteFails, Ended, Tell, Goto, TypeOK, Places, Holding, Certainties, Statuses, Journals, Codes
  <2>3. PermitMoved(c)
    BY <1>8 DEF PermitMoved, WriteFails, Goto, Release, TypeOK, Holding, Cancellable
  <2>4. LocalInv(c)'
    BY <2>1, <1>8 DEF Good, LocalInv, WriteFails, Ended, Tell, Goto, TypeOK, Serving, Cancellable
  <2>5. (Honest(c) /\ Agreeing(c) /\ Following(c))'
    BY <2>1, <1>8 DEF LocalInv, Honest, Agreeing, Following, StatusCertainty, Good, Serving, WriteFails, Ended, Tell, Goto, TypeOK, Cancellable
  <2>6. QED BY <2>2, <2>3, <2>4, <2>5 DEF Good
<1>9. ASSUME ReadFails(c) PROVE Written(c) /\ Good(c)' /\ PermitMoved(c)
  <2>1. Ended(c, "failed", "other", TRUE, FALSE)
    BY <1>9, FinishEnds DEF ReadFails
  <2>2. Written(c)
    BY <2>1, <1>9 DEF Written, Tables, ReadFails, Ended, Tell, Goto, TypeOK, Places, Holding, Certainties, Statuses, Journals, Codes
  <2>3. PermitMoved(c)
    BY <1>9 DEF PermitMoved, ReadFails, Goto, Release, TypeOK, Holding, Cancellable
  <2>4. LocalInv(c)'
    BY <2>1, <1>9 DEF Good, LocalInv, ReadFails, Ended, Tell, Goto, TypeOK, Serving, Cancellable
  <2>5. (Honest(c) /\ Agreeing(c) /\ Following(c))'
    BY <2>1, <1>9 DEF LocalInv, Honest, Agreeing, Following, StatusCertainty, Good, Serving, ReadFails, Ended, Tell, Goto, TypeOK, Cancellable
  <2>6. QED BY <2>2, <2>3, <2>4, <2>5 DEF Good
<1>10. ASSUME Answer(c) PROVE Written(c) /\ Good(c)' /\ PermitMoved(c)
  <2>1. Written(c)
    BY <1>10 DEF Written, Tables, Answer, Goto, TypeOK, Places, Holding, Certainties, Statuses, Journals, Codes
  <2>2. PermitMoved(c)
    BY <1>10 DEF PermitMoved, Answer, Goto, Release, TypeOK, Holding, Cancellable
  <2>3. LocalInv(c)'
    BY <1>10 DEF Good, LocalInv, Answer, Goto, TypeOK, Serving, Cancellable
  <2>4. (Honest(c) /\ Agreeing(c) /\ Following(c))'
    BY <1>10 DEF LocalInv, Honest, Agreeing, Following, StatusCertainty, Good, Serving, Answer, Goto, TypeOK, Cancellable
  <2>5. QED BY <2>1, <2>2, <2>3, <2>4 DEF Good
<1>11. ASSUME Refuse(c) PROVE Written(c) /\ Good(c)' /\ PermitMoved(c)
  <2>1. Ended(c, "failed", "other", TRUE, FALSE)
    BY <1>11, FinishEnds DEF Refuse
  <2>2. Written(c)
    BY <2>1, <1>11 DEF Written, Tables, Refuse, Ended, Tell, Goto, TypeOK, Places, Holding, Certainties, Statuses, Journals, Codes
  <2>3. PermitMoved(c)
    BY <1>11 DEF PermitMoved, Refuse, Goto, Release, TypeOK, Holding, Cancellable
  <2>4. LocalInv(c)'
    BY <2>1, <1>11 DEF Good, LocalInv, Refuse, Ended, Tell, Goto, TypeOK, Serving, Cancellable
  <2>5. (Honest(c) /\ Agreeing(c) /\ Following(c))'
    BY <2>1, <1>11 DEF LocalInv, Honest, Agreeing, Following, StatusCertainty, Good, Serving, Refuse, Ended, Tell, Goto, TypeOK, Cancellable
  <2>6. QED BY <2>2, <2>3, <2>4, <2>5 DEF Good
<1>12. ASSUME NEW final \in {"succeeded", "failed"}, NEW known \in BOOLEAN, EndBody(c, final, known) PROVE Written(c) /\ Good(c)' /\ PermitMoved(c)
  <2>1. Ended(c, final, IF final = "failed" THEN "other" ELSE "none", TRUE, known)
    BY <1>12, FinishEnds DEF EndBody
  <2>2. Written(c)
    BY <2>1, <1>12 DEF Written, Tables, EndBody, Ended, Tell, Goto, TypeOK, Places, Holding, Certainties, Statuses, Journals, Codes
  <2>3. PermitMoved(c)
    BY <1>12 DEF PermitMoved, EndBody, Goto, Release, TypeOK, Holding, Cancellable
  <2>4. LocalInv(c)'
    BY <2>1, <1>12 DEF Good, LocalInv, EndBody, Ended, Tell, Goto, TypeOK, Serving, Cancellable
  <2>5. (Honest(c) /\ Agreeing(c) /\ Following(c))'
    BY <2>1, <1>12 DEF LocalInv, Honest, Agreeing, Following, StatusCertainty, Good, Serving, EndBody, Ended, Tell, Goto, TypeOK, Cancellable
  <2>6. QED BY <2>2, <2>3, <2>4, <2>5 DEF Good
<1>13. ASSUME StartStream(c) PROVE Written(c) /\ Good(c)' /\ PermitMoved(c)
  <2>1. Written(c)
    BY <1>13 DEF Written, Tables, StartStream, Goto, TypeOK, Places, Holding, Certainties, Statuses, Journals, Codes
  <2>2. PermitMoved(c)
    BY <1>13 DEF PermitMoved, StartStream, Goto, Release, TypeOK, Holding, Cancellable
  <2>3. LocalInv(c)'
    BY <1>13 DEF Good, LocalInv, StartStream, Goto, TypeOK, Serving, Cancellable
  <2>4. (Honest(c) /\ Agreeing(c) /\ Following(c))'
    BY <1>13 DEF LocalInv, Honest, Agreeing, Following, StatusCertainty, Good, Serving, StartStream, Goto, TypeOK, Cancellable
  <2>5. QED BY <2>1, <2>2, <2>3, <2>4 DEF Good
<1>14. ASSUME NEW final \in {"succeeded", "failed"}, EndStream(c, final) PROVE Written(c) /\ Good(c)' /\ PermitMoved(c)
  <2>1. Ended(c, final, IF final = "failed" THEN "other" ELSE "none", TRUE, FALSE)
    BY <1>14, FinishEnds DEF EndStream
  <2>2. Written(c)
    BY <2>1, <1>14 DEF Written, Tables, EndStream, Ended, Goto, TypeOK, Places, Holding, Certainties, Statuses, Journals, Codes
  <2>3. PermitMoved(c)
    BY <1>14 DEF PermitMoved, EndStream, Goto, Release, TypeOK, Holding, Cancellable
  <2>4. LocalInv(c)'
    BY <2>1, <1>14 DEF Good, LocalInv, EndStream, Ended, Goto, TypeOK, Serving, Cancellable
  <2>5. (Honest(c) /\ Agreeing(c) /\ Following(c))'
    BY <2>1, <1>14 DEF LocalInv, Honest, Agreeing, Following, StatusCertainty, Good, Serving, EndStream, Ended, Goto, TypeOK, Cancellable
  <2>6. QED BY <2>2, <2>3, <2>4, <2>5 DEF Good
<1>15. ASSUME Close(c) PROVE Written(c) /\ Good(c)' /\ PermitMoved(c)
  <2>1. Written(c)
    BY <1>15 DEF Written, Tables, Close, Goto, TypeOK, Places, Holding, Certainties, Statuses, Journals, Codes
  <2>2. PermitMoved(c)
    BY <1>15 DEF PermitMoved, Close, Goto, Release, TypeOK, Holding, Cancellable
  <2>3. LocalInv(c)'
    BY <1>15 DEF Good, LocalInv, Close, Goto, TypeOK, Serving, Cancellable
  <2>4. (Honest(c) /\ Agreeing(c) /\ Following(c))'
    BY <1>15 DEF LocalInv, Honest, Agreeing, Following, StatusCertainty, Good, Serving, Close, Goto, TypeOK, Cancellable
  <2>5. QED BY <2>1, <2>2, <2>3, <2>4 DEF Good
<1>16. ASSUME Cancel(c) PROVE Written(c) /\ Good(c)' /\ PermitMoved(c)
  <2>1. Ended(c, "cancelled", "other", at[c] # "waiting", FALSE)
    BY <1>16, FinishEnds DEF Cancel
  <2>2. Written(c)
    <3>1. reached' \in {reached, [reached EXCEPT ![c] = TRUE]}
      BY <1>16 DEF Cancel
    <3>2. reached' \in [Calls -> BOOLEAN] /\ \A d \in Calls \ {c} : reached'[d] = reached[d]
      BY <3>1 DEF TypeOK
    <3>3. QED BY <3>2, <2>1, <1>16 DEF Written, Tables, Cancel, Ended, Goto, TypeOK, Places, Holding, Certainties, Statuses, Journals, Codes
  <2>3. PermitMoved(c)
    BY <1>16 DEF PermitMoved, Cancel, Goto, Release, TypeOK, Holding, Cancellable
  <2>4. LocalInv(c)'
    BY <2>1, <1>16 DEF Good, LocalInv, Cancel, Ended, Goto, TypeOK, Serving, Cancellable
  <2>5. (Honest(c) /\ Agreeing(c) /\ Following(c))'
    BY <2>1, <1>16 DEF LocalInv, Honest, Agreeing, Following, StatusCertainty, Good, Serving, Cancel, Ended, Goto, TypeOK, Cancellable
  <2>6. QED BY <2>2, <2>3, <2>4, <2>5 DEF Good
<1>17. ASSUME CancelStream(c) PROVE Written(c) /\ Good(c)' /\ PermitMoved(c)
  <2>1. Ended(c, "cancelled", "other", TRUE, FALSE)
    BY <1>17, FinishEnds DEF CancelStream
  <2>2. Written(c)
    BY <2>1, <1>17 DEF Written, Tables, CancelStream, Ended, Goto, TypeOK, Places, Holding, Certainties, Statuses, Journals, Codes
  <2>3. PermitMoved(c)
    BY <1>17 DEF PermitMoved, CancelStream, Goto, Release, TypeOK, Holding, Cancellable
  <2>4. LocalInv(c)'
    BY <2>1, <1>17 DEF Good, LocalInv, CancelStream, Ended, Goto, TypeOK, Serving, Cancellable
  <2>5. (Honest(c) /\ Agreeing(c) /\ Following(c))'
    BY <2>1, <1>17 DEF LocalInv, Honest, Agreeing, Following, StatusCertainty, Good, Serving, CancelStream, Ended, Goto, TypeOK, Cancellable
  <2>6. QED BY <2>2, <2>3, <2>4, <2>5 DEF Good
<1>18. ASSUME AbandonAtYield(c) PROVE Written(c) /\ Good(c)' /\ PermitMoved(c)
  <2>1. Written(c)
    BY <1>18 DEF Written, Tables, AbandonAtYield, Goto, TypeOK, Places, Holding, Certainties, Statuses, Journals, Codes
  <2>2. PermitMoved(c)
    BY <1>18 DEF PermitMoved, AbandonAtYield, Goto, Release, TypeOK, Holding, Cancellable
  <2>3. LocalInv(c)'
    BY <1>18 DEF Good, LocalInv, AbandonAtYield, Goto, TypeOK, Serving, Cancellable
  <2>4. (Honest(c) /\ Agreeing(c) /\ Following(c))'
    BY <1>18 DEF LocalInv, Honest, Agreeing, Following, StatusCertainty, Good, Serving, AbandonAtYield, Goto, TypeOK, Cancellable
  <2>5. QED BY <2>1, <2>2, <2>3, <2>4 DEF Good
<1>19. ASSUME AbandonUnstarted(c) PROVE Written(c) /\ Good(c)' /\ PermitMoved(c)
  <2>1. Written(c)
    BY <1>19 DEF Written, Tables, AbandonUnstarted, Goto, TypeOK, Places, Holding, Certainties, Statuses, Journals, Codes
  <2>2. PermitMoved(c)
    BY <1>19 DEF PermitMoved, AbandonUnstarted, Goto, Release, TypeOK, Holding, Cancellable
  <2>3. LocalInv(c)'
    BY <1>19 DEF Good, LocalInv, AbandonUnstarted, Goto, TypeOK, Serving, Cancellable
  <2>4. (Honest(c) /\ Agreeing(c) /\ Following(c))'
    BY <1>19 DEF LocalInv, Honest, Agreeing, Following, StatusCertainty, Good, Serving, AbandonUnstarted, Goto, TypeOK, Cancellable
  <2>5. QED BY <2>1, <2>2, <2>3, <2>4 DEF Good
<1>20. QED BY <1>1, <1>2, <1>3, <1>4, <1>5, <1>6, <1>7, <1>8, <1>9, <1>10, <1>11, <1>12, <1>13, <1>14, <1>15, <1>16, <1>17, <1>18, <1>19 DEF Serve, Leave

-----------------------------------------------------------------------------
(* Permits.                                                                *)

\* The permits of a step are those of its call.
LEMMA PermitsBalanced ==
  ASSUME TypeOK, SlotsBalanced, NEW c \in Calls, Written(c), PermitMoved(c)
  PROVE  SlotsBalanced' /\ free' \in 0..Slots
<1>1. IsFiniteSet(Holders) /\ Cardinality(Holders) \in Nat
  BY FS_Subset, FS_CardinalityType DEF Holders
<1>2. IsFiniteSet(Holders') /\ Cardinality(Holders') \in Nat
  BY FS_Subset, FS_CardinalityType DEF Holders
<1>3. free + Cardinality(Holders) = Slots /\ free \in Nat
  BY DEF SlotsBalanced, Holders, TypeOK
<1>4. free' + Cardinality(Holders') = Slots /\ free' \in Nat
  <2>1. CASE at[c] \notin Holding /\ at'[c] \in Holding /\ free > 0 /\ free' = free - 1
    <3>1. Holders' = Holders \cup {c} /\ c \notin Holders
      BY <2>1 DEF Holders, Written
    <3>2. Cardinality(Holders') = Cardinality(Holders) + 1
      BY <1>1, <3>1, FS_AddElement
    <3>3. QED BY <1>1, <1>3, <2>1, <3>2
  <2>2. CASE at[c] \in Holding /\ at'[c] \notin Holding /\ free' = free + 1
    <3>1. Holders' = Holders \ {c} /\ c \in Holders
      BY <2>2 DEF Holders, Written
    <3>2. Cardinality(Holders') = Cardinality(Holders) - 1
      BY <1>1, <3>1, FS_RemoveElement
    <3>3. QED BY <1>1, <1>3, <2>2, <3>2
  <2>3. CASE (at[c] \in Holding <=> at'[c] \in Holding) /\ free' = free
    <3>1. Holders' = Holders
      BY <2>3 DEF Holders, Written
    <3>2. QED BY <1>3, <2>3, <3>1
  <2>4. QED BY <2>1, <2>2, <2>3 DEF PermitMoved
<1>5. QED BY <1>2, <1>4 DEF SlotsBalanced, Holders

-----------------------------------------------------------------------------
(* The theorems.                                                           *)

\* The gateway starts with all its permits.
LEMMA InitInv == Init => GatewayInv
<1> SUFFICES ASSUME Init PROVE GatewayInv
  OBVIOUS
<1>1. TypeOK
  BY DEF Init, TypeOK, Places, Codes
<1>2. \A c \in Calls : Good(c)
  BY DEF Init, Good, LocalInv, Honest, Agreeing, Following, StatusCertainty, Serving
<1>3. Holders = {}
  BY DEF Init, Holders, Holding
<1>4. SlotsBalanced
  BY <1>3, FS_EmptySet DEF Init, SlotsBalanced, Holders
<1>5. QED BY <1>1, <1>2, <1>4 DEF GatewayInv

\* The step of a call leaves the other calls as they are.
LEMMA CallStep ==
  ASSUME GatewayInv, NEW c \in Calls, Admit(c) \/ Serve(c) \/ Leave(c)
  PROVE  GatewayInv'
<1>1. Written(c) /\ Good(c)' /\ PermitMoved(c)
  BY OwnStep DEF GatewayInv
<1>2. SlotsBalanced' /\ free' \in 0..Slots
  BY <1>1, PermitsBalanced DEF GatewayInv
<1>3. ASSUME NEW d \in Calls \ {c} PROVE Good(d)'
  BY <1>1, <1>3 DEF GatewayInv, Written, Good, LocalInv, Honest, Agreeing, Following, StatusCertainty
<1>4. TypeOK'
  BY <1>1, <1>2 DEF Written, Tables, TypeOK, Statuses, Journals, Codes
<1>5. QED BY <1>1, <1>2, <1>3, <1>4 DEF GatewayInv

\* A restart loses the calls under way and makes a new semaphore.
LEMMA RestartStep == GatewayInv /\ Restart => GatewayInv'
<1> SUFFICES ASSUME GatewayInv, Restart PROVE GatewayInv'
  OBVIOUS
<1>1. TypeOK'
  BY DEF GatewayInv, Restart, TypeOK, Places
<1>2. ASSUME NEW c \in Calls PROVE Good(c)'
  <2>1. at'[c] \in {"new", "done", "lost"} /\ (at'[c] = "new" => at[c] = "new")
    BY DEF Restart, GatewayInv, TypeOK
  <2>2. QED BY <2>1 DEF GatewayInv, Restart, Good, LocalInv, Honest, Agreeing, Following, StatusCertainty, Serving
<1>3. Holders' = {}
  BY DEF Holders, Holding, Restart
<1>4. SlotsBalanced'
  BY <1>3, FS_EmptySet DEF Restart, SlotsBalanced, Holders
<1>5. QED BY <1>1, <1>2, <1>4 DEF GatewayInv

\* The invariant holds in every state.
LEMMA InvAlways == Spec => []GatewayInv
<1>1. GatewayInv /\ [Next]_vars => GatewayInv'
  <2> SUFFICES ASSUME GatewayInv, [Next]_vars PROVE GatewayInv'
    OBVIOUS
  <2>1. CASE UNCHANGED vars
    BY <2>1 DEF vars, GatewayInv, TypeOK, SlotsBalanced, Good, LocalInv, Honest, Agreeing, Following, StatusCertainty
  <2>2. QED BY <2>1, CallStep, RestartStep DEF Next
<1>2. QED BY <1>1, InitInv, PTL DEF Spec

\* Coroutines, rows and answers keep their shape.
THEOREM GatewayTypeCorrect == Spec => []TypeOK
BY InvAlways, PTL DEF GatewayInv

\* Every way out of a call gives its permit back exactly once: never more than
\* Slots calls are forwarded at a time, and none of the permits is invented.
THEOREM PermitsConserved == Spec => []SlotsBalanced
BY InvAlways, PTL DEF GatewayInv

\* What the client is told of the dispatch, at once or later, is true.
THEOREM ToldTheTruth == Spec => []DispatchHonest
<1>1. GatewayInv => DispatchHonest
  BY DEF GatewayInv, Good, Honest, DispatchHonest
<1>2. QED BY <1>1, InvAlways, PTL

\* The status query repeats what the answer said.
THEOREM StatusRepeatsAnswer == Spec => []StatusAgreesWithAnswer
<1>1. GatewayInv => StatusAgreesWithAnswer
  BY DEF GatewayInv, Good, Agreeing, StatusAgreesWithAnswer
<1>2. QED BY <1>1, InvAlways, PTL

\* A finished call never leaves its journal row open, and nothing is charged
\* that the provider did not answer.
THEOREM JournalTracksCall == Spec => []JournalFollowsCall
<1>1. GatewayInv => JournalFollowsCall
  BY DEF GatewayInv, Good, Following, JournalFollowsCall
<1>2. QED BY <1>1, InvAlways, PTL

-----------------------------------------------------------------------------
(* Parameters: the operations on functions from names to values.           *)

ThinkingNames == {"thinking", "enable_thinking", "reasoning_effort"}
Sampling == {"temperature", "top_p", "presence_penalty", "frequency_penalty"}

\* f and g agree on a set of names.
SameOn(f, g, names) ==
  /\ DOMAIN f \cap names = DOMAIN g \cap names
  /\ \A name \in DOMAIN g \cap names : f[name] = g[name]

\* On these names f is what g and then h, above it, set.
Layered(f, g, h, names) ==
  /\ DOMAIN f \cap names = (DOMAIN g \cup DOMAIN h) \cap names
  /\ \A name \in DOMAIN f \cap names :
       f[name] = IF name \in DOMAIN h THEN h[name] ELSE g[name]

\* Put and Drop change the names they are given and no others.
LEMMA PutFacts ==
  ASSUME NEW f, NEW g
  PROVE  /\ DOMAIN Put(f, g) = DOMAIN f \cup DOMAIN g
         /\ \A name \in DOMAIN f \cup DOMAIN g :
              Put(f, g)[name] = IF name \in DOMAIN g THEN g[name] ELSE f[name]
  BY DEF Put

LEMMA DropFacts ==
  ASSUME NEW f, NEW names
  PROVE  /\ DOMAIN Drop(f, names) = DOMAIN f \ names
         /\ \A name \in DOMAIN f \ names : Drop(f, names)[name] = f[name]
<1>1. Drop(f, names) = [name \in DOMAIN f \ names |-> f[name]]
  BY DEF Drop, Restrict
<1> QED BY <1>1

LEMMA BudgetNames == Budgets = {"max_tokens", "max_completion_tokens", "max_output_tokens"}
<1>1. 1..3 = {1, 2, 3}
  OBVIOUS
<1> QED BY <1>1 DEF Budgets, BudgetOrder

-----------------------------------------------------------------------------
(* Budgets.                                                                *)

\* At most one budget, and a positive one.
OneBudget(f) ==
  /\ \A a, b \in DOMAIN f \cap Budgets : a = b
  /\ \A a \in DOMAIN f \cap Budgets : f[a] \in Nat \ {0}

\* The budget of f is no larger than the budget of the request.
Within(f, request) ==
  HasBudget(request) => HasBudget(f) /\ f[BudgetOf(f)] <= request[BudgetOf(request)]

LEMMA BudgetsFinite ==
  ASSUME NEW f
  PROVE  IsFiniteSet(DOMAIN f \cap Budgets)
<1>1. IsFiniteSet(Budgets)
  <2>1. IsFiniteSet({"max_tokens"})
    BY FS_Singleton
  <2>2. IsFiniteSet({"max_tokens"} \cup {"max_completion_tokens"})
    BY <2>1, FS_AddElement
  <2>3. IsFiniteSet(({"max_tokens"} \cup {"max_completion_tokens"}) \cup {"max_output_tokens"})
    BY <2>2, FS_AddElement
  <2>4. Budgets = ({"max_tokens"} \cup {"max_completion_tokens"}) \cup {"max_output_tokens"}
    BY BudgetNames
  <2> QED BY <2>3, <2>4
<1>2. DOMAIN f \cap Budgets \in SUBSET Budgets
  OBVIOUS
<1> QED BY <1>1, <1>2, FS_Subset

\* The validator of ModelParameters leaves one budget.
LEMMA LayerHasOneBudget ==
  ASSUME NEW f, Layer(f)
  PROVE  OneBudget(f)
<1> DEFINE S == DOMAIN f \cap Budgets
<1>1. IsFiniteSet(S) /\ Cardinality(S) \in Nat /\ Cardinality(S) <= 1
  BY BudgetsFinite, FS_CardinalityType DEF Layer, Valid
<1>2. S = {} \/ \E x : S = {x}
  <2>1. Cardinality(S) = 0 \/ Cardinality(S) = 1
    BY <1>1
  <2> QED BY <2>1, <1>1, FS_EmptySet, FS_Singleton
<1>3. \A a, b \in S : a = b
  BY <1>2
<1>4. \A a \in S : f[a] \in Nat \ {0}
  <2> SUFFICES ASSUME NEW a \in S PROVE f[a] \in Nat \ {0}
    OBVIOUS
  <2>1. f[a] \in Values[a]
    BY DEF Layer
  <2>2. a \in {"max_tokens", "max_completion_tokens", "max_output_tokens"}
    BY BudgetNames
  <2>3. Values["max_tokens"] = 1..BudgetLimit /\ Values["max_completion_tokens"] = 1..BudgetLimit
        /\ Values["max_output_tokens"] = 1..BudgetLimit
    BY DEF Values
  <2>4. 1..BudgetLimit \subseteq Nat \ {0}
    BY ParametersAssumption
  <2> QED BY <2>1, <2>2, <2>3, <2>4
<1> QED BY <1>3, <1>4 DEF OneBudget

LEMMA BudgetOfFacts ==
  ASSUME NEW f, HasBudget(f)
  PROVE  BudgetOf(f) \in DOMAIN f \cap Budgets
<1> DEFINE First(i) == BudgetOrder[i] \in DOMAIN f /\ \A j \in 1..(i - 1) : BudgetOrder[j] \notin DOMAIN f
<1>1. \E i \in 1..3 : First(i)
  <2>1. BudgetOrder[1] = "max_tokens" /\ BudgetOrder[2] = "max_completion_tokens"
        /\ BudgetOrder[3] = "max_output_tokens"
    BY DEF BudgetOrder
  <2>2. BudgetOrder[1] \in DOMAIN f \/ BudgetOrder[2] \in DOMAIN f \/ BudgetOrder[3] \in DOMAIN f
    BY <2>1, BudgetNames DEF HasBudget
  <2>3. CASE BudgetOrder[1] \in DOMAIN f
    BY <2>3
  <2>4. CASE BudgetOrder[1] \notin DOMAIN f /\ BudgetOrder[2] \in DOMAIN f
    <3>1. 1..(2 - 1) = {1}
      OBVIOUS
    <3> QED BY <2>4, <3>1
  <2>5. CASE BudgetOrder[1] \notin DOMAIN f /\ BudgetOrder[2] \notin DOMAIN f /\ BudgetOrder[3] \in DOMAIN f
    <3>1. 1..(3 - 1) = {1, 2}
      OBVIOUS
    <3> QED BY <2>5, <3>1
  <2> QED BY <2>2, <2>3, <2>4, <2>5
<1> DEFINE k == CHOOSE i \in 1..3 : First(i)
<1>2. k \in 1..3 /\ First(k)
  BY <1>1
<1>3. BudgetOf(f) = BudgetOrder[k]
  BY DEF BudgetOf
<1> HIDE DEF k
<1> QED BY <1>2, <1>3 DEF Budgets

\* A name of a budget that is set is the name of the budget.
LEMMA TheBudget ==
  ASSUME NEW f, OneBudget(f), NEW a \in DOMAIN f \cap Budgets
  PROVE  HasBudget(f) /\ BudgetOf(f) = a
<1>1. HasBudget(f)
  BY DEF HasBudget
<1> QED BY <1>1, BudgetOfFacts DEF OneBudget

LEMMA BudgetIsNat ==
  ASSUME NEW f, OneBudget(f), HasBudget(f)
  PROVE  f[BudgetOf(f)] \in Nat \ {0}
BY BudgetOfFacts DEF OneBudget

\* What is one budget is counted as one.
LEMMA OneIsOne ==
  ASSUME NEW f, OneBudget(f), HasBudget(f)
  PROVE  Cardinality(DOMAIN f \cap Budgets) = 1
<1>1. DOMAIN f \cap Budgets = {BudgetOf(f)}
  BY BudgetOfFacts, TheBudget
<1> QED BY <1>1, FS_Singleton

\* A function with the budgets of another has its budget.
LEMMA SameBudgets ==
  ASSUME NEW f, NEW g, OneBudget(g), SameOn(f, g, Budgets)
  PROVE  /\ OneBudget(f)
         /\ HasBudget(f) <=> HasBudget(g)
         /\ HasBudget(g) => BudgetOf(f) = BudgetOf(g) /\ f[BudgetOf(f)] = g[BudgetOf(g)]
<1>1. OneBudget(f)
  BY DEF SameOn, OneBudget
<1>2. HasBudget(f) <=> HasBudget(g)
  BY DEF SameOn, HasBudget
<1>3. ASSUME HasBudget(g) PROVE BudgetOf(f) = BudgetOf(g) /\ f[BudgetOf(f)] = g[BudgetOf(g)]
  <2>1. BudgetOf(g) \in DOMAIN g \cap Budgets
    BY <1>3, BudgetOfFacts
  <2>2. BudgetOf(g) \in DOMAIN f \cap Budgets /\ f[BudgetOf(g)] = g[BudgetOf(g)]
    BY <2>1 DEF SameOn
  <2> QED BY <1>1, <2>2, TheBudget
<1> QED BY <1>1, <1>2, <1>3

-----------------------------------------------------------------------------
(* merge_parameters, preserve_output_ceiling and the aliases.              *)

\* Outside the budgets a layer is put over the ones below; with the budgets,
\* it replaces theirs.
LEMMA MergeFacts ==
  ASSUME NEW f, NEW g, OneBudget(f), OneBudget(g)
  PROVE  /\ \A names : names \cap Budgets = {} => Layered(Merge(f, g), f, g, names)
         /\ OneBudget(Merge(f, g))
         /\ HasBudget(Merge(f, g)) <=> HasBudget(f) \/ HasBudget(g)
         /\ DOMAIN Merge(f, g) \subseteq DOMAIN f \cup DOMAIN g
<1> DEFINE base == IF DOMAIN g \cap Budgets = {} THEN f ELSE Drop(f, Budgets)
<1>0. Merge(f, g) = Put(base, g)
  BY DEF Merge
<1>1. /\ DOMAIN base \subseteq DOMAIN f
      /\ DOMAIN f \ Budgets \subseteq DOMAIN base
      /\ \A name \in DOMAIN base : base[name] = f[name]
      /\ DOMAIN g \cap Budgets = {} => DOMAIN base = DOMAIN f
      /\ DOMAIN g \cap Budgets # {} => DOMAIN base \cap Budgets = {}
  <2>1. CASE DOMAIN g \cap Budgets = {}
    BY <2>1
  <2>2. CASE DOMAIN g \cap Budgets # {}
    <3>1. base = Drop(f, Budgets)
      BY <2>2
    <3>2. DOMAIN base = DOMAIN f \ Budgets /\ \A name \in DOMAIN f \ Budgets : base[name] = f[name]
      <4> HIDE DEF base
      <4> QED BY <3>1 DEF Drop, Restrict
    <3> HIDE DEF base
    <3> QED BY <2>2, <3>2
  <2> QED BY <2>1, <2>2
<1> HIDE DEF base
<1>2. /\ DOMAIN Merge(f, g) = DOMAIN base \cup DOMAIN g
      /\ \A name \in DOMAIN base \cup DOMAIN g :
           Merge(f, g)[name] = IF name \in DOMAIN g THEN g[name] ELSE base[name]
  BY <1>0 DEF Put
<1>3. ASSUME NEW names, names \cap Budgets = {} PROVE Layered(Merge(f, g), f, g, names)
  BY <1>1, <1>2, <1>3 DEF Layered
<1>4. OneBudget(Merge(f, g)) /\ (HasBudget(Merge(f, g)) <=> HasBudget(f) \/ HasBudget(g))
  <2>1. CASE DOMAIN g \cap Budgets = {}
    <3>1. SameOn(Merge(f, g), f, Budgets)
      BY <2>1, <1>1, <1>2 DEF SameOn
    <3> QED BY <3>1, <2>1, SameBudgets DEF HasBudget
  <2>2. CASE DOMAIN g \cap Budgets # {}
    <3>1. SameOn(Merge(f, g), g, Budgets)
      BY <2>2, <1>1, <1>2 DEF SameOn
    <3> QED BY <3>1, <2>2, SameBudgets DEF HasBudget
  <2> QED BY <2>1, <2>2
<1> QED BY <1>1, <1>2, <1>3, <1>4

\* preserve_output_ceiling lowers the budget and nothing else.
LEMMA CappedFacts ==
  ASSUME NEW f, NEW request, OneBudget(f), OneBudget(request), HasBudget(request) => HasBudget(f)
  PROVE  /\ DOMAIN Capped(f, request) = DOMAIN f
         /\ \A name \in DOMAIN f \ Budgets : Capped(f, request)[name] = f[name]
         /\ OneBudget(Capped(f, request))
         /\ HasBudget(Capped(f, request)) <=> HasBudget(f)
         /\ Within(Capped(f, request), request)
<1> DEFINE m == Capped(f, request)
           a == BudgetOf(f)
           q == request[BudgetOf(request)]
           lowers == HasBudget(f) /\ HasBudget(request) /\ f[a] > q
<1>1. m = IF lowers THEN [f EXCEPT ![a] = q] ELSE f
  BY DEF Capped
<1>2. HasBudget(f) => a \in DOMAIN f \cap Budgets /\ f[a] \in Nat \ {0}
  BY BudgetOfFacts, BudgetIsNat
<1>3. HasBudget(request) => q \in Nat \ {0}
  BY BudgetIsNat
<1> HIDE DEF m, a, q
<1>4. DOMAIN m = DOMAIN f /\ \A name \in DOMAIN f : m[name] = IF lowers /\ name = a THEN q ELSE f[name]
  BY <1>1
<1>5. \A name \in DOMAIN f \ Budgets : m[name] = f[name]
  BY <1>2, <1>4
<1>6. OneBudget(m)
  BY <1>2, <1>3, <1>4 DEF OneBudget
<1>7. HasBudget(m) <=> HasBudget(f)
  BY <1>4 DEF HasBudget
<1>8. Within(m, request)
  <2> SUFFICES ASSUME HasBudget(request) PROVE HasBudget(m) /\ m[BudgetOf(m)] <= request[BudgetOf(request)]
    BY DEF Within
  <2>1. HasBudget(m) /\ BudgetOf(m) = a
    BY <1>2, <1>4, <1>6, TheBudget
  <2>2. m[a] <= q
    <3>1. CASE lowers
      BY <3>1, <1>2, <1>3, <1>4
    <3>2. CASE ~lowers
      BY <3>2, <1>2, <1>3, <1>4
    <3> QED BY <3>1, <3>2
  <2> QED BY <2>1, <2>2 DEF q
<1> QED BY <1>4, <1>5, <1>6, <1>7, <1>8 DEF m

-----------------------------------------------------------------------------
(* Thinking: its aliases and their precedence.                             *)

\* Thinking is said in one way.
Canonised(f) ==
  /\ "enable_thinking" \notin DOMAIN f
  /\ "thinking" \in DOMAIN f => f.thinking \in {"on", "off"}

Silent(layer) == ~Says(layer, "on") /\ ~Says(layer, "off")

\* What a layer may say about thinking.
LEMMA LayerThinking ==
  ASSUME NEW f, Layer(f)
  PROVE  /\ \A name \in {"thinking", "enable_thinking"} \cap DOMAIN f : f[name] \in {"on", "off"}
         /\ "reasoning_effort" \in DOMAIN f => f.reasoning_effort \in {"none", "medium", "high"}
         /\ {"thinking", "enable_thinking"} \subseteq DOMAIN f => f.thinking = f.enable_thinking
<1>1. Values["thinking"] = {"on", "off"} /\ Values["enable_thinking"] = {"on", "off"}
      /\ Values["reasoning_effort"] = {"none", "medium", "high"}
  BY DEF Values
<1> QED BY <1>1 DEF Layer, Valid

LEMMA OneFact ==
  ASSUME NEW name, NEW v
  PROVE  /\ DOMAIN [x \in {name} |-> v] = {name}
         /\ [x \in {name} |-> v][name] = v
OBVIOUS

LEMMA ThinkingFact ==
  ASSUME NEW v
  PROVE  /\ DOMAIN [thinking |-> v] = {"thinking"} /\ [thinking |-> v]["thinking"] = v
         /\ DOMAIN [enable_thinking |-> v] = {"enable_thinking"}
         /\ [enable_thinking |-> v]["enable_thinking"] = v
OBVIOUS

\* The canonical form of a layer says of thinking what the layer says, and
\* nothing else about the other names.
LEMMA CanonicalFacts ==
  ASSUME NEW l, Layer(l)
  PROVE  /\ \A names : names \cap {"thinking", "enable_thinking"} = {}
                         => SameOn(Canonical(l), l, names)
         /\ Canonised(Canonical(l))
         /\ \A mode \in {"on", "off"} : Has(Canonical(l), "thinking", {mode}) <=> Says(l, mode)
         /\ "thinking" \in DOMAIN Canonical(l) <=> ~Silent(l)
<1> DEFINE f == IF "enable_thinking" \in DOMAIN l
                  THEN Put(Drop(l, {"enable_thinking"}), [thinking |-> l.enable_thinking])
                  ELSE l
           implied == "reasoning_effort" \in DOMAIN f /\ "thinking" \notin DOMAIN f
           c == Canonical(l)
<1>0. /\ implied => c = Put(f, [thinking |-> IF f.reasoning_effort = "none" THEN "off" ELSE "on"])
      /\ ~implied => c = f
  BY DEF Canonical
<1>1. /\ DOMAIN f \ {"thinking", "enable_thinking"} = DOMAIN l \ {"thinking", "enable_thinking"}
      /\ \A name \in DOMAIN l \ {"thinking", "enable_thinking"} : f[name] = l[name]
      /\ "enable_thinking" \notin DOMAIN f
      /\ "thinking" \in DOMAIN f <=> "thinking" \in DOMAIN l \/ "enable_thinking" \in DOMAIN l
      /\ "enable_thinking" \in DOMAIN l => f["thinking"] = l["enable_thinking"]
      /\ "enable_thinking" \notin DOMAIN l => f = l
  <2>1. CASE "enable_thinking" \in DOMAIN l
    <3> DEFINE d == Drop(l, {"enable_thinking"})
               t == [thinking |-> l.enable_thinking]
    <3>1. f = Put(d, t)
      BY <2>1
    <3>2. DOMAIN d = DOMAIN l \ {"enable_thinking"} /\ \A name \in DOMAIN d : d[name] = l[name]
      BY DEF Drop, Restrict
    <3>3. DOMAIN t = {"thinking"} /\ t["thinking"] = l["enable_thinking"]
      BY ThinkingFact
    <3> HIDE DEF f, d, t
    <3>4. DOMAIN f = DOMAIN d \cup DOMAIN t
          /\ \A name \in DOMAIN d \cup DOMAIN t : f[name] = IF name \in DOMAIN t THEN t[name] ELSE d[name]
      BY <3>1, PutFacts
    <3> QED BY <2>1, <3>2, <3>3, <3>4
  <2>2. CASE "enable_thinking" \notin DOMAIN l
    BY <2>2
  <2> QED BY <2>1, <2>2
<1> HIDE DEF f
<1>2. /\ DOMAIN c \ {"thinking"} = DOMAIN f \ {"thinking"}
      /\ \A name \in DOMAIN f \ {"thinking"} : c[name] = f[name]
      /\ "thinking" \in DOMAIN c <=> "thinking" \in DOMAIN f \/ "reasoning_effort" \in DOMAIN f
      /\ "thinking" \in DOMAIN f => c["thinking"] = f["thinking"]
      /\ implied => c["thinking"] = IF f["reasoning_effort"] = "none" THEN "off" ELSE "on"
  <2>1. CASE implied
    <3> DEFINE t == [thinking |-> IF f.reasoning_effort = "none" THEN "off" ELSE "on"]
    <3>1. c = Put(f, t)
      BY <1>0, <2>1
    <3>2. DOMAIN t = {"thinking"} /\ t["thinking"] = IF f["reasoning_effort"] = "none" THEN "off" ELSE "on"
      BY ThinkingFact
    <3> HIDE DEF c, t
    <3>3. DOMAIN c = DOMAIN f \cup DOMAIN t
          /\ \A name \in DOMAIN f \cup DOMAIN t : c[name] = IF name \in DOMAIN t THEN t[name] ELSE f[name]
      BY <3>1, PutFacts
    <3> QED BY <2>1, <3>2, <3>3
  <2>2. CASE ~implied
    <3> HIDE DEF c
    <3> QED BY <2>2, <1>0
  <2> QED BY <2>1, <2>2
<1> HIDE DEF c
<1>3. /\ \A name \in {"thinking", "enable_thinking"} \cap DOMAIN l : l[name] \in {"on", "off"}
      /\ "reasoning_effort" \in DOMAIN l => l["reasoning_effort"] \in {"none", "medium", "high"}
      /\ {"thinking", "enable_thinking"} \subseteq DOMAIN l => l["thinking"] = l["enable_thinking"]
  BY LayerThinking
<1>4. ASSUME NEW names, names \cap {"thinking", "enable_thinking"} = {} PROVE SameOn(c, l, names)
  BY <1>4, <1>1, <1>2 DEF SameOn
<1>5. "thinking" \in DOMAIN c => c["thinking"] \in {"on", "off"}
  BY <1>1, <1>2, <1>3
<1>6. Canonised(c)
  BY <1>1, <1>2, <1>5 DEF Canonised
<1>7. ASSUME NEW mode \in {"on", "off"} PROVE Has(c, "thinking", {mode}) <=> Says(l, mode)
  <2>1. CASE "thinking" \in DOMAIN l \/ "enable_thinking" \in DOMAIN l
    <3>1. "thinking" \in DOMAIN c
          /\ c["thinking"] = IF "enable_thinking" \in DOMAIN l THEN l["enable_thinking"] ELSE l["thinking"]
      BY <2>1, <1>1, <1>2
    <3> QED BY <2>1, <3>1, <1>3 DEF Has, Says
  <2>2. CASE "thinking" \notin DOMAIN l /\ "enable_thinking" \notin DOMAIN l
    <3>1. /\ "thinking" \in DOMAIN c <=> "reasoning_effort" \in DOMAIN l
          /\ "reasoning_effort" \in DOMAIN l
               => c["thinking"] = IF l["reasoning_effort"] = "none" THEN "off" ELSE "on"
      BY <2>2, <1>1, <1>2
    <3> QED BY <2>2, <3>1, <1>3 DEF Has, Says
  <2> QED BY <2>1, <2>2
<1>8. "thinking" \in DOMAIN c <=> ~Silent(l)
  BY <1>5, <1>7 DEF Has, Silent
<1> QED BY <1>4, <1>6, <1>7, <1>8 DEF c

\* A layer over canonical parameters: the one that says so decides.
LEMMA MergeCanonicalFacts ==
  ASSUME NEW f, NEW l, OneBudget(f), Canonised(f), Layer(l)
  PROVE  /\ Layered(MergeCanonical(f, l), f, l, Sampling)
         /\ OneBudget(MergeCanonical(f, l))
         /\ HasBudget(MergeCanonical(f, l)) <=> HasBudget(f) \/ HasBudget(l)
         /\ Canonised(MergeCanonical(f, l))
         /\ \A mode \in {"on", "off"} :
              Has(MergeCanonical(f, l), "thinking", {mode})
                <=> Says(l, mode) \/ (Silent(l) /\ Has(f, "thinking", {mode}))
<1> DEFINE g == Canonical(l)
           switches == "thinking" \in DOMAIN g /\ "reasoning_effort" \notin DOMAIN g
           base == IF switches THEN Drop(f, {"reasoning_effort"}) ELSE f
           m == MergeCanonical(f, l)
<1>0. m = Merge(base, g)
  BY DEF MergeCanonical
<1>1. /\ DOMAIN base \ {"reasoning_effort"} = DOMAIN f \ {"reasoning_effort"}
      /\ \A name \in DOMAIN f \ {"reasoning_effort"} : base[name] = f[name]
  <2>1. CASE switches
    <3>1. base = Drop(f, {"reasoning_effort"})
      BY <2>1
    <3> HIDE DEF base
    <3> QED BY <3>1, DropFacts
  <2>2. CASE ~switches
    BY <2>2
  <2> QED BY <2>1, <2>2
<1>2. /\ \A names : names \cap {"thinking", "enable_thinking"} = {} => SameOn(g, l, names)
      /\ Canonised(g)
      /\ \A mode \in {"on", "off"} : Has(g, "thinking", {mode}) <=> Says(l, mode)
      /\ "thinking" \in DOMAIN g <=> ~Silent(l)
  BY CanonicalFacts
<1> HIDE DEF base, g, m
<1>3. SameOn(base, f, Budgets) /\ SameOn(base, f, Sampling)
  BY <1>1, BudgetNames DEF SameOn, Sampling
<1>4. SameOn(g, l, Budgets) /\ SameOn(g, l, Sampling)
  BY <1>2, BudgetNames DEF Sampling
<1>5. /\ OneBudget(base) /\ (HasBudget(base) <=> HasBudget(f))
      /\ OneBudget(g) /\ (HasBudget(g) <=> HasBudget(l))
  BY <1>3, <1>4, SameBudgets, LayerHasOneBudget
<1>6. /\ \A names : names \cap Budgets = {} => Layered(m, base, g, names)
      /\ OneBudget(m)
      /\ HasBudget(m) <=> HasBudget(base) \/ HasBudget(g)
  BY <1>0, <1>5, MergeFacts
<1>7. Layered(m, f, l, Sampling)
  <2>1. Layered(m, base, g, Sampling)
    BY <1>6, BudgetNames DEF Sampling
  <2> QED BY <2>1, <1>3, <1>4 DEF Layered, SameOn
<1>8. Layered(m, base, g, {"thinking", "enable_thinking"})
  BY <1>6, BudgetNames
<1>9. Canonised(m)
  BY <1>8, <1>1, <1>2 DEF Layered, Canonised
<1>10. ASSUME NEW mode \in {"on", "off"}
       PROVE  Has(m, "thinking", {mode}) <=> Says(l, mode) \/ (Silent(l) /\ Has(f, "thinking", {mode}))
  <2>1. CASE Silent(l)
    <3>1. "thinking" \notin DOMAIN g /\ ~Says(l, mode)
      BY <2>1, <1>2 DEF Silent
    <3> QED BY <2>1, <3>1, <1>8, <1>1 DEF Layered, Has
  <2>2. CASE ~Silent(l)
    <3>1. "thinking" \in DOMAIN g
      BY <2>2, <1>2
    <3>2. "thinking" \in DOMAIN m /\ m["thinking"] = g["thinking"]
      BY <3>1, <1>8 DEF Layered
    <3> QED BY <2>2, <3>1, <3>2, <1>2 DEF Has
  <2> QED BY <2>1, <2>2
<1> QED BY <1>5, <1>6, <1>7, <1>9, <1>10 DEF m

-----------------------------------------------------------------------------
(* resolve_parameters: three layers, and the preset's own names.           *)

\* What the caller set is kept, with the caller's value or the route's.
KeepsExplicit(f, request, overrides) ==
  \A name \in Sampling \cap DOMAIN request :
    /\ name \in DOMAIN f
    /\ f[name] = IF name \in DOMAIN overrides THEN overrides[name] ELSE request[name]

\* The uppermost layer that says so decides whether f thinks.
Decided(f, base, defaults, request, overrides) ==
  \A mode \in {"on", "off"} :
    Has(f, "thinking", {mode})
      <=> \/ Says(overrides, mode)
          \/ /\ Silent(overrides)
             /\ \/ Says(request, mode)
                \/ /\ Silent(request)
                   /\ \/ Says(defaults, mode)
                      \/ Silent(defaults) /\ Has(base, "thinking", {mode})

LEMMA PlainFacts ==
  ASSUME NEW d, NEW q, NEW o, Layer(d), Layer(q), Layer(o), NEW f,
         f = Capped(Merge(Merge(d, q), o), q)
  PROVE  /\ OneBudget(f)
         /\ DOMAIN f \subseteq DOMAIN d \cup DOMAIN q \cup DOMAIN o
         /\ Within(f, q)
         /\ KeepsExplicit(f, q, o)
<1> DEFINE m1 == Merge(d, q)
           m2 == Merge(m1, o)
<1>1. OneBudget(d) /\ OneBudget(q) /\ OneBudget(o)
  BY LayerHasOneBudget
<1>2. /\ Layered(m1, d, q, Sampling)
      /\ OneBudget(m1) /\ (HasBudget(m1) <=> HasBudget(d) \/ HasBudget(q))
      /\ DOMAIN m1 \subseteq DOMAIN d \cup DOMAIN q
  BY <1>1, MergeFacts, BudgetNames DEF Sampling
<1>3. f = Capped(m2, q)
  OBVIOUS
<1> HIDE DEF m1
<1>4. /\ Layered(m2, m1, o, Sampling)
      /\ OneBudget(m2) /\ (HasBudget(m2) <=> HasBudget(m1) \/ HasBudget(o))
      /\ DOMAIN m2 \subseteq DOMAIN m1 \cup DOMAIN o
  BY <1>1, <1>2, MergeFacts, BudgetNames DEF Sampling
<1> HIDE DEF m2
<1>5. /\ DOMAIN f = DOMAIN m2
      /\ \A name \in DOMAIN m2 \ Budgets : f[name] = m2[name]
      /\ OneBudget(f)
      /\ Within(f, q)
  BY <1>1, <1>2, <1>3, <1>4, CappedFacts
<1>6. KeepsExplicit(f, q, o)
  BY <1>2, <1>4, <1>5, BudgetNames DEF KeepsExplicit, Layered, Sampling
<1> QED BY <1>2, <1>4, <1>5, <1>6

LEMMA PresetDefaultsFacts ==
  ASSUME NEW preset
  PROVE  /\ OneBudget(PresetDefaults(preset))
         /\ Canonised(PresetDefaults(preset))
         /\ preset \in {Qwen, DeepSeek} => Has(PresetDefaults(preset), "thinking", {"off"})
         /\ \A mode \in {"on", "off"} :
              Says(PresetDefaults(preset), mode) <=> Has(PresetDefaults(preset), "thinking", {mode})
<1> DEFINE f == PresetDefaults(preset)
<1>1. DOMAIN Empty = {}
  BY DEF Empty
<1>2. \/ DOMAIN f = {"thinking"} /\ f["thinking"] = "off"
      \/ DOMAIN f = {} /\ preset \notin {Qwen, DeepSeek}
  BY <1>1, ThinkingFact DEF PresetDefaults
<1> HIDE DEF f
<1>3. OneBudget(f)
  BY <1>2, BudgetNames DEF OneBudget
<1>4. Canonised(f)
  BY <1>2 DEF Canonised
<1> QED BY <1>2, <1>3, <1>4 DEF Has, Says, f

LEMMA PresetFacts ==
  ASSUME NEW preset, NEW d, NEW q, NEW o, Layer(d), Layer(q), Layer(o), NEW f,
         f = Capped(MergeCanonical(MergeCanonical(MergeCanonical(
               PresetDefaults(preset), d), q), o), q)
  PROVE  /\ OneBudget(f)
         /\ Within(f, q)
         /\ KeepsExplicit(f, q, o)
         /\ Canonised(f)
         /\ Decided(f, PresetDefaults(preset), d, q, o)
<1> DEFINE m0 == PresetDefaults(preset)
           m1 == MergeCanonical(m0, d)
           m2 == MergeCanonical(m1, q)
           m3 == MergeCanonical(m2, o)
<1>1. OneBudget(q) /\ OneBudget(m0) /\ Canonised(m0)
  BY LayerHasOneBudget, PresetDefaultsFacts
<1>2. f = Capped(m3, q)
  OBVIOUS
<1> HIDE DEF m0
<1>3. /\ OneBudget(m1) /\ Canonised(m1)
      /\ \A mode \in {"on", "off"} :
           Has(m1, "thinking", {mode}) <=> Says(d, mode) \/ (Silent(d) /\ Has(m0, "thinking", {mode}))
  BY <1>1, MergeCanonicalFacts
<1> HIDE DEF m1
<1>4. /\ Layered(m2, m1, q, Sampling)
      /\ OneBudget(m2) /\ Canonised(m2) /\ (HasBudget(m2) <=> HasBudget(m1) \/ HasBudget(q))
      /\ \A mode \in {"on", "off"} :
           Has(m2, "thinking", {mode}) <=> Says(q, mode) \/ (Silent(q) /\ Has(m1, "thinking", {mode}))
  BY <1>3, MergeCanonicalFacts
<1> HIDE DEF m2
<1>5. /\ Layered(m3, m2, o, Sampling)
      /\ OneBudget(m3) /\ Canonised(m3) /\ (HasBudget(m3) <=> HasBudget(m2) \/ HasBudget(o))
      /\ \A mode \in {"on", "off"} :
           Has(m3, "thinking", {mode}) <=> Says(o, mode) \/ (Silent(o) /\ Has(m2, "thinking", {mode}))
  BY <1>4, MergeCanonicalFacts
<1> HIDE DEF m3
<1>6. /\ DOMAIN f = DOMAIN m3
      /\ \A name \in DOMAIN m3 \ Budgets : f[name] = m3[name]
      /\ OneBudget(f)
      /\ Within(f, q)
  BY <1>1, <1>2, <1>4, <1>5, CappedFacts
<1>7. KeepsExplicit(f, q, o)
  BY <1>4, <1>5, <1>6, BudgetNames DEF KeepsExplicit, Layered, Sampling
<1>8. SameOn(f, m3, {"thinking", "enable_thinking"})
  BY <1>6, BudgetNames DEF SameOn
<1>9. Canonised(f)
  BY <1>5, <1>8 DEF Canonised, SameOn
<1>10. Decided(f, m0, d, q, o)
  <2>1. \A mode \in {"on", "off"} : Has(f, "thinking", {mode}) <=> Has(m3, "thinking", {mode})
    BY <1>8 DEF Has, SameOn
  <2> QED BY <2>1, <1>3, <1>4, <1>5 DEF Decided
<1> QED BY <1>6, <1>7, <1>9, <1>10 DEF m0

Presets == {Custom, Qwen, OpenAI, DeepSeek}

LEMMA PresetNames ==
  /\ Custom \notin {Qwen, OpenAI, DeepSeek}
  /\ Qwen # OpenAI /\ Qwen # DeepSeek /\ OpenAI # DeepSeek
BY DEF Custom, Qwen, OpenAI, DeepSeek

\* The preset's own names: the budget goes by the preset's name, and what the
\* preset takes keeps its value.
LEMMA AdaptedFacts ==
  ASSUME NEW preset \in {Qwen, OpenAI, DeepSeek}, NEW f, OneBudget(f), Canonised(f), NEW p,
         p = Adapted(preset, f)
  PROVE  /\ OneBudget(p)
         /\ DOMAIN p \cap Budgets \subseteq {TokenField(preset)}
         /\ HasBudget(f) => HasBudget(p) /\ p[BudgetOf(p)] = f[BudgetOf(f)]
         /\ \A name \in Sampling \cap DOMAIN f :
              \/ name \in DOMAIN p /\ p[name] = f[name]
              \/ preset = DeepSeek /\ name \in IgnoredByDeepSeek(f)
         /\ preset = Qwen =>
              /\ "thinking" \notin DOMAIN p
              /\ "enable_thinking" \in DOMAIN p
              /\ p["enable_thinking"] = IF Thinks(f) THEN "on" ELSE "off"
         /\ preset = DeepSeek => "enable_thinking" \notin DOMAIN p /\ SameOn(p, f, {"thinking"})
<1> DEFINE field == TokenField(preset)
           g == IF HasBudget(f)
                  THEN Put(Drop(f, Budgets), [x \in {field} |-> f[BudgetOf(f)]])
                  ELSE f
<1>0. /\ preset = Qwen => p = Put(Drop(g, {"thinking", "reasoning_effort"}),
                                  [enable_thinking |-> IF Thinks(g) THEN "on" ELSE "off"])
      /\ preset = OpenAI => p = Drop(g, {"thinking", "reasoning_effort"})
      /\ preset = DeepSeek => p = Drop(g, IgnoredByDeepSeek(g))
  BY PresetNames DEF Adapted
<1>1. field \in Budgets
  BY BudgetNames DEF TokenField
<1>2. /\ HasBudget(f) => DOMAIN g \cap Budgets = {field} /\ g[field] = f[BudgetOf(f)]
      /\ ~HasBudget(f) => DOMAIN g \cap Budgets = {}
      /\ DOMAIN g \ Budgets = DOMAIN f \ Budgets
      /\ \A name \in DOMAIN f \ Budgets : g[name] = f[name]
  <2>1. CASE HasBudget(f)
    <3> DEFINE d == Drop(f, Budgets)
               t == [x \in {field} |-> f[BudgetOf(f)]]
    <3>1. g = Put(d, t)
      BY <2>1
    <3>2. DOMAIN d = DOMAIN f \ Budgets /\ \A name \in DOMAIN d : d[name] = f[name]
      BY DEF Drop, Restrict
    <3>3. DOMAIN t = {field} /\ t[field] = f[BudgetOf(f)]
      OBVIOUS
    <3> HIDE DEF g, d, t, field
    <3>4. DOMAIN g = DOMAIN d \cup DOMAIN t
          /\ \A name \in DOMAIN d \cup DOMAIN t : g[name] = IF name \in DOMAIN t THEN t[name] ELSE d[name]
      BY <3>1, PutFacts
    <3> QED BY <2>1, <1>1, <3>2, <3>3, <3>4
  <2>2. CASE ~HasBudget(f)
    BY <2>2 DEF HasBudget
  <2> QED BY <2>1, <2>2
<1> HIDE DEF g
<1>3. Thinks(g) <=> Thinks(f)
  BY <1>2, BudgetNames DEF Thinks, Has
<1>4. IgnoredByDeepSeek(g) = IgnoredByDeepSeek(f)
  BY <1>2, <1>3, BudgetNames DEF IgnoredByDeepSeek, Has
<1>5. IgnoredByDeepSeek(f) \subseteq Sampling
  BY DEF IgnoredByDeepSeek, Sampling
<1> DEFINE gone == IF preset = DeepSeek THEN IgnoredByDeepSeek(f) ELSE {"thinking", "reasoning_effort"}
           added == IF preset = Qwen THEN {"enable_thinking"} ELSE {}
<1>6. /\ DOMAIN p = (DOMAIN g \ gone) \cup added
      /\ \A name \in (DOMAIN g \ gone) \ added : p[name] = g[name]
      /\ preset = Qwen => p["enable_thinking"] = IF Thinks(f) THEN "on" ELSE "off"
  <2>1. CASE preset = Qwen
    <3> DEFINE d == Drop(g, {"thinking", "reasoning_effort"})
               t == [enable_thinking |-> IF Thinks(g) THEN "on" ELSE "off"]
    <3>1. p = Put(d, t)
      BY <1>0, <2>1
    <3>2. DOMAIN d = DOMAIN g \ {"thinking", "reasoning_effort"} /\ \A name \in DOMAIN d : d[name] = g[name]
      BY DEF Drop, Restrict
    <3>3. DOMAIN t = {"enable_thinking"} /\ t["enable_thinking"] = IF Thinks(f) THEN "on" ELSE "off"
      BY <1>3, ThinkingFact
    <3>4. gone = {"thinking", "reasoning_effort"} /\ added = {"enable_thinking"}
      BY <2>1, PresetNames
    <3> HIDE DEF d, t, gone, added
    <3>5. DOMAIN p = DOMAIN d \cup DOMAIN t
          /\ \A name \in DOMAIN d \cup DOMAIN t : p[name] = IF name \in DOMAIN t THEN t[name] ELSE d[name]
      BY <3>1 DEF Put
    <3> QED BY <3>2, <3>3, <3>4, <3>5
  <2>2. CASE preset # Qwen
    <3>1. p = Drop(g, gone) /\ added = {}
      BY <1>0, <1>4, <2>2, PresetNames
    <3> HIDE DEF gone, added
    <3>2. DOMAIN p = DOMAIN g \ gone /\ \A name \in DOMAIN g \ gone : p[name] = g[name]
      BY <3>1 DEF Drop, Restrict
    <3> QED BY <2>2, <3>1, <3>2
  <2> QED BY <2>1, <2>2
<1>7. (gone \cup added) \cap Budgets = {}
  BY <1>5, BudgetNames DEF Sampling
<1>8. SameOn(p, g, Budgets)
  <2> HIDE DEF gone, added
  <2> QED BY <1>6, <1>7 DEF SameOn
<1>9. OneBudget(g)
  <2>1. HasBudget(f) => f[BudgetOf(f)] \in Nat \ {0}
    BY BudgetIsNat
  <2> QED BY <1>2, <2>1 DEF OneBudget
<1>10. OneBudget(p) /\ DOMAIN p \cap Budgets \subseteq {field}
  BY <1>2, <1>8, <1>9, SameBudgets DEF SameOn
<1>11. HasBudget(f) => HasBudget(p) /\ p[BudgetOf(p)] = f[BudgetOf(f)]
  <2>1. HasBudget(f) => HasBudget(g) /\ BudgetOf(g) = field
    BY <1>2, <1>9, TheBudget
  <2> QED BY <2>1, <1>2, <1>8, <1>9, SameBudgets
<1>12. \A name \in Sampling \cap DOMAIN f :
         \/ name \in DOMAIN p /\ p[name] = f[name]
         \/ preset = DeepSeek /\ name \in IgnoredByDeepSeek(f)
  BY <1>2, <1>6, BudgetNames DEF Sampling
<1>13. preset = Qwen => "thinking" \notin DOMAIN p /\ "enable_thinking" \in DOMAIN p
  BY <1>6, PresetNames
<1>14. preset = DeepSeek => "enable_thinking" \notin DOMAIN p /\ SameOn(p, f, {"thinking"})
  BY <1>2, <1>5, <1>6, BudgetNames, PresetNames DEF SameOn, Sampling, Canonised
<1> QED BY <1>6, <1>10, <1>11, <1>12, <1>13, <1>14

-----------------------------------------------------------------------------
(* resolve_route_parameters.                                               *)

\* A route as it may be saved.
Saveable(r) ==
  /\ r.preset \in Presets
  /\ r.protocol \in {"chat_completions", "responses"}
  /\ Layer(r.defaults) /\ Layer(r.overrides)
  /\ r.protocol = "responses" => r.preset \in {Custom, OpenAI}

\* What a call with these parameters may rely on.
Fits(p, r, request) ==
  /\ OneBudget(p)
  /\ DOMAIN p \cap Budgets \subseteq {OutputField(r, p)}
  /\ Within(p, request)
  /\ KeepsExplicit(p, request, r.overrides)

\* A model with a preset says in its own way whether it thinks.
ThinksAsDecided(p, r, request) ==
  r.preset \in {Qwen, DeepSeek} =>
    \A mode \in {"on", "off"} :
      Has(p, "thinking", {mode}) \/ Has(p, "enable_thinking", {mode})
        <=> \/ Says(r.overrides, mode)
            \/ /\ Silent(r.overrides)
               /\ \/ Says(request, mode)
                  \/ /\ Silent(request)
                     /\ \/ Says(r.defaults, mode)
                        \/ Silent(r.defaults) /\ Has(PresetDefaults(r.preset), "thinking", {mode})

LEMMA AcceptedFacts ==
  /\ ~Refused.ok
  /\ \A f : Accepted(f).ok /\ Accepted(f).parameters = f
BY DEF Refused, Accepted

LEMMA ChatFacts ==
  ASSUME NEW r, NEW q, Saveable(r), Layer(q), r.protocol # "responses", ResolveChat(r, q).ok
  PROVE  /\ Fits(ResolveChat(r, q).parameters, r, q)
         /\ ThinksAsDecided(ResolveChat(r, q).parameters, r, q)
<1> DEFINE plain == Capped(Merge(Merge(r.defaults, q), r.overrides), q)
           layered == Capped(MergeCanonical(MergeCanonical(MergeCanonical(
                        PresetDefaults(r.preset), r.defaults), q), r.overrides), q)
           p == ResolveChat(r, q).parameters
<1>1. Layer(r.defaults) /\ Layer(q) /\ Layer(r.overrides)
  BY DEF Saveable
<1>2. \A layer \in {r.defaults, q, r.overrides} : "max_output_tokens" \notin DOMAIN layer
  BY AcceptedFacts DEF ResolveChat
<1>3. CASE r.preset = Custom
  <2>1. p = plain
    BY <1>2, <1>3, AcceptedFacts DEF ResolveChat
  <2>2. /\ OneBudget(p)
        /\ DOMAIN p \subseteq DOMAIN r.defaults \cup DOMAIN q \cup DOMAIN r.overrides
        /\ Within(p, q)
        /\ KeepsExplicit(p, q, r.overrides)
    BY <1>1, <2>1, PlainFacts
  <2>3. OutputField(r, p) = IF "max_completion_tokens" \in DOMAIN p THEN "max_completion_tokens" ELSE "max_tokens"
    BY <1>3 DEF OutputField
  <2> HIDE DEF p
  <2>4. DOMAIN p \cap Budgets \subseteq {OutputField(r, p)}
    BY <1>2, <2>2, <2>3, BudgetNames DEF OneBudget
  <2>5. ThinksAsDecided(p, r, q)
    BY <1>3, PresetNames DEF ThinksAsDecided
  <2> QED BY <2>2, <2>4, <2>5 DEF Fits, p
<1>4. CASE r.preset \in {Qwen, OpenAI, DeepSeek}
  <2>1. Supported(r.preset, layered, q) /\ p = Adapted(r.preset, layered)
    BY <1>2, <1>4, AcceptedFacts, PresetNames DEF ResolveChat
  <2>2. /\ OneBudget(layered)
        /\ Within(layered, q)
        /\ KeepsExplicit(layered, q, r.overrides)
        /\ Canonised(layered)
        /\ Decided(layered, PresetDefaults(r.preset), r.defaults, q, r.overrides)
    BY <1>1, PresetFacts
  <2>3. r.preset = DeepSeek => IgnoredByDeepSeek(layered) \cap DOMAIN q = {}
    BY <2>1, PresetNames DEF Supported
  <2> HIDE DEF layered, p
  <2>4. /\ OneBudget(p)
        /\ DOMAIN p \cap Budgets \subseteq {TokenField(r.preset)}
        /\ HasBudget(layered) => HasBudget(p) /\ p[BudgetOf(p)] = layered[BudgetOf(layered)]
        /\ \A name \in Sampling \cap DOMAIN layered :
             \/ name \in DOMAIN p /\ p[name] = layered[name]
             \/ r.preset = DeepSeek /\ name \in IgnoredByDeepSeek(layered)
        /\ r.preset = Qwen =>
             /\ "thinking" \notin DOMAIN p
             /\ "enable_thinking" \in DOMAIN p
             /\ p["enable_thinking"] = IF Thinks(layered) THEN "on" ELSE "off"
        /\ r.preset = DeepSeek => "enable_thinking" \notin DOMAIN p /\ SameOn(p, layered, {"thinking"})
    BY <1>4, <2>1, <2>2, AdaptedFacts
  <2>5. OutputField(r, p) = TokenField(r.preset)
    BY <1>4, PresetNames DEF OutputField
  <2>6. Within(p, q)
    BY <2>2, <2>4 DEF Within
  <2>7. KeepsExplicit(p, q, r.overrides)
    BY <2>2, <2>3, <2>4 DEF KeepsExplicit
  <2>8. ThinksAsDecided(p, r, q)
    <3> SUFFICES ASSUME r.preset \in {Qwen, DeepSeek}, NEW mode \in {"on", "off"}
                 PROVE  Has(p, "thinking", {mode}) \/ Has(p, "enable_thinking", {mode})
                          <=> Has(layered, "thinking", {mode})
      BY <2>2 DEF ThinksAsDecided, Decided
    <3>1. CASE r.preset = DeepSeek
      BY <3>1, <2>4 DEF Has, SameOn
    <3>2. CASE r.preset = Qwen
      <4>1. Has(layered, "thinking", {"on"}) \/ Has(layered, "thinking", {"off"})
        <5>1. Has(PresetDefaults(r.preset), "thinking", {"off"})
          BY <3>2, PresetDefaultsFacts
        <5> QED BY <2>2, <5>1 DEF Decided, Silent
      <4>2. Has(layered, "thinking", {"off"}) <=> ~Has(layered, "thinking", {"on"})
        BY <4>1 DEF Has
      <4> QED BY <3>2, <4>2, <2>4 DEF Has, Thinks
    <3> QED BY <3>1, <3>2
  <2> QED BY <2>4, <2>5, <2>6, <2>7, <2>8 DEF Fits, p
<1> QED BY <1>3, <1>4 DEF Saveable, Presets

LEMMA ForResponsesFacts ==
  ASSUME NEW l, Layer(l), NEW g, g = ForResponses(l),
         DOMAIN g \subseteq {"max_output_tokens", "temperature", "top_p", "reasoning_effort"}
  PROVE  /\ OneBudget(g)
         /\ HasBudget(l) <=> HasBudget(g)
         /\ SameOn(g, l, Sampling)
<1>1. OneBudget(l)
  BY LayerHasOneBudget
<1>2. CASE "max_completion_tokens" \in DOMAIN l
  <2> DEFINE d == Drop(l, {"max_completion_tokens"})
             t == [max_output_tokens |-> l.max_completion_tokens]
  <2>1. g = Put(d, t)
    BY <1>2 DEF ForResponses
  <2>2. DOMAIN d = DOMAIN l \ {"max_completion_tokens"} /\ \A name \in DOMAIN d : d[name] = l[name]
    BY DEF Drop, Restrict
  <2>3. DOMAIN t = {"max_output_tokens"} /\ t["max_output_tokens"] = l["max_completion_tokens"]
    OBVIOUS
  <2> HIDE DEF d, t
  <2>4. DOMAIN g = DOMAIN d \cup DOMAIN t
        /\ \A name \in DOMAIN d \cup DOMAIN t : g[name] = IF name \in DOMAIN t THEN t[name] ELSE d[name]
    BY <2>1 DEF Put
  <2>5. DOMAIN g \cap Budgets = {"max_output_tokens"}
    BY <2>3, <2>4, BudgetNames
  <2>6. g["max_output_tokens"] \in Nat \ {0}
    BY <1>1, <1>2, <2>3, <2>4, BudgetNames DEF OneBudget
  <2>7. OneBudget(g)
    BY <2>5, <2>6 DEF OneBudget
  <2>8. HasBudget(l) /\ HasBudget(g)
    BY <1>2, <2>5, BudgetNames DEF HasBudget
  <2>9. SameOn(g, l, Sampling)
    BY <2>2, <2>3, <2>4 DEF SameOn, Sampling
  <2> QED BY <2>7, <2>8, <2>9
<1>3. CASE "max_completion_tokens" \notin DOMAIN l
  <2>1. g = l
    BY <1>3 DEF ForResponses
  <2> QED BY <1>1, <2>1 DEF SameOn
<1> QED BY <1>2, <1>3

LEMMA ResponsesFacts ==
  ASSUME NEW r, NEW q, Saveable(r), Layer(q), r.protocol = "responses", ResolveResponses(r, q).ok
  PROVE  Fits(ResolveResponses(r, q).parameters, r, q)
<1> DEFINE d == ForResponses(r.defaults)
           c == ForResponses(q)
           o == ForResponses(r.overrides)
           m1 == Merge(d, c)
           m2 == Merge(m1, o)
           p == ResolveResponses(r, q).parameters
           names == {"max_output_tokens", "temperature", "top_p", "reasoning_effort"}
<1>1. p = Capped(m2, q) /\ \A layer \in {r.defaults, q, r.overrides} : FitsResponses(r, layer)
  BY AcceptedFacts DEF ResolveResponses
<1>2. DOMAIN d \subseteq names /\ DOMAIN c \subseteq names /\ DOMAIN o \subseteq names
  BY <1>1 DEF FitsResponses
<1>3. /\ OneBudget(d) /\ OneBudget(c) /\ OneBudget(o) /\ OneBudget(q)
      /\ HasBudget(q) <=> HasBudget(c)
      /\ SameOn(c, q, Sampling) /\ SameOn(o, r.overrides, Sampling)
  BY <1>2, ForResponsesFacts, LayerHasOneBudget DEF Saveable
<1>4. OutputField(r, p) = "max_output_tokens"
  BY DEF OutputField
<1> HIDE DEF d, c, o, p
<1>5. /\ Layered(m1, d, c, Sampling)
      /\ OneBudget(m1) /\ (HasBudget(m1) <=> HasBudget(d) \/ HasBudget(c))
      /\ DOMAIN m1 \subseteq DOMAIN d \cup DOMAIN c
  BY <1>3, MergeFacts, BudgetNames DEF Sampling
<1> HIDE DEF m1
<1>6. /\ Layered(m2, m1, o, Sampling)
      /\ OneBudget(m2) /\ (HasBudget(m2) <=> HasBudget(m1) \/ HasBudget(o))
      /\ DOMAIN m2 \subseteq DOMAIN m1 \cup DOMAIN o
  BY <1>3, <1>5, MergeFacts, BudgetNames DEF Sampling
<1> HIDE DEF m2
<1>7. /\ DOMAIN p = DOMAIN m2
      /\ \A name \in DOMAIN m2 \ Budgets : p[name] = m2[name]
      /\ OneBudget(p)
      /\ Within(p, q)
  BY <1>1, <1>3, <1>5, <1>6, CappedFacts
<1>8. DOMAIN p \cap Budgets \subseteq {"max_output_tokens"}
  BY <1>2, <1>5, <1>6, <1>7, BudgetNames
<1>9. KeepsExplicit(p, q, r.overrides)
  BY <1>3, <1>5, <1>6, <1>7, BudgetNames DEF KeepsExplicit, Layered, SameOn, Sampling
<1> QED BY <1>4, <1>7, <1>8, <1>9 DEF Fits, p

LEMMA ResolveFacts ==
  ASSUME NEW r, NEW q, Saveable(r), Layer(q), Resolve(r, q).ok
  PROVE  /\ Fits(Resolve(r, q).parameters, r, q)
         /\ ThinksAsDecided(Resolve(r, q).parameters, r, q)
<1>1. CASE r.protocol = "responses"
  <2>1. Resolve(r, q) = ResolveResponses(r, q)
    BY <1>1 DEF Resolve
  <2>2. r.preset \notin {Qwen, DeepSeek}
    BY <1>1, PresetNames DEF Saveable
  <2> QED BY <1>1, <2>1, <2>2, ResponsesFacts DEF ThinksAsDecided
<1>2. CASE r.protocol # "responses"
  <2>1. Resolve(r, q) = ResolveChat(r, q)
    BY <1>2 DEF Resolve
  <2> QED BY <1>2, <2>1, ChatFacts
<1> QED BY <1>1, <1>2

-----------------------------------------------------------------------------
(* What a call is sent with.                                               *)

LEMMA SentFacts ==
  ASSUME NEW r, NEW q, NEW kind, Saveable(r), Layer(q), Sent(r, q, kind).ok
  PROVE  /\ OneBudget(Sent(r, q, kind).parameters)
         /\ Within(Sent(r, q, kind).parameters, q)
         /\ KeepsExplicit(Sent(r, q, kind).parameters, q, r.overrides)
         /\ ThinksAsDecided(Sent(r, q, kind).parameters, r, q)
<1> DEFINE p == Resolve(r, q).parameters
           field == OutputField(r, p)
           budget == IF field \in DOMAIN p THEN p[field] ELSE GatewayLimit
           d == Drop(p, {"max_tokens", "max_completion_tokens"})
           t == [x \in {field} |-> budget]
           s == Sent(r, q, kind).parameters
<1>1. Resolve(r, q).ok
  BY AcceptedFacts DEF Sent
<1>2. s = p \/ (s = Put(d, t) /\ budget \in 1..GatewayLimit)
  BY AcceptedFacts DEF Sent
<1>3. Fits(p, r, q) /\ ThinksAsDecided(p, r, q)
  BY <1>1, ResolveFacts
<1>4. CASE s = p
  BY <1>3, <1>4 DEF Fits
<1>5. CASE s = Put(d, t) /\ budget \in 1..GatewayLimit
  <2>1. DOMAIN d = DOMAIN p \ {"max_tokens", "max_completion_tokens"} /\ \A name \in DOMAIN d : d[name] = p[name]
    BY DEF Drop, Restrict
  <2>2. DOMAIN t = {field} /\ t[field] = budget
    OBVIOUS
  <2>3. field \in Budgets
    BY BudgetNames DEF OutputField, TokenField
  <2>4. field \in DOMAIN p => budget = p[field]
    OBVIOUS
  <2>5. budget \in Nat \ {0}
    BY <1>5, ParametersAssumption
  <2>6. OneBudget(p) /\ DOMAIN p \cap Budgets \subseteq {field} /\ Within(p, q) /\ KeepsExplicit(p, q, r.overrides)
    BY <1>3 DEF Fits
  <2> HIDE DEF s, p, d, t, field, budget
  <2>7. DOMAIN s = DOMAIN d \cup DOMAIN t
        /\ \A name \in DOMAIN d \cup DOMAIN t : s[name] = IF name \in DOMAIN t THEN t[name] ELSE d[name]
    BY <1>5 DEF Put
  <2>8. DOMAIN s \cap Budgets = {field} /\ s[field] = budget
    BY <2>1, <2>2, <2>3, <2>6, <2>7, BudgetNames
  <2>9. OneBudget(s)
    BY <2>5, <2>8 DEF OneBudget
  <2>10. HasBudget(s) /\ BudgetOf(s) = field
    BY <2>8, <2>9, TheBudget
  <2>11. Within(s, q)
    <3> SUFFICES ASSUME HasBudget(q) PROVE s[field] <= q[BudgetOf(q)]
      BY <2>10 DEF Within
    <3>1. HasBudget(p) /\ p[BudgetOf(p)] <= q[BudgetOf(q)]
      BY <2>6 DEF Within
    <3>2. BudgetOf(p) = field /\ field \in DOMAIN p
      BY <3>1, <2>6, BudgetOfFacts
    <3> QED BY <3>1, <3>2, <2>4, <2>8
  <2>12. /\ DOMAIN s \ Budgets = DOMAIN p \ Budgets
         /\ \A name \in DOMAIN p \ Budgets : s[name] = p[name]
    BY <2>1, <2>2, <2>3, <2>7, BudgetNames
  <2>13. KeepsExplicit(s, q, r.overrides)
    BY <2>6, <2>12, BudgetNames DEF KeepsExplicit, Sampling
  <2>14. ThinksAsDecided(s, r, q)
    <3>1. \A mode : /\ Has(s, "thinking", {mode}) <=> Has(p, "thinking", {mode})
                    /\ Has(s, "enable_thinking", {mode}) <=> Has(p, "enable_thinking", {mode})
      BY <2>12, BudgetNames DEF Has
    <3> QED BY <1>3, <3>1 DEF ThinksAsDecided, p
  <2> QED BY <2>9, <2>11, <2>13, <2>14 DEF s
<1> QED BY <1>2, <1>4, <1>5

LEMMA EmptyIsLayer == Layer(Empty)
<1>1. DOMAIN Empty = {}
  BY DEF Empty
<1>2. Cardinality(DOMAIN Empty \cap Budgets) <= 1
  BY <1>1, FS_EmptySet
<1>3. Valid(Empty)
  BY <1>1, <1>2 DEF Valid, Has
<1> QED BY <1>1, <1>3 DEF Layer

\* A route as it was saved, capabilities as the route has them, a call sent
\* as the gateway resolves it.
ParametersInv ==
  /\ Saveable(route) /\ route.group \in Groups
  /\ Resolve(route, Empty).ok
  /\ advertised # Unread => advertised = Capabilities(route)
  /\ call.made =>
       /\ Layer(call.request)
       /\ advertised = Capabilities(route)
       /\ call.sent = Sent(route, call.request, call.kind)

THEOREM ParametersInvariant == ParametersSpec => []ParametersInv
<1>1. ParametersInit => ParametersInv
  <2> SUFFICES ASSUME ParametersInit PROVE ParametersInv
    OBVIOUS
  <2>1. PICK group \in Groups :
          route \in [group : {group}, preset : {Custom, Qwen, OpenAI, DeepSeek},
                     protocol : {"chat_completions", "responses"},
                     structured : {"unknown", "json_object", "json_schema"},
                     semantics : {"unknown", "total_output"},
                     defaults : Layers(group), overrides : Layers(group)]
    BY DEF ParametersInit
  <2>2. /\ route.group = group /\ route.preset \in Presets
        /\ route.protocol \in {"chat_completions", "responses"}
        /\ route.defaults \in Layers(group) /\ route.overrides \in Layers(group)
    BY <2>1 DEF Presets
  <2>3. Layer(route.defaults) /\ Layer(route.overrides)
    BY <2>2, ParametersAssumption
  <2>4. /\ route.protocol = "responses" => route.preset \in {Custom, OpenAI}
        /\ Resolve(route, Empty).ok /\ advertised = Unread /\ call = NotCalled
    BY DEF ParametersInit
  <2>5. ~call.made
    BY <2>4 DEF NotCalled
  <2> QED BY <2>2, <2>3, <2>4, <2>5 DEF ParametersInv, Saveable
<1>2. ParametersInv /\ [ParametersNext]_parametersVars => ParametersInv'
  <2> SUFFICES ASSUME ParametersInv, [ParametersNext]_parametersVars PROVE ParametersInv'
    OBVIOUS
  <2>1. CASE Advertise
    <3>1. /\ advertised = Unread /\ advertised' = Capabilities(route)
          /\ route' = route /\ call' = call
      BY <2>1 DEF Advertise
    <3> QED BY <3>1 DEF ParametersInv
  <2>2. ASSUME NEW request \in Layers(route.group), NEW kind \in CallKinds, Call(request, kind)
        PROVE  ParametersInv'
    <3>1. /\ advertised # Unread /\ route' = route /\ advertised' = advertised
          /\ call' = [made |-> TRUE, request |-> request, kind |-> kind,
                      sent |-> Sent(route, request, kind)]
      BY <2>2 DEF Call
    <3>2. Layer(request)
      BY ParametersAssumption DEF ParametersInv
    <3>3. call'.request = request /\ call'.kind = kind /\ call'.sent = Sent(route, request, kind)
      BY <3>1
    <3> QED BY <3>1, <3>2, <3>3 DEF ParametersInv
  <2>3. CASE UNCHANGED parametersVars
    BY <2>3 DEF ParametersInv, parametersVars
  <2> QED BY <2>1, <2>2, <2>3 DEF ParametersNext
<1> QED BY <1>1, <1>2, PTL DEF ParametersSpec

\* A call that was sent, as the invariant knows it.
LEMMA SentCall ==
  ASSUME ParametersInv, WasSent
  PROVE  /\ Saveable(route) /\ Layer(call.request)
         /\ OneBudget(call.sent.parameters)
         /\ Within(call.sent.parameters, call.request)
         /\ KeepsExplicit(call.sent.parameters, call.request, route.overrides)
         /\ ThinksAsDecided(call.sent.parameters, route, call.request)
<1>1. /\ Saveable(route) /\ Layer(call.request)
      /\ call.sent = Sent(route, call.request, call.kind) /\ call.sent.ok
  BY DEF ParametersInv, WasSent
<1> QED BY <1>1, SentFacts

\* No configuration raises the budget the caller set, under whatever name
\* either of them gives it (preserve_output_ceiling).
THEOREM ParametersCeiling == ParametersSpec => []CeilingKept
<1>1. ParametersInv => CeilingKept
  <2> SUFFICES ASSUME ParametersInv, WasSent, HasBudget(call.request)
               PROVE  /\ Cardinality(DOMAIN call.sent.parameters \cap Budgets) = 1
                      /\ Parameter(BudgetOf(call.sent.parameters)) <= call.request[BudgetOf(call.request)]
    BY DEF CeilingKept
  <2>1. OneBudget(call.sent.parameters) /\ Within(call.sent.parameters, call.request)
    BY SentCall
  <2>2. HasBudget(call.sent.parameters)
    BY <2>1 DEF Within
  <2> QED BY <2>1, <2>2, OneIsOne DEF Within, Parameter
<1> QED BY <1>1, ParametersInvariant, PTL

\* What the caller sets is sent, with the caller's value or the route's.
THEOREM ParametersExplicit == ParametersSpec => []ExplicitNeverDropped
<1>1. ParametersInv => ExplicitNeverDropped
  <2> SUFFICES ASSUME ParametersInv, WasSent PROVE ExplicitNeverDropped
    BY DEF ExplicitNeverDropped
  <2>1. KeepsExplicit(call.sent.parameters, call.request, route.overrides)
    BY SentCall
  <2> QED BY <2>1 DEF KeepsExplicit, ExplicitNeverDropped, Sampling, Given, Parameter
<1> QED BY <1>1, ParametersInvariant, PTL

\* A model with a preset thinks exactly if the uppermost layer that says so,
\* under whatever alias, wants it to (resolve_parameters).
THEOREM ParametersPrecedence == ParametersSpec => []PrecedenceKept
<1>1. ParametersInv => PrecedenceKept
  <2> SUFFICES ASSUME ParametersInv, WasSent, route.preset \in {Qwen, DeepSeek} PROVE PrecedenceKept
    BY DEF PrecedenceKept
  <2> DEFINE base == PresetDefaults(route.preset)
             layers == <<base, route.defaults, call.request, route.overrides>>
             Decides(i, mode) == Says(layers[i], mode)
                                   /\ \A j \in (i + 1)..4 : ~Says(layers[j], "on") /\ ~Says(layers[j], "off")
  <2> SUFFICES ASSUME NEW mode \in {"on", "off"}
               PROVE  (\E i \in 1..4 : Decides(i, mode)) <=>
                        (Has(call.sent.parameters, "thinking", {mode})
                           \/ Has(call.sent.parameters, "enable_thinking", {mode}))
    BY DEF PrecedenceKept
  <2>1. ThinksAsDecided(call.sent.parameters, route, call.request)
    BY SentCall
  <2>2. Says(base, mode) <=> Has(base, "thinking", {mode})
    BY PresetDefaultsFacts
  <2> HIDE DEF base
  <2>3. /\ (1 + 1)..4 = {2, 3, 4} /\ (2 + 1)..4 = {3, 4} /\ (3 + 1)..4 = {4} /\ (4 + 1)..4 = {}
        /\ 1..4 = {1, 2, 3, 4}
    OBVIOUS
  <2>4. /\ layers[1] = base /\ layers[2] = route.defaults
        /\ layers[3] = call.request /\ layers[4] = route.overrides
    OBVIOUS
  <2> HIDE DEF layers
  <2>5. /\ Decides(4, mode) <=> Says(route.overrides, mode)
        /\ Decides(3, mode) <=> Says(call.request, mode) /\ Silent(route.overrides)
        /\ Decides(2, mode) <=> Says(route.defaults, mode) /\ Silent(call.request) /\ Silent(route.overrides)
        /\ Decides(1, mode) <=> Says(base, mode) /\ Silent(route.defaults) /\ Silent(call.request)
                                  /\ Silent(route.overrides)
    BY <2>3, <2>4 DEF Silent
  <2> HIDE DEF Decides
  <2>6. (\E i \in 1..4 : Decides(i, mode))
          <=> Decides(1, mode) \/ Decides(2, mode) \/ Decides(3, mode) \/ Decides(4, mode)
    BY <2>3
  <2> QED BY <2>1, <2>2, <2>5, <2>6 DEF ThinksAsDecided, base
<1> QED BY <1>1, ParametersInvariant, PTL

\* What route_capabilities advertises is served on a route whose own budget, if
\* any, keeps to the gateway's limit: a quoting call without parameters is sent
\* with the advertised budget.  On any other route all these calls are refused.
THEOREM ParametersAdvertised == ParametersSpec => []AdvertisedServed
<1>1. ParametersInv => AdvertisedServed
  <2> SUFFICES ASSUME ParametersInv, call.made, call.kind.quoted, call.request = Empty,
                      call.kind.format \in advertised.modes
               PROVE  AdvertisedServed
    BY DEF AdvertisedServed
  <2> DEFINE p == Resolve(route, Empty).parameters
             field == OutputField(route, p)
             budget == IF field \in DOMAIN p THEN p[field] ELSE GatewayLimit
             d == Drop(p, {"max_tokens", "max_completion_tokens"})
             t == [x \in {field} |-> budget]
             within == HasBudget(p) => p[BudgetOf(p)] <= GatewayLimit
             kind == call.kind
  <2>1. /\ Saveable(route) /\ Resolve(route, Empty).ok
        /\ advertised = Capabilities(route) /\ call.sent = Sent(route, Empty, kind)
    BY DEF ParametersInv
  <2>2. Fits(p, route, Empty)
    BY <2>1, EmptyIsLayer, ResolveFacts
  <2>3. /\ advertised.modes = OutputModes(route, p)
        /\ advertised.field = field
        /\ advertised.default = IF field \in DOMAIN p THEN AtMost(p[field], GatewayLimit) ELSE GatewayLimit
    BY <2>1 DEF Capabilities
  <2>4. kind.format \in DeclaredFormats(route) \ {"text"}
        /\ ~(route.preset = Qwen /\ Has(p, "enable_thinking", {"on"}))
    BY <2>3 DEF OutputModes
  <2>5. FormatTaken(route, p, kind)
    BY <2>4 DEF FormatTaken, DeclaredFormats
  <2>6. FormatDeclared(route, kind)
    BY <2>1 DEF FormatDeclared
  <2>7. Bounded(route, kind)
    BY DEF Bounded
  <2>8. call.sent = IF budget \notin 1..GatewayLimit THEN Refused ELSE Accepted(Put(d, t))
    BY <2>1, <2>5, <2>6, <2>7 DEF Sent
  <2>9. field \in Budgets
    BY BudgetNames DEF OutputField, TokenField
  <2>10. /\ HasBudget(p) <=> field \in DOMAIN p
         /\ HasBudget(p) => BudgetOf(p) = field
         /\ field \in DOMAIN p => p[field] \in Nat \ {0}
    BY <2>2, <2>9, BudgetOfFacts DEF Fits, HasBudget, OneBudget
  <2>11. budget \in Nat \ {0} /\ (within <=> budget <= GatewayLimit)
    BY <2>10, ParametersAssumption
  <2>12. within => advertised.default = budget
    BY <2>3, <2>10, <2>11 DEF AtMost
  <2>13. within <=> budget \in 1..GatewayLimit
    BY <2>11, ParametersAssumption
  <2>14. field \in DOMAIN Put(d, t) /\ Put(d, t)[field] = budget
    <3>1. DOMAIN t = {field} /\ t[field] = budget
      OBVIOUS
    <3> HIDE DEF t, d, field, budget
    <3> QED BY <3>1 DEF Put
  <2> HIDE DEF field, budget, d, t, within
  <2>15. ASSUME within PROVE WasSent /\ Given(advertised.field) /\ Parameter(advertised.field) = advertised.default
    <3>1. call.sent.ok /\ call.sent.parameters = Put(d, t)
      BY <2>8, <2>13, <2>15, AcceptedFacts
    <3> QED BY <2>3, <2>12, <2>14, <2>15, <3>1 DEF WasSent, Given, Parameter
  <2>16. ASSUME ~within PROVE ~WasSent
    BY <2>8, <2>13, <2>16, AcceptedFacts DEF WasSent
  <2> QED BY <2>15, <2>16 DEF AdvertisedServed, within
<1> QED BY <1>1, ParametersInvariant, PTL

=============================================================================
