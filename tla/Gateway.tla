------------------------------ MODULE Gateway ------------------------------
(***************************************************************************)
(* How the model gateway serves a call: src/app/gateway.py, completions(), *)
(* in the one API process of the deployment, and what it tells the client  *)
(* and the journal about the delivery (src/app/model_delivery.py).         *)
(*                                                                         *)
(* A step is what a coroutine does from one await to the next.  The other  *)
(* actors of the journal (administrators, sweeps) are in module Credits.   *)
(***************************************************************************)
EXTENDS Naturals, FiniteSets

CONSTANTS
  Calls,      \* calls that pass authentication and admission
  Official,   \* those of user accounts: they have a journal row, never a stream
  Streams,    \* those of model keys that asked for a stream
  Slots       \* permits of app.state.model_slots

ASSUME GatewayAssumption ==
  /\ Official \cap Streams = {}
  /\ Official \cup Streams \subseteq Calls
  /\ Slots \in Nat \ {0}
  /\ IsFiniteSet(Calls)

VARIABLES
  at,        \* where the coroutine of a call, or its stream generator, is
  free,      \* permits left in the semaphore
  answered,  \* the provider's response headers have arrived
  status,    \* ModelCall.status
  http,      \* ModelCall.http_status is not null
  code,      \* ModelCall.error_code: "none", one of NOT_DISPATCHED, or another
  journal,   \* ModelReservation.state
  told,      \* dispatchCertainty in the answer the client got
  reached    \* the provider got (part of) the request: nobody's variable

vars == <<at, free, answered, status, http, code, journal, told, reached>>

-----------------------------------------------------------------------------
\* Awaits at which cancellation can strike the coroutine itself.
Cancellable == {"waiting", "connecting", "awaiting", "refused", "reading"}
\* Places with a permit; "closing" is the await of response.aclose() in finally,
\* "leaked" a stream whose generator never started.
Holding == {"connecting", "awaiting", "refused", "reading",
            "offered", "streaming", "closing", "leaked"}
Places == Holding \cup {"new", "unsupported", "waiting", "done", "lost"}

Certainties == {"not_dispatched", "may_have_dispatched", "response_received"}

\* NOT_DISPATCHED: GATEWAY_BUSY, UPSTREAM_CONNECT_FAILED, _CONNECT_TIMEOUT.
Codes == {"none", "unsent", "other"}

Init ==
  /\ at       = [c \in Calls |-> "new"]
  /\ free     = Slots
  /\ answered = [c \in Calls |-> FALSE]
  /\ status   = [c \in Calls |-> "absent"]
  /\ http     = [c \in Calls |-> FALSE]
  /\ code     = [c \in Calls |-> "none"]
  /\ journal  = [c \in Calls |-> "absent"]
  /\ told     = [c \in Calls |-> "nothing"]
  /\ reached  = [c \in Calls |-> FALSE]

\* Mutant: a call without confirmed usage is charged an estimate.
SettledOnEstimate(dispatched, known, affordable) ==
  IF ~dispatched THEN "released"
  ELSE IF affordable THEN "settled" ELSE "needs_reconciliation"

\* credits.settle: a call that was never dispatched is released for free, one
\* with confirmed usage is charged if the balance allows, others are reviewed.
SettledAs(dispatched, known, affordable) ==
  IF ~dispatched THEN "released"
  ELSE IF known /\ affordable THEN "settled" ELSE "needs_reconciliation"

\* Mutant: the provider's status code is not kept.
FinishWithoutStatus(c, final, error, dispatched, known) ==
  /\ status' = [status EXCEPT ![c] = final]
  /\ code' = [code EXCEPT ![c] = error]
  /\ http' = http
  /\ \E affordable \in BOOLEAN :
       journal' = IF c \in Official
                    THEN [journal EXCEPT ![c] = SettledAs(dispatched, known, affordable)]
                    ELSE journal

\* finish(): the terminal status, the error, the provider's status code and
\* the journal.
Finish(c, final, error, dispatched, known) ==
  /\ status' = [status EXCEPT ![c] = final]
  /\ code' = [code EXCEPT ![c] = error]
  /\ http' = [http EXCEPT ![c] = answered[c]]
  /\ \E affordable \in BOOLEAN :
       journal' = IF c \in Official
                    THEN [journal EXCEPT ![c] = SettledAs(dispatched, known, affordable)]
                    ELSE journal

\* error_response(): what is known of the dispatch of a failed call.
Tell(c, dispatched) ==
  told' = [told EXCEPT ![c] = IF ~dispatched THEN "not_dispatched"
                              ELSE IF answered[c] THEN "response_received"
                              ELSE "may_have_dispatched"]

Release == free' = free + 1
Goto(c, place) == at' = [at EXCEPT ![c] = place]

-----------------------------------------------------------------------------
(* Admission and the wait for a permit.                                    *)

\* The route was found able to serve the request, or not, before admission.
Admit(c) ==
  /\ at[c] = "new"
  /\ Goto(c, "waiting") \/ Goto(c, "unsupported")
  /\ status' = [status EXCEPT ![c] = "running"]
  /\ journal' = IF c \in Official THEN [journal EXCEPT ![c] = "pending_usage"]
                                  ELSE journal
  /\ UNCHANGED <<free, answered, http, code, told, reached>>

\* The route cannot serve the request: recorded with the gateway's own HTTP
\* status and released, nothing is sent.
RefuseCapability(c) ==
  /\ at[c] = "unsupported"
  /\ Goto(c, "done")
  /\ status' = [status EXCEPT ![c] = "failed"]
  /\ http' = [http EXCEPT ![c] = TRUE]
  /\ code' = [code EXCEPT ![c] = "other"]
  /\ journal' = IF c \in Official THEN [journal EXCEPT ![c] = "released"] ELSE journal
  /\ Tell(c, FALSE)
  /\ UNCHANGED <<free, answered, reached>>

\* Mutant: the wait for a permit has no deadline.
WaitForPermit(c) ==
  /\ at[c] = "waiting"
  /\ free > 0
  /\ Goto(c, "done")
  /\ Finish(c, "failed", "unsent", FALSE, FALSE)
  /\ Tell(c, FALSE)
  /\ UNCHANGED <<free, answered, reached>>

\* wait_for(acquire, 1 s) gives up; a permit may come free at that very tick.
BusyTimeout(c) ==
  /\ at[c] = "waiting"
  /\ Goto(c, "done")
  /\ Finish(c, "failed", "unsent", FALSE, FALSE)
  /\ Tell(c, FALSE)
  /\ UNCHANGED <<free, answered, reached>>

\* The permit is taken and send() starts: from here the call counts as dispatched.
Acquire(c) ==
  /\ at[c] = "waiting"
  /\ free > 0
  /\ free' = free - 1
  /\ Goto(c, "connecting")
  /\ UNCHANGED <<answered, status, http, code, journal, told, reached>>

\* build_request cannot encode the body: the permit goes back at once.
EncodingFails(c) ==
  /\ at[c] = "waiting"
  /\ free > 0
  /\ Goto(c, "done")
  /\ Finish(c, "failed", "other", FALSE, FALSE)
  /\ Tell(c, FALSE)
  /\ UNCHANGED <<free, answered, reached>>

-----------------------------------------------------------------------------
(* The provider.                                                           *)

Transmit(c) ==
  /\ at[c] = "connecting"
  /\ Goto(c, "awaiting")
  /\ reached' = [reached EXCEPT ![c] = TRUE]
  /\ UNCHANGED <<free, answered, status, http, code, journal, told>>

\* Mutant: a write that failed is taken for a connection that failed.
ConnectOrWriteFails(c) ==
  /\ at[c] = "connecting"
  /\ reached' \in {reached, [reached EXCEPT ![c] = TRUE]}
  /\ Goto(c, "done")
  /\ Finish(c, "failed", "unsent", FALSE, FALSE)
  /\ Tell(c, FALSE)
  /\ Release
  /\ UNCHANGED answered

\* ConnectError, ConnectTimeout, PoolTimeout: the dispatch is taken back.
ConnectFails(c) ==
  /\ at[c] = "connecting"
  /\ Goto(c, "done")
  /\ Finish(c, "failed", "unsent", FALSE, FALSE)
  /\ Tell(c, FALSE)
  /\ Release
  /\ UNCHANGED <<answered, reached>>

\* WriteError, WriteTimeout: some of the request may have arrived.
WriteFails(c) ==
  /\ at[c] = "connecting"
  /\ reached' \in {reached, [reached EXCEPT ![c] = TRUE]}
  /\ Goto(c, "done")
  /\ Finish(c, "failed", "other", TRUE, FALSE)
  /\ Tell(c, TRUE)
  /\ Release
  /\ UNCHANGED answered

\* No response: read error or timeout, or a reply that is not HTTP.
ReadFails(c) ==
  /\ at[c] = "awaiting"
  /\ Goto(c, "done")
  /\ Finish(c, "failed", "other", TRUE, FALSE)
  /\ Tell(c, TRUE)
  /\ Release
  /\ UNCHANGED <<answered, reached>>

\* Response headers: an error status, a body to read, or a stream to pass on.
Answer(c) ==
  /\ at[c] = "awaiting"
  /\ answered' = [answered EXCEPT ![c] = TRUE]
  /\ \/ Goto(c, "refused")
     \/ Goto(c, IF c \in Streams THEN "offered" ELSE "reading")
  /\ UNCHANGED <<free, status, http, code, journal, told, reached>>

\* Mutant: the answer is served, the permit forgotten.
RefuseKeepingSlot(c) ==
  /\ at[c] = "refused"
  /\ Goto(c, "done")
  /\ Finish(c, "failed", "other", TRUE, FALSE)
  /\ Tell(c, TRUE)
  /\ UNCHANGED <<free, answered, reached>>

\* A non-2xx status, its body read or given up on, or a stream of another type.
Refuse(c) ==
  /\ at[c] = "refused"
  /\ Goto(c, "closing")
  /\ Finish(c, "failed", "other", TRUE, FALSE)
  /\ Tell(c, TRUE)
  /\ UNCHANGED <<free, answered, reached>>

\* The body is complete, cut off or invalid; usage it reported stays billable.
EndBody(c, final, known) ==
  /\ at[c] = "reading"
  /\ Goto(c, "closing")
  /\ Finish(c, final, IF final = "failed" THEN "other" ELSE "none", TRUE, known)
  /\ Tell(c, TRUE)
  /\ UNCHANGED <<free, answered, reached>>

\* The client has gone: CancelledError at whatever await the coroutine is in.
Cancel(c) ==
  /\ at[c] \in Cancellable
  /\ Finish(c, "cancelled", "other", at[c] # "waiting", FALSE)
  /\ \/ at[c] = "waiting" /\ Goto(c, "done") /\ UNCHANGED free
     \/ at[c] \in {"connecting", "awaiting"} /\ Goto(c, "done") /\ Release
     \/ at[c] \in {"refused", "reading"} /\ Goto(c, "closing") /\ UNCHANGED free
  /\ \/ UNCHANGED reached
     \/ at[c] = "connecting" /\ reached' = [reached EXCEPT ![c] = TRUE]
  /\ UNCHANGED <<answered, told>>

-----------------------------------------------------------------------------
(* Streams: the generator events() owns the permit once it is handed over. *)

StartStream(c) ==
  /\ at[c] = "offered"
  /\ Goto(c, "streaming")
  /\ UNCHANGED <<free, answered, status, http, code, journal, told, reached>>

\* [DONE], or an interrupted upstream: recorded before the last event is sent.
EndStream(c, final) ==
  /\ at[c] = "streaming"
  /\ Goto(c, "closing")
  /\ Finish(c, final, IF final = "failed" THEN "other" ELSE "none", TRUE, FALSE)
  /\ UNCHANGED <<free, answered, told, reached>>

\* The client leaves while the generator waits for the provider.
CancelStream(c) ==
  /\ at[c] = "streaming"
  /\ Goto(c, "closing")
  /\ Finish(c, "cancelled", "other", TRUE, FALSE)
  /\ UNCHANGED <<free, answered, told, reached>>

\* The client leaves while the generator is suspended at a yield: it is closed
\* by GeneratorExit, so finally runs and no except clause does.
AbandonAtYield(c) ==
  /\ at[c] = "streaming"
  /\ Goto(c, "closing")
  /\ UNCHANGED <<free, answered, status, http, code, journal, told, reached>>

\* The client leaves before the first event is asked for: a generator that was
\* never started has no finally to run.
AbandonUnstarted(c) ==
  /\ at[c] = "offered"
  /\ Goto(c, "leaked")
  /\ UNCHANGED <<free, answered, status, http, code, journal, told, reached>>

\* finally: the response is closed, an await of its own, and the permit given
\* back, also when that await is cancelled.
Close(c) ==
  /\ at[c] = "closing"
  /\ Goto(c, "done")
  /\ Release
  /\ UNCHANGED <<answered, status, http, code, journal, told, reached>>

-----------------------------------------------------------------------------
\* The process stops and starts again: a new semaphore, no coroutines.
Restart ==
  /\ \E c \in Calls : at[c] \notin {"new", "done", "lost"}
  /\ at' = [c \in Calls |-> IF at[c] \in {"new", "done"} THEN at[c] ELSE "lost"]
  /\ free' = Slots
  /\ UNCHANGED <<answered, status, http, code, journal, told, reached>>

\* What a coroutine does unless its client leaves.
Serve(c) ==
  \/ RefuseCapability(c) \/ BusyTimeout(c) \/ Acquire(c) \/ EncodingFails(c)
  \/ Transmit(c) \/ ConnectFails(c) \/ WriteFails(c)
  \/ ReadFails(c) \/ Answer(c) \/ Refuse(c)
  \/ \E final \in {"succeeded", "failed"}, known \in BOOLEAN : EndBody(c, final, known)
  \/ StartStream(c)
  \/ \E final \in {"succeeded", "failed"} : EndStream(c, final)
  \/ Close(c)

Leave(c) ==
  Cancel(c) \/ CancelStream(c) \/ AbandonAtYield(c) \/ AbandonUnstarted(c)

Next ==
  \/ \E c \in Calls : Admit(c) \/ Serve(c) \/ Leave(c)
  \/ Restart

Spec == Init /\ [][Next]_vars

\* Every await of the gateway has a deadline: one second for the permit, the
\* httpx timeouts to connect, write and read, asyncio.timeout for the body.
FairSpec == Spec /\ \A c \in Calls : WF_vars(Serve(c))

-----------------------------------------------------------------------------
(* Properties.                                                             *)

TypeOK ==
  /\ at       \in [Calls -> Places]
  /\ free     \in 0 .. Slots
  /\ answered \in [Calls -> BOOLEAN]
  /\ status   \in [Calls -> {"absent", "running", "succeeded", "failed", "cancelled"}]
  /\ http     \in [Calls -> BOOLEAN]
  /\ code     \in [Calls -> Codes]
  /\ journal  \in [Calls -> {"absent", "pending_usage", "released", "settled",
                             "needs_reconciliation"}]
  /\ told     \in [Calls -> Certainties \cup {"nothing"}]
  /\ reached  \in [Calls -> BOOLEAN]

\* Every way out of a call gives its permit back exactly once, whether the
\* coroutine or the generator owns it: at most Slots calls are forwarded.
SlotsBalanced ==
  free + Cardinality({c \in Calls : at[c] \in Holding}) = Slots

\* model_delivery.request_status for a call of a user account: a released row
\* or an error before the dispatch, then the provider's status code.
StatusCertainty(c) ==
  IF journal[c] = "released" \/ code[c] = "unsent" THEN "not_dispatched"
  ELSE IF http[c] THEN "response_received" ELSE "may_have_dispatched"

\* "released is persisted proof that this call did not reach the provider"
\* (model_delivery.py:56), and no answer or later status query claims more
\* than is true: a client may repeat what was not dispatched.
DispatchHonest ==
  \A c \in Calls :
    LET claims == {told[c]} \cup (IF c \in Official THEN {StatusCertainty(c)} ELSE {})
    IN /\ "not_dispatched" \in claims => ~reached[c]
       /\ "response_received" \in claims => answered[c]

\* The status query repeats, at any later time, what the answer said.
StatusAgreesWithAnswer ==
  \A c \in Official : told[c] # "nothing" => told[c] = StatusCertainty(c)

\* A finished call never leaves its journal row open, and only usage that a
\* provider reported is charged: usage() runs on a response body.
JournalFollowsCall ==
  \A c \in Official :
    /\ journal[c] = "pending_usage" <=> status[c] = "running"
    /\ journal[c] = "settled" => answered[c]

\* A stream whose client left while it was suspended at a yield or before it
\* was started; nobody finishes such a call.
Abandoned(c) ==
  at[c] = "leaked" \/ (at[c] \in {"closing", "done"} /\ status[c] = "running")

\* Every call gets its final status, however busy or slow the provider is and
\* whatever permits abandoned streams have taken with them.  Excepted are a
\* stop of the process and a stream that its client abandoned.
CallsEnd ==
  \A c \in Calls :
    status[c] = "running"
      ~> \/ status[c] # "running"
         \/ at[c] = "lost"
         \/ c \in Streams /\ Abandoned(c)
=============================================================================
