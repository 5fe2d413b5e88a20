--------------------------- MODULE StreamDelivery ---------------------------
(***************************************************************************)
(* How a chat completion is served once it is routed: the upstream call    *)
(* and the delivery of its answer in chat_completions (jev_gateway/        *)
(* gateway.py), and the registry of what is in flight                      *)
(* (jev_gateway/activity.py).                                              *)
(*                                                                         *)
(* A stream has two threads of control. The event loop sends frames and,   *)
(* when it stops for whatever reason, closes the provider's stream and     *)
(* settles the outcome; a worker thread runs the generator that reads the  *)
(* provider's chunks, one next() at a time under stream_body_lock, and may *)
(* still be in one when the event loop gives up.                           *)
(***************************************************************************)
EXTENDS Naturals, FiniteSets, Sequences

CONSTANTS
    Requests,        \* chat requests that were routed
    ActivityLimit,   \* MAX_REQUESTS of the registry
    MaxChunks        \* bound of a run: chunks a provider sends

ASSUME ConstantsAssumption == ActivityLimit \in Nat /\ MaxChunks \in Nat

VARIABLES
    pc,           \* the route's thread, then the event loop's task
    streams,      \* the request asked for a stream
    registry,     \* ActivityRegistry._requests
    complete,     \* ActivityRegistry._complete
    tracked,      \* activity_tracked
    loop,         \* what the response is doing while pc is "serving"
    worker,       \* the worker thread: "none", "queued" or "reading"
    generator,    \* recorded_stream: "fresh", "suspended", "ended", "closed"
    sdk,          \* the provider's stream: chunks sent, finish reason seen,
                  \* exhausted, close started
    flags,        \* stream_interrupted, stream_completed, delivered,
                  \* terminal_delivered
    outcomes,     \* history: the outcomes recorded for the request
    captured      \* the continuation was finalized

served == <<streams, tracked>>
activity == <<registry, complete>>
vars == <<pc, served, activity, loop, worker, generator, sdk, flags, outcomes,
          captured>>

Steps == {"new", "call", "capture", "respond", "serving", "closing", "closeSdk",
          "finish", "settle", "reply", "done"}

Init ==
    /\ pc = [r \in Requests |-> "new"]
    /\ streams \in [Requests -> BOOLEAN]
    /\ registry = {}
    /\ complete = TRUE
    /\ tracked = [r \in Requests |-> FALSE]
    /\ loop = [r \in Requests |-> "next"]
    /\ worker = [r \in Requests |-> "none"]
    /\ generator = [r \in Requests |-> "fresh"]
    /\ sdk = [r \in Requests |->
                 [chunks |-> 0, reason |-> FALSE, exhausted |-> FALSE,
                  closed |-> FALSE]]
    /\ flags = [r \in Requests |->
                   [interrupted |-> FALSE, completed |-> FALSE,
                    delivered |-> FALSE, terminal |-> FALSE]]
    /\ outcomes = [r \in Requests |-> <<>>]
    /\ captured = [r \in Requests |-> FALSE]

Goto(r, step) == pc' = [pc EXCEPT ![r] = step]

-----------------------------------------------------------------------------
(* The registry. *)

\* Variant: a full registry leaves the request out and says nothing.
BeginActivityQuietly(r) ==
    IF Cardinality(registry) >= ActivityLimit
    THEN tracked' = tracked /\ UNCHANGED activity
    ELSE /\ registry' = registry \cup {r}
         /\ tracked' = [tracked EXCEPT ![r] = TRUE]
         /\ UNCHANGED complete

\* Variant: the registry has no limit.
BeginActivityUnbounded(r) ==
    /\ registry' = registry \cup {r}
    /\ tracked' = [tracked EXCEPT ![r] = TRUE]
    /\ UNCHANGED complete

\* begin_request: a registry that is full is incomplete from then on.
BeginActivity(r) ==
    IF Cardinality(registry) >= ActivityLimit
    THEN complete' = FALSE /\ UNCHANGED <<registry, tracked>>
    ELSE /\ registry' = registry \cup {r}
         /\ tracked' = [tracked EXCEPT ![r] = TRUE]
         /\ UNCHANGED complete

\* mark_stream on a request that is not in the registry.
MarkStream(r) ==
    /\ complete' = (complete /\ r \in registry)
    /\ UNCHANGED registry

\* finish_request, which is idempotent.
FinishActivity(r) ==
    /\ registry' = IF tracked[r] THEN registry \ {r} ELSE registry
    /\ UNCHANGED complete

-----------------------------------------------------------------------------
(* The outcome. *)

\* record_outcome, called once by a request that is not streamed.
RecordOutcome(r, ok) == outcomes' = [outcomes EXCEPT ![r] = Append(@, ok)]

\* Variant: no memory of what was recorded.
RecordStreamOutcomeAgain(r, ok) == RecordOutcome(r, ok)

\* record_stream_outcome: the first one counts.
RecordStreamOutcome(r, ok) ==
    IF outcomes[r] = <<>> THEN RecordOutcome(r, ok) ELSE UNCHANGED outcomes

-----------------------------------------------------------------------------
(* The route. *)

Begin(r) ==
    /\ pc[r] = "new"
    /\ BeginActivity(r)
    /\ Goto(r, "call")
    /\ UNCHANGED <<streams, loop, worker, generator, sdk, flags, outcomes,
                   captured>>

\* The provider answers, or starts to.
CallProvider(r) ==
    /\ pc[r] = "call"
    /\ IF streams[r] THEN MarkStream(r) ELSE UNCHANGED activity
    /\ Goto(r, "capture")
    /\ UNCHANGED <<served, loop, worker, generator, sdk, flags, outcomes,
                   captured>>

\* The provider has no credentials: 503, and nothing is recorded.
MissCredentials(r) ==
    /\ pc[r] = "call"
    /\ FinishActivity(r)
    /\ Goto(r, "done")
    /\ UNCHANGED <<served, loop, worker, generator, sdk, flags, outcomes,
                   captured>>

\* The request cannot be prepared or the provider fails: 502. The stream may
\* have been marked before.
CallFails(r) ==
    /\ pc[r] = "call"
    /\ registry' = IF tracked[r] THEN registry \ {r} ELSE registry
    /\ \/ UNCHANGED complete
       \/ streams[r] /\ complete' = (complete /\ r \in registry)
    /\ RecordOutcome(r, FALSE)
    /\ Goto(r, "done")
    /\ UNCHANGED <<served, loop, worker, generator, sdk, flags, captured>>

\* The provider adapter prepares to capture the answer.
Capture(r) ==
    /\ pc[r] = "capture"
    /\ Goto(r, IF streams[r] THEN "respond" ELSE "reply")
    /\ UNCHANGED <<served, activity, loop, worker, generator, sdk, flags,
                   outcomes, captured>>

CloseSdk(r) == sdk' = [sdk EXCEPT ![r].closed = TRUE]

\* It cannot: the stream is closed and nothing is recorded.
CaptureFails(r) ==
    /\ pc[r] = "capture"
    /\ IF streams[r] THEN CloseSdk(r) ELSE UNCHANGED sdk
    /\ FinishActivity(r)
    /\ Goto(r, "done")
    /\ UNCHANGED <<served, loop, worker, generator, flags, outcomes, captured>>

\* A request that is not streamed: its answer is captured and recorded. When
\* the answer cannot be read, nothing is.
Reply(r) ==
    /\ pc[r] = "reply"
    /\ FinishActivity(r)
    /\ \/ RecordOutcome(r, TRUE) /\ captured' = [captured EXCEPT ![r] = TRUE]
       \/ UNCHANGED <<outcomes, captured>>
    /\ Goto(r, "done")
    /\ UNCHANGED <<served, loop, worker, generator, sdk, flags>>

Respond(r) ==
    /\ pc[r] = "respond"
    /\ Goto(r, "serving")
    /\ UNCHANGED <<served, activity, loop, worker, generator, sdk, flags,
                   outcomes, captured>>

\* The response cannot be built. Its generator was never started.
RespondFails(r) ==
    /\ pc[r] = "respond"
    /\ flags' = [flags EXCEPT ![r].interrupted = TRUE]
    /\ generator' = [generator EXCEPT ![r] = "closed"]
    /\ CloseSdk(r)
    /\ FinishActivity(r)
    /\ RecordStreamOutcome(r, FALSE)
    /\ Goto(r, "done")
    /\ UNCHANGED <<served, loop, worker, captured>>

-----------------------------------------------------------------------------
(* The event loop, while it serves a stream. *)

\* stream_content asks a worker thread for the next chunk.
AskNext(r) ==
    /\ pc[r] = "serving" /\ loop[r] = "next" /\ worker[r] = "none"
    /\ loop' = [loop EXCEPT ![r] = "waiting"]
    /\ worker' = [worker EXCEPT ![r] = "queued"]
    /\ UNCHANGED <<pc, served, activity, generator, sdk, flags, outcomes,
                   captured>>

\* A frame is delivered: a chunk, or the one that ends the body, after which the
\* task may still be cancelled.
Send(r) ==
    /\ pc[r] = "serving"
    /\ \/ /\ loop[r] = "chunk"
          /\ loop' = [loop EXCEPT ![r] = "next"]
          /\ UNCHANGED <<pc, flags>>
       \/ /\ loop[r] = "end"
          /\ \E returned \in BOOLEAN :
                flags' = [flags EXCEPT ![r] = [@ EXCEPT !.interrupted = TRUE,
                                                        !.delivered = returned,
                                                        !.terminal = TRUE]]
          /\ Goto(r, "closing")
          /\ UNCHANGED loop
    /\ UNCHANGED <<served, activity, worker, generator, sdk, outcomes, captured>>

\* It stops early: the client disconnects (the response returns), a frame
\* cannot be sent or the task is cancelled (it raises). A worker may be in
\* the middle of next().
Stop(r) ==
    /\ pc[r] = "serving"
    /\ \E returned \in BOOLEAN :
          flags' = [flags EXCEPT ![r] = [@ EXCEPT !.interrupted = TRUE,
                                                  !.delivered = returned]]
    /\ Goto(r, "closing")
    /\ UNCHANGED <<served, activity, loop, worker, generator, sdk, outcomes,
                   captured>>

-----------------------------------------------------------------------------
(* The worker thread. *)

\* next_stream_body takes the lock; it looks at stream_interrupted first.
StartNext(r) ==
    /\ worker[r] = "queued"
    /\ worker' = [worker EXCEPT ![r] = IF flags[r].interrupted THEN "none"
                                       ELSE "reading"]
    /\ UNCHANGED <<pc, served, activity, loop, generator, sdk, flags, outcomes,
                   captured>>

\* The event loop gets the result if it still waits for it.
Return(r, result) ==
    /\ worker' = [worker EXCEPT ![r] = "none"]
    /\ loop' = IF pc[r] = "serving" THEN [loop EXCEPT ![r] = result] ELSE loop

\* The provider sends a chunk, possibly with the finish reason.
ReadChunk(r) ==
    /\ worker[r] = "reading" /\ ~sdk[r].exhausted
    /\ sdk[r].chunks < MaxChunks
    /\ \E final \in BOOLEAN :
          sdk' = [sdk EXCEPT ![r] = [sdk[r] EXCEPT
                                        !.chunks = sdk[r].chunks + 1,
                                        !.reason = sdk[r].reason \/ final]]
    /\ generator' = [generator EXCEPT ![r] = "suspended"]
    /\ Return(r, "chunk")
    /\ UNCHANGED <<pc, served, activity, flags, outcomes, captured>>

\* It has no more. What the client gets is "data: [DONE]".
ReadEnd(r) ==
    /\ worker[r] = "reading" /\ ~sdk[r].exhausted
    /\ sdk' = [sdk EXCEPT ![r].exhausted = TRUE]
    /\ generator' = [generator EXCEPT ![r] = "suspended"]
    /\ Return(r, "chunk")
    /\ UNCHANGED <<pc, served, activity, flags, outcomes, captured>>

\* The finally clause of recorded_stream, when it is not complete.
EndIncomplete(r) ==
    /\ FinishActivity(r)
    /\ RecordStreamOutcome(r, FALSE)

\* It raises: the body ends early.
ReadFails(r) ==
    /\ worker[r] = "reading" /\ ~sdk[r].exhausted
    /\ generator' = [generator EXCEPT ![r] = "ended"]
    /\ EndIncomplete(r)
    /\ Return(r, "end")
    /\ UNCHANGED <<pc, served, sdk, flags, captured>>

\* The client has taken "[DONE]". The stream is complete if the provider gave a
\* finish reason and nobody has interrupted it.
EndOfBody(r) ==
    /\ worker[r] = "reading" /\ sdk[r].exhausted
    /\ generator' = [generator EXCEPT ![r] = "ended"]
    /\ LET completed == sdk[r].reason /\ ~flags[r].interrupted
       IN  /\ flags' = [flags EXCEPT ![r].completed = completed]
           /\ IF completed THEN UNCHANGED <<activity, outcomes>>
              ELSE EndIncomplete(r)
    /\ Return(r, "end")
    /\ UNCHANGED <<pc, served, sdk, captured>>

-----------------------------------------------------------------------------
(* The end of the response, shielded from cancellation. *)

\* Variant: the generator is closed without its lock.
CloseBodyUnlocked(r) ==
    /\ pc[r] = "closing"
    /\ generator' = [generator EXCEPT ![r] = IF @ = "ended" THEN @ ELSE "closed"]
    /\ IF generator[r] = "suspended" THEN EndIncomplete(r)
       ELSE UNCHANGED <<activity, outcomes>>
    /\ Goto(r, "closeSdk")
    /\ UNCHANGED <<served, loop, worker, sdk, flags, captured>>

\* close_stream_body waits for the lock. A generator that was never started
\* runs none of its code when it is closed.
CloseBody(r) ==
    /\ pc[r] = "closing" /\ worker[r] # "reading"
    /\ generator' = [generator EXCEPT ![r] = IF @ = "ended" THEN @ ELSE "closed"]
    /\ IF generator[r] = "suspended" THEN EndIncomplete(r)
       ELSE UNCHANGED <<activity, outcomes>>
    /\ Goto(r, "closeSdk")
    /\ UNCHANGED <<served, loop, worker, sdk, flags, captured>>

CloseStream(r) ==
    /\ pc[r] = "closeSdk"
    /\ CloseSdk(r)
    /\ Goto(r, "finish")
    /\ UNCHANGED <<served, activity, loop, worker, generator, flags, outcomes,
                   captured>>

Finish(r) ==
    /\ pc[r] = "finish"
    /\ FinishActivity(r)
    /\ Goto(r, "settle")
    /\ UNCHANGED <<served, loop, worker, generator, sdk, flags, outcomes,
                   captured>>

\* Variant: a response that returns has been delivered.
SettleReturned(r) ==
    LET success == flags[r].delivered /\ flags[r].completed
    IN  /\ pc[r] = "settle"
        /\ captured' \in {captured, [captured EXCEPT ![r] = success]}
        /\ RecordStreamOutcome(r, success)
        /\ Goto(r, "done")
        /\ UNCHANGED <<served, activity, loop, worker, generator, sdk, flags>>

\* Variant: an incomplete stream is left to its generator, which may never have
\* been started.
SettleCompleted(r) ==
    LET success == /\ flags[r].delivered /\ flags[r].terminal
                   /\ flags[r].completed
    IN  /\ pc[r] = "settle"
        /\ captured' \in {captured, [captured EXCEPT ![r] = success]}
        /\ IF flags[r].completed THEN RecordStreamOutcome(r, success)
           ELSE UNCHANGED outcomes
        /\ Goto(r, "done")
        /\ UNCHANGED <<served, activity, loop, worker, generator, sdk, flags>>

\* Only a stream that was read to its end and whose last frame was delivered is
\* a success; its continuation is finalized, which may fail.
Settle(r) ==
    LET success == /\ flags[r].delivered /\ flags[r].terminal
                   /\ flags[r].completed
    IN  /\ pc[r] = "settle"
        /\ captured' \in {captured, [captured EXCEPT ![r] = success]}
        /\ RecordStreamOutcome(r, success)
        /\ Goto(r, "done")
        /\ UNCHANGED <<served, activity, loop, worker, generator, sdk, flags>>

-----------------------------------------------------------------------------

RouteStep(r) ==
    \/ Begin(r) \/ CallProvider(r) \/ MissCredentials(r) \/ CallFails(r)
    \/ Capture(r) \/ CaptureFails(r) \/ Reply(r)
    \/ Respond(r) \/ RespondFails(r)

LoopStep(r) ==
    \/ AskNext(r) \/ Send(r)
    \/ CloseBody(r) \/ CloseStream(r) \/ Finish(r) \/ Settle(r)

WorkerStep(r) ==
    \/ StartNext(r) \/ ReadChunk(r) \/ ReadEnd(r) \/ ReadFails(r)
    \/ EndOfBody(r)

Finished == \A r \in Requests : pc[r] = "done" /\ worker[r] = "none"

Next ==
    \/ \E r \in Requests :
          RouteStep(r) \/ LoopStep(r) \/ WorkerStep(r) \/ Stop(r)
    \/ Finished /\ UNCHANGED vars

Spec == Init /\ [][Next]_vars

\* Threads and the event loop run, the provider answers or the call times out,
\* and a client takes its next frame or goes away.
FairSpec ==
    /\ Spec
    /\ \A r \in Requests :
          /\ WF_vars(RouteStep(r))
          /\ WF_vars(LoopStep(r) \/ Stop(r))
          /\ WF_vars(WorkerStep(r))

-----------------------------------------------------------------------------
(* Properties. *)

TypeOK ==
    /\ pc \in [Requests -> Steps]
    /\ streams \in [Requests -> BOOLEAN]
    /\ tracked \in [Requests -> BOOLEAN]
    /\ registry \subseteq {r \in Requests : tracked[r]}
    /\ Cardinality(registry) <= ActivityLimit
    /\ complete \in BOOLEAN
    /\ loop \in [Requests -> {"next", "waiting", "chunk", "end"}]
    /\ worker \in [Requests -> {"none", "queued", "reading"}]
    /\ generator \in [Requests -> {"fresh", "suspended", "ended", "closed"}]
    /\ sdk \in [Requests -> [chunks: 0..MaxChunks, reason: BOOLEAN,
                             exhausted: BOOLEAN, closed: BOOLEAN]]
    /\ flags \in [Requests -> [interrupted: BOOLEAN, completed: BOOLEAN,
                               delivered: BOOLEAN, terminal: BOOLEAN]]
    /\ outcomes \in [Requests -> Seq(BOOLEAN)]
    /\ captured \in [Requests -> BOOLEAN]

\* An upstream attempt never has two outcomes, although the worker thread, the
\* close of the generator and the end of the response may each record one.
OneOutcome == \A r \in Requests : Len(outcomes[r]) <= 1

\* A stream is recorded as a success, and its continuation kept, only when the
\* provider finished it with a reason and the client was given its last frame.
SuccessIsDelivered ==
    \A r \in Requests :
        streams[r] /\ (captured[r] \/ TRUE \in {outcomes[r][i] :
                                                  i \in DOMAIN outcomes[r]})
        => /\ sdk[r].exhausted /\ sdk[r].reason
           /\ flags[r].terminal

\* The provider's stream is never closed while a worker is reading it, although
\* the event loop that closes it may have given up on that worker.
ClosedAfterRead ==
    \A r \in Requests : sdk[r].closed => worker[r] # "reading"

\* The upstream exchange of r is under way.
InFlight(r) ==
    \/ pc[r] \in {"call", "capture", "respond", "reply"}
    \/ pc[r] = "serving" /\ generator[r] # "ended"
    \/ worker[r] = "reading"

\* A registry that says it is complete lists every exchange under way, and
\* nothing that is over.
RegistryIsTrue ==
    /\ complete => \A r \in Requests : InFlight(r) => r \in registry
    /\ \A r \in Requests : pc[r] \in {"new", "settle", "done"} => r \notin registry

\* A stream that is being served comes to an end, whatever the client, the
\* provider and the server do: its outcome is recorded, the provider's stream
\* closed and its activity finished.
StreamsSettle ==
    \A r \in Requests :
        pc[r] = "serving" ~> /\ pc[r] = "done"
                             /\ outcomes[r] # <<>>
                             /\ sdk[r].closed
                             /\ r \notin registry

=============================================================================
