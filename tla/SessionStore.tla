---------------------------- MODULE SessionStore ----------------------------
(***************************************************************************)
(* The in-memory conversation state of the gateway: MemorySessionStore     *)
(* (jev_gateway/sessions.py) together with the two writers that feed it,   *)
(* RoutingEngine.decide and RoutingEngine.record_outcome                   *)
(* (jev_gateway/decision.py), as chat requests drive them                  *)
(* (chat_completions in jev_gateway/gateway.py).                           *)
(*                                                                         *)
(* Every store method runs under the store's lock and is one step here.    *)
(* A chat request makes several of them in a row under reload_lock, and    *)
(* its outcome later without it, so outcomes, dashboard reads, the passage *)
(* of time and other conversations fall between the steps of a decision.   *)
(***************************************************************************)
EXTENDS Integers, FiniteSets, Functions

CONSTANTS
    Sids,          \* conversation keys, as derive_session_id returns them
    Requests,      \* chat requests, each served once
    Routes,        \* catalog models a strategy may select
    Ttls,          \* values session_ttl_seconds takes over reloads
    Limits,        \* values max_sessions takes over reloads
    DefaultTtl,    \* session_ttl_seconds at start
    DefaultLimit,  \* max_sessions at start
    ClockLag,      \* engine clock minus store clock, at any one instant
    MaxClock,      \* bound of a run: the engine clock stops here
    None           \* Python's None

\* _gateway_from_document rejects a non-positive TTL and a limit below one.
ASSUME ConstantsAssumption ==
    /\ IsFiniteSet(Sids)
    /\ Ttls \subseteq Nat \ {0} /\ DefaultTtl \in Ttls
    /\ Limits \subseteq Nat \ {0} /\ DefaultLimit \in Limits
    /\ ClockLag \in Nat /\ MaxClock \in Nat
    /\ None \notin Sids \cup Requests \cup Routes \cup Int

VARIABLES
    clock,           \* RoutingEngine._clock()
    ttl,             \* MemorySessionStore.ttl_seconds
    maxSessions,     \* MemorySessionStore.max_sessions
    live,            \* _sessions: key -> SessionState
    inserted,        \* how many keys were ever inserted in _sessions: a dict
                     \* keeps insertion order, which breaks ties of eviction
    intake,          \* _pending_intake: key -> (received_at, sequence)
    intakeSeen,      \* _pending_clock: key -> store clock when last seen
    intakeSequence,  \* _intake_sequence
    request,         \* progress of each chat request
    reloadLock       \* holder of the reload_lock of create_app, or None

storeVars == <<live, inserted, intake, intakeSeen, intakeSequence>>
limitVars == <<ttl, maxSessions>>
vars == <<clock, limitVars, storeVars, request, reloadLock>>

Times == 0..MaxClock

\* SessionState, reduced to what eviction, expiry and re-routing read. The
\* field slot is the position of the key in the dict.
SessionState ==
    [route: Routes, updated: Times, first: Times \cup {None}, slot: Nat \ {0},
     switches: Nat, failures: Nat, truncations: Nat]

RequestState ==
    [pc: {"new", "snapshot", "decide", "persist", "fetch", "upstream", "done"},
     sid: Sids \cup {None}, seen: Routes \cup {None},
     route: Routes \cup {None}, from: Routes \cup {None},
     now: Times \cup {None}]

Idle == [pc |-> "new", sid |-> None, seen |-> None, route |-> None,
         from |-> None, now |-> None]

NoEntries == [s \in {} |-> None]

Init ==
    /\ clock = 0
    /\ ttl = DefaultTtl
    /\ maxSessions = DefaultLimit
    /\ live = NoEntries
    /\ inserted = 0
    /\ intake = NoEntries
    /\ intakeSeen = NoEntries
    /\ intakeSequence = 0
    /\ request = [r \in Requests |-> Idle]
    /\ reloadLock = None

-----------------------------------------------------------------------------
(* MemorySessionStore. *)

\* The store's own clock. It defaults to time.monotonic, the engine's to
\* time.time; ClockLag is 0 when the two are given the same clock.
StoreClock == clock - ClockLag

Stale(s, limit) == StoreClock - live[s].updated > limit

Expired == {s \in DOMAIN live : Stale(s, ttl)}

StaleIntake(limit) == {s \in DOMAIN intake : StoreClock - intakeSeen[s] > limit}

KeptIntake == DOMAIN intake \ StaleIntake(ttl)

Put(f, key, value) ==
    [k \in DOMAIN f \cup {key} |-> IF k = key THEN value ELSE f[k]]

Discard(f, keys) == Restrict(f, DOMAIN f \ keys)

\* What a bounded map gives up: its excess over the limit, oldest first. The
\* pairs of keys in older are those whose first is the older one.
Surplus(keys, limit, older) ==
    {gone \in SUBSET keys :
        /\ Cardinality(gone) =
              IF Cardinality(keys) > limit THEN Cardinality(keys) - limit ELSE 0
        /\ \A g \in gone, k \in keys \ gone : <<g, k>> \in older}

\* Variant: of sessions updated at one time, the one inserted last goes first.
LessRecentLastIn(sessions, a, b) ==
    \/ sessions[a].updated < sessions[b].updated
    \/ /\ sessions[a].updated = sessions[b].updated
       /\ sessions[a].slot > sessions[b].slot

LessRecent(sessions, a, b) ==
    \/ sessions[a].updated < sessions[b].updated
    \/ /\ sessions[a].updated = sessions[b].updated
       /\ sessions[a].slot < sessions[b].slot

UpdateOrder(sessions) ==
    {pair \in (DOMAIN sessions) \X (DOMAIN sessions) :
        LessRecent(sessions, pair[1], pair[2])}

\* Variant: an off-by-one in the loop that evicts.
EvictBeyond(sessions, limit) ==
    \E gone \in Surplus(DOMAIN sessions, limit + 1, UpdateOrder(sessions)) :
        live' = Discard(sessions, gone)

\* Evict the least recently updated sessions beyond the limit.
Evict(sessions, limit) ==
    \E gone \in Surplus(DOMAIN sessions, limit, UpdateOrder(sessions)) :
        live' = Discard(sessions, gone)

\* Drop the pending intakes that were recorded first beyond the limit.
TrimIntake(pending, seen, limit) ==
    LET older == {pair \in (DOMAIN pending) \X (DOMAIN pending) :
                     pending[pair[1]].seq < pending[pair[2]].seq}
    IN  \E gone \in Surplus(DOMAIN pending, limit, older) :
            /\ intake' = Discard(pending, gone)
            /\ intakeSeen' = Discard(seen, gone)

Earlier(a, b) == IF a = None \/ b < a THEN b ELSE a

\* record_intake on a conversation whose session is live.
IntakeOfLiveSession(s) ==
    /\ s \in DOMAIN live \ Expired
    /\ live' = [live EXCEPT ![s].first = Earlier(@, clock)]
    /\ intake' = Restrict(intake, KeptIntake)
    /\ intakeSeen' = Restrict(intakeSeen, KeptIntake)
    /\ UNCHANGED intakeSequence

\* record_intake on a conversation that is already pending.
IntakeAgain(s) ==
    /\ s \notin DOMAIN live \ Expired
    /\ s \in KeptIntake
    /\ live' = Discard(live, {s})
    /\ intake' = [Restrict(intake, KeptIntake)
                    EXCEPT ![s].received = Earlier(@, clock)]
    /\ intakeSeen' = [Restrict(intakeSeen, KeptIntake) EXCEPT ![s] = StoreClock]
    /\ UNCHANGED intakeSequence

\* record_intake on a conversation the store knows nothing about.
IntakeOfNewSession(s) ==
    /\ s \notin DOMAIN live \ Expired
    /\ s \notin KeptIntake
    /\ live' = Discard(live, {s})
    /\ intakeSequence' = intakeSequence + 1
    /\ TrimIntake(
          Put(Restrict(intake, KeptIntake), s,
              [received |-> clock, seq |-> intakeSequence + 1]),
          Put(Restrict(intakeSeen, KeptIntake), s, StoreClock),
          maxSessions)

RecordIntake(s) ==
    /\ \/ IntakeOfLiveSession(s)
       \/ IntakeAgain(s)
       \/ IntakeOfNewSession(s)
    /\ UNCHANGED inserted

\* _get_locked: a read drops the session it asked for when that has expired.
DropIfExpired(s) ==
    /\ live' = Discard(live, {s} \cap Expired)
    /\ UNCHANGED <<inserted, intake, intakeSeen, intakeSequence>>

\* mutate with a live session: update it in place, to the given state.
MutateExisting(s, state) ==
    /\ s \in DOMAIN live \ Expired
    /\ Evict([live EXCEPT ![s] = state], maxSessions)
    /\ UNCHANGED <<inserted, intake, intakeSeen, intakeSequence>>

\* The state mutate passes to the update of a new session: it takes the first
\* request time that was pending.
Created(s, fresh) ==
    [fresh EXCEPT !.first = IF s \in KeptIntake THEN intake[s].received
                            ELSE None,
                  !.slot = inserted + 1]

\* Variant: the new session copies the pending first request time and leaves
\* it pending.
MutateCreatingPeeks(s, state) ==
    /\ s \notin DOMAIN live \ Expired
    /\ inserted' = inserted + 1
    /\ Evict(Put(live, s, state), maxSessions)
    /\ intake' = Restrict(intake, KeptIntake)
    /\ intakeSeen' = Restrict(intakeSeen, KeptIntake)
    /\ UNCHANGED intakeSequence

\* mutate without a session and with a factory: insert the created and updated
\* state, and forget what was pending.
MutateCreating(s, state) ==
    /\ s \notin DOMAIN live \ Expired
    /\ inserted' = inserted + 1
    /\ Evict(Put(live, s, state), maxSessions)
    /\ intake' = Restrict(intake, KeptIntake \ {s})
    /\ intakeSeen' = Restrict(intakeSeen, KeptIntake \ {s})
    /\ UNCHANGED intakeSequence

\* mutate without a session and without a factory: nothing to update.
MutateMissing(s) ==
    /\ s \notin DOMAIN live \ Expired
    /\ DropIfExpired(s)

-----------------------------------------------------------------------------
(* A chat request. From Intake to Fetch it holds reload_lock. *)

\* Variant: decisions on two conversations, or on one, are not serialised.
IntakeUnlocked(r, s) ==
    /\ request[r].pc = "new"
    /\ reloadLock' = r
    /\ RecordIntake(s)
    /\ request' = [request EXCEPT ![r].pc = "snapshot", ![r].sid = s]
    /\ UNCHANGED <<clock, limitVars>>

\* chat_completions takes reload_lock and records the intake, then copies the
\* session to learn its pinned strategy, which changes nothing more.
Intake(r, s) ==
    /\ request[r].pc = "new"
    /\ reloadLock = None
    /\ reloadLock' = r
    /\ RecordIntake(s)
    /\ request' = [request EXCEPT ![r].pc = "snapshot", ![r].sid = s]
    /\ UNCHANGED <<clock, limitVars>>

\* decide copies the session; the strategy works on that copy.
Snapshot(r) ==
    /\ request[r].pc = "snapshot"
    /\ DropIfExpired(request[r].sid)
    /\ request' = [request EXCEPT
                      ![r].pc = "decide",
                      ![r].seen = IF request[r].sid \in DOMAIN live \ Expired
                                  THEN live[request[r].sid].route
                                  ELSE None]
    /\ UNCHANGED <<clock, limitVars, reloadLock>>

\* The strategy has answered, possibly after asking a decision provider, and
\* _persist reads the clock. A strategy reports the model it left only when it
\* moves a session to another one.
Decide(r, route, from) ==
    /\ request[r].pc = "decide"
    /\ from # None => from = request[r].seen /\ from # route
    /\ request' = [request EXCEPT ![r].pc = "persist", ![r].route = route,
                                  ![r].from = from, ![r].now = clock]
    /\ UNCHANGED <<clock, limitVars, storeVars, reloadLock>>

\* Routing refused the request (unknown model or strategy, no usable model):
\* the exception leaves the reload_lock block.
Reject(r) ==
    /\ request[r].pc \in {"snapshot", "decide"}
    /\ reloadLock' = None
    /\ request' = [request EXCEPT ![r] = [Idle EXCEPT !.pc = "done"]]
    /\ UNCHANGED <<clock, limitVars, storeVars>>

\* The SessionState that _persist's factory builds.
FreshSession(q) ==
    [route |-> q.route, updated |-> q.now, first |-> None, slot |-> 1,
     switches |-> 0, failures |-> 0, truncations |-> 0]

\* Variant: the session is rebuilt from the decision instead of updated.
RoutedAfresh(q, state) ==
    [FreshSession(q) EXCEPT !.slot = state.slot,
                            !.switches = IF q.from = None THEN state.switches
                                         ELSE state.switches + 1]

\* Variant: the session keeps the model that the decision left.
RoutedBack(q, state) ==
    [state EXCEPT !.route = q.from, !.updated = q.now]

\* The update that _persist passes to mutate.
Routed(q, state) ==
    [state EXCEPT !.route = q.route,
                  !.switches = IF q.from = None THEN @ ELSE @ + 1,
                  !.updated = q.now]

\* _persist writes the decision to the canonical session, never the copy.
Persist(r) ==
    LET q == request[r]
    IN  /\ q.pc = "persist"
        /\ \/ MutateExisting(q.sid, Routed(q, live[q.sid]))
           \/ MutateCreating(q.sid,
                             Routed(q, Created(q.sid, FreshSession(q))))
        /\ request' = [request EXCEPT ![r].pc = "fetch"]
        /\ UNCHANGED <<clock, limitVars, reloadLock>>

\* chat_completions fetches the session again and releases reload_lock.
Fetch(r) ==
    /\ request[r].pc = "fetch"
    /\ DropIfExpired(request[r].sid)
    /\ reloadLock' = None
    /\ request' = [request EXCEPT
                      ![r] = [Idle EXCEPT !.pc = "upstream",
                                          !.sid = request[r].sid]]
    /\ UNCHANGED <<clock, limitVars>>

\* How the provider's answer ends: complete, cut at the output cap, or failed.
Results == {"complete", "length", "error"}

\* The update that record_outcome passes to mutate.
Observed(result, state) ==
    [state EXCEPT !.failures = IF result = "error" THEN @ + 1 ELSE 0,
                  !.truncations = CASE result = "length" -> @ + 1
                                    [] result = "complete" -> 0
                                    [] OTHER -> @,
                  !.updated = clock]

\* record_outcome feeds the result into the session, if there still is one.
RecordOutcome(r, result) ==
    LET s == request[r].sid
    IN  /\ request[r].pc = "upstream"
        /\ \/ MutateExisting(s, Observed(result, live[s]))
           \/ MutateMissing(s)
        /\ request' = [request EXCEPT ![r] = [Idle EXCEPT !.pc = "done"]]
        /\ UNCHANGED <<clock, limitVars, reloadLock>>

\* A request that ends without an outcome: its provider has no credentials, or
\* the response could not be captured.
Abandon(r) ==
    /\ request[r].pc = "upstream"
    /\ request' = [request EXCEPT ![r] = [Idle EXCEPT !.pc = "done"]]
    /\ UNCHANGED <<clock, limitVars, storeVars, reloadLock>>

-----------------------------------------------------------------------------
(* Everyone else. *)

\* The dashboard reads one session, or a preview copies it.
Inspect(s) ==
    /\ DropIfExpired(s)
    /\ UNCHANGED <<clock, limitVars, request, reloadLock>>

\* snapshots and prune drop every expired session.
DropExpired ==
    /\ live' = Discard(live, Expired)
    /\ UNCHANGED <<clock, limitVars, inserted, intake, intakeSeen,
                   intakeSequence, request, reloadLock>>

\* configure, called by apply_settings when a configuration is activated.
Configure(newTtl, newLimit) ==
    /\ reloadLock = None
    /\ ttl' = newTtl
    /\ maxSessions' = newLimit
    /\ TrimIntake(Discard(intake, StaleIntake(newTtl)),
                  Discard(intakeSeen, StaleIntake(newTtl)), newLimit)
    /\ Evict(Discard(live, {s \in DOMAIN live : Stale(s, newTtl)}), newLimit)
    /\ UNCHANGED <<clock, inserted, intakeSequence, request, reloadLock>>

Tick ==
    /\ clock < MaxClock
    /\ clock' = clock + 1
    /\ UNCHANGED <<limitVars, storeVars, request, reloadLock>>

RequestStep(r) ==
    \/ \E s \in Sids : Intake(r, s)
    \/ Snapshot(r)
    \/ \E route \in Routes, from \in Routes \cup {None} : Decide(r, route, from)
    \/ Reject(r)
    \/ Persist(r)
    \/ Fetch(r)
    \/ \E result \in Results : RecordOutcome(r, result)
    \/ Abandon(r)

Next ==
    \/ \E r \in Requests : RequestStep(r)
    \/ \E s \in Sids : Inspect(s)
    \/ DropExpired
    \/ \E newTtl \in Ttls, newLimit \in Limits : Configure(newTtl, newLimit)
    \/ Tick

Spec == Init /\ [][Next]_vars

-----------------------------------------------------------------------------
(* Properties. *)

TypeOK ==
    /\ clock \in Times
    /\ ttl \in Ttls
    /\ maxSessions \in Limits
    /\ inserted \in Nat
    /\ intakeSequence \in Nat
    /\ live \in [DOMAIN live -> SessionState] /\ DOMAIN live \subseteq Sids
    /\ intake \in [DOMAIN intake -> [received: Times, seq: Nat \ {0}]]
    /\ intakeSeen \in [DOMAIN intakeSeen -> Int]
    /\ DOMAIN intake \subseteq Sids
    /\ request \in [Requests -> RequestState]
    /\ reloadLock \in Requests \cup {None}

\* Neither map ever holds more than max_sessions entries, whatever limits
\* reloads set and however decisions, intakes and evictions interleave.
WithinLimits ==
    /\ Cardinality(DOMAIN live) <= maxSessions
    /\ Cardinality(DOMAIN intake) <= maxSessions

\* The two intake dicts always describe the same conversations, and none of
\* them has a session: a pending first request time can neither outlive the
\* session it belongs to nor be handed to a later one twice.
IntakeBookkeeping ==
    /\ DOMAIN intakeSeen = DOMAIN intake
    /\ DOMAIN intake \cap DOMAIN live = {}
    /\ \A a, b \in DOMAIN intake : intake[a].seq = intake[b].seq => a = b

\* Decisions and outcomes own different fields of a session. A decision keeps
\* every counter an outcome wrote while the decision was being made (_persist
\* drops the snapshot it decided on), and an outcome, however late, never
\* moves the session back to the route its own request had used.
NoLostUpdate ==
    [][\A s \in DOMAIN live \cap DOMAIN live' :
          /\ s \notin Expired /\ (\E r \in Requests : Persist(r)) =>
                /\ live'[s].failures = live[s].failures
                /\ live'[s].truncations = live[s].truncations
                /\ live'[s].first = live[s].first
          /\ (\E r \in Requests : request[r].pc = "upstream"
                                   /\ request'[r].pc = "done") =>
                /\ live'[s].route = live[s].route
                /\ live'[s].switches = live[s].switches]_vars

\* A switch that a decision reports left the model the session really had at
\* that moment: between the copy a strategy read and the write of its decision
\* no other decision moved the session.
SwitchLeavesCurrentRoute ==
    [][\A s \in DOMAIN live \cap DOMAIN live', r \in Requests :
          /\ request[r].pc = "persist" /\ request'[r].pc = "fetch"
          /\ request[r].sid = s /\ s \notin Expired
          /\ request[r].from # None
          => request[r].from = live[s].route]_vars

\* A decision leaves a session behind. _persist stamps it with a clock it read
\* before it had the store's lock, so its own write may evict it, but only a new
\* one, and only from a full store in which every session was updated after
\* that reading: a tie falls on the others, which were inserted earlier.
DecisionLeavesSession ==
    [][\A r \in Requests :
          /\ request[r].pc = "persist" /\ request'[r].pc = "fetch"
          /\ request[r].sid \notin DOMAIN live'
          => /\ request[r].sid \notin DOMAIN live \ Expired
             /\ Cardinality(DOMAIN live') = maxSessions
             /\ \A s \in DOMAIN live' :
                   live'[s].updated > request[r].now]_vars

\* A conversation idle for longer than session_ttl_seconds is not continued:
\* the strategy is not shown its session.
IdleSessionNotContinued ==
    [][\A r \in Requests :
          request[r].pc = "snapshot" /\ request'[r].pc = "decide"
          /\ request'[r].seen # None
          => clock - live[request[r].sid].updated <= ttl]_vars

\* Only a decision brings a session into being. An outcome that arrives after
\* its session expired or was evicted is dropped, and reads and reloads only
\* ever remove sessions.
OnlyDecisionsCreate ==
    [][DOMAIN live' \subseteq DOMAIN live
       \/ \E r \in Requests :
             /\ request[r].pc = "persist" /\ request'[r].pc = "fetch"
             /\ DOMAIN live' \ DOMAIN live = {request[r].sid}]_vars

=============================================================================
