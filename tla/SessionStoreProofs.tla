------------------------- MODULE SessionStoreProofs -------------------------
(* Proofs of the invariants of SessionStore for every value of its constants. *)
EXTENDS SessionStore, FiniteSetTheorems, TLAPS

\* Intake sequence numbers never run ahead of the counter that hands them out,
\* which is what keeps them distinct.
SequenceBounded == \A s \in DOMAIN intake : intake[s].seq <= intakeSequence

\* Everything about the store's own dicts.
StoreInv ==
    /\ inserted \in Nat
    /\ intakeSequence \in Nat
    /\ live \in [DOMAIN live -> SessionState] /\ DOMAIN live \subseteq Sids
    /\ intake \in [DOMAIN intake -> [received: Times, seq: Nat \ {0}]]
    /\ intakeSeen \in [DOMAIN intakeSeen -> Int]
    /\ DOMAIN intake \subseteq Sids
    /\ WithinLimits
    /\ IntakeBookkeeping
    /\ SequenceBounded

\* What a request has filled in by the time it reaches a step.
RequestProgress ==
    \A r \in Requests :
        /\ request[r].pc \in {"snapshot", "decide", "persist", "fetch", "upstream"}
              => request[r].sid \in Sids
        /\ request[r].pc = "persist"
              => request[r].route \in Routes /\ request[r].now \in Times

\* Everything about the clock, the settings and the requests.
RequestInv ==
    /\ clock \in Times
    /\ ttl \in Ttls
    /\ maxSessions \in Limits
    /\ request \in [Requests -> RequestState]
    /\ reloadLock \in Requests \cup {None}
    /\ RequestProgress

IInv == RequestInv /\ StoreInv

-----------------------------------------------------------------------------
(* Lemmas about the operators. *)

\* What is left of a bounded map once its surplus is gone fits the limit.
LEMMA SurplusFits ==
    ASSUME NEW keys, IsFiniteSet(keys), NEW limit \in Nat,
           NEW gone \in SUBSET keys,
           Cardinality(gone) =
              IF Cardinality(keys) > limit THEN Cardinality(keys) - limit ELSE 0
    PROVE  Cardinality(keys \ gone) <= limit
<1>1. Cardinality(keys) \in Nat
    BY FS_CardinalityType
<1>2. Cardinality(keys \ gone) = Cardinality(keys) - Cardinality(keys \cap gone)
    BY FS_Difference
<1>3. keys \cap gone = gone
    OBVIOUS
<1> QED
    BY <1>1, <1>2, <1>3

\* A restriction of a well-typed map is well typed.
LEMMA DiscardType ==
    ASSUME NEW f, NEW T, f \in [DOMAIN f -> T], NEW keys
    PROVE  /\ DOMAIN Discard(f, keys) = DOMAIN f \ keys
           /\ Discard(f, keys) \in [DOMAIN Discard(f, keys) -> T]
           /\ \A k \in DOMAIN f \ keys : Discard(f, keys)[k] = f[k]
BY DEF Discard, Restrict

\* Eviction keeps well-typed sessions, drops some, and leaves at most limit.
LEMMA EvictFits ==
    ASSUME NEW sessions, sessions \in [DOMAIN sessions -> SessionState],
           IsFiniteSet(DOMAIN sessions), NEW limit \in Nat,
           Evict(sessions, limit)
    PROVE  /\ live' \in [DOMAIN live' -> SessionState]
           /\ DOMAIN live' \subseteq DOMAIN sessions
           /\ Cardinality(DOMAIN live') <= limit
           /\ \A s \in DOMAIN live' : live'[s] = sessions[s]
<1>1. PICK gone \in SUBSET DOMAIN sessions :
         /\ Cardinality(gone) =
              IF Cardinality(DOMAIN sessions) > limit
              THEN Cardinality(DOMAIN sessions) - limit ELSE 0
         /\ live' = Discard(sessions, gone)
    BY DEF Evict, Surplus
<1>2. Cardinality(DOMAIN sessions \ gone) <= limit
    BY <1>1, SurplusFits
<1>3. /\ DOMAIN live' = DOMAIN sessions \ gone
      /\ live' \in [DOMAIN live' -> SessionState]
      /\ \A s \in DOMAIN sessions \ gone : live'[s] = sessions[s]
    BY <1>1, DiscardType
<1> QED
    BY <1>2, <1>3

\* Trimming pending intakes keeps the two dicts on the same keys, drops some,
\* and leaves at most limit.
LEMMA TrimFits ==
    ASSUME NEW pending, NEW seen, NEW T, NEW limit \in Nat,
           pending \in [DOMAIN pending -> T], seen \in [DOMAIN pending -> Int],
           IsFiniteSet(DOMAIN pending),
           TrimIntake(pending, seen, limit)
    PROVE  /\ intake' \in [DOMAIN intake' -> T]
           /\ intakeSeen' \in [DOMAIN intakeSeen' -> Int]
           /\ DOMAIN intakeSeen' = DOMAIN intake'
           /\ DOMAIN intake' \subseteq DOMAIN pending
           /\ Cardinality(DOMAIN intake') <= limit
           /\ \A s \in DOMAIN intake' : intake'[s] = pending[s]
<1>1. PICK gone \in SUBSET DOMAIN pending :
         /\ Cardinality(gone) =
              IF Cardinality(DOMAIN pending) > limit
              THEN Cardinality(DOMAIN pending) - limit ELSE 0
         /\ intake' = Discard(pending, gone)
         /\ intakeSeen' = Discard(seen, gone)
    BY DEF TrimIntake, Surplus
<1>2. Cardinality(DOMAIN pending \ gone) <= limit
    BY <1>1, SurplusFits
<1>3. /\ DOMAIN intake' = DOMAIN pending \ gone
      /\ intake' \in [DOMAIN intake' -> T]
      /\ \A s \in DOMAIN pending \ gone : intake'[s] = pending[s]
    BY <1>1, DiscardType
<1>4. /\ DOMAIN intakeSeen' = DOMAIN pending \ gone
      /\ intakeSeen' \in [DOMAIN intakeSeen' -> Int]
    BY <1>1, DiscardType
<1> QED
    BY <1>2, <1>3, <1>4

\* The assumptions on the constants, in the form the proofs use.
LEMMA Constants ==
    /\ \A s \in SUBSET Sids : IsFiniteSet(s)
    /\ Ttls \subseteq Nat /\ DefaultTtl \in Ttls
    /\ Limits \subseteq Nat \ {0} /\ DefaultLimit \in Limits
    /\ Times \subseteq Nat /\ 0 \in Times
    /\ clock \in Times => StoreClock \in Int
<1>1. \A s \in SUBSET Sids : IsFiniteSet(s)
    BY FS_Subset, ConstantsAssumption
<1> QED
    BY <1>1, ConstantsAssumption DEF Times, StoreClock

\* Dropping sessions disturbs nothing.
LEMMA DropKeepsStore ==
    ASSUME StoreInv, maxSessions \in Limits, UNCHANGED maxSessions,
           NEW gone, live' = Discard(live, gone),
           UNCHANGED <<inserted, intake, intakeSeen, intakeSequence>>
    PROVE  StoreInv'
<1>1. /\ DOMAIN live' = DOMAIN live \ gone
      /\ live' \in [DOMAIN live' -> SessionState]
    BY DiscardType DEF StoreInv
<1>2. Cardinality(DOMAIN live') <= maxSessions'
    <2>1. IsFiniteSet(DOMAIN live) /\ DOMAIN live' \in SUBSET DOMAIN live
        BY <1>1, Constants DEF StoreInv
    <2>2. /\ Cardinality(DOMAIN live') <= Cardinality(DOMAIN live)
          /\ Cardinality(DOMAIN live) \in Nat /\ Cardinality(DOMAIN live') \in Nat
        BY <2>1, FS_Subset, FS_CardinalityType
    <2> QED
        BY <2>2, Constants DEF StoreInv, WithinLimits
<1> QED
    BY <1>1, <1>2 DEF StoreInv, WithinLimits, IntakeBookkeeping, SequenceBounded

\* Restricting the two intake dicts to the same keys disturbs nothing.
LEMMA RestrictIntake ==
    ASSUME StoreInv, NEW kept, kept \subseteq DOMAIN intake,
           maxSessions \in Limits
    PROVE  /\ DOMAIN Restrict(intake, kept) = kept
           /\ DOMAIN Restrict(intakeSeen, kept) = kept
           /\ Restrict(intake, kept)
                 \in [kept -> [received: Times, seq: Nat \ {0}]]
           /\ Restrict(intakeSeen, kept) \in [kept -> Int]
           /\ \A s \in kept : Restrict(intake, kept)[s] = intake[s]
           /\ IsFiniteSet(kept)
           /\ Cardinality(kept) <= maxSessions
<1>1. IsFiniteSet(DOMAIN intake) /\ kept \in SUBSET DOMAIN intake
    BY Constants DEF StoreInv
<1>2. /\ Cardinality(kept) <= Cardinality(DOMAIN intake)
      /\ Cardinality(DOMAIN intake) \in Nat /\ Cardinality(kept) \in Nat
      /\ IsFiniteSet(kept)
    BY <1>1, FS_Subset, FS_CardinalityType
<1>3. Cardinality(kept) <= maxSessions
    BY <1>2, Constants DEF StoreInv, WithinLimits
<1>4. DOMAIN intakeSeen = DOMAIN intake
    BY DEF StoreInv, IntakeBookkeeping
<1> QED
    BY <1>2, <1>3, <1>4 DEF StoreInv, Restrict

\* mutate on a live session.
LEMMA UpdateKeepsStore ==
    ASSUME StoreInv, maxSessions \in Limits, UNCHANGED maxSessions,
           NEW s \in DOMAIN live, NEW new \in SessionState,
           Evict([live EXCEPT ![s] = new], maxSessions),
           UNCHANGED <<inserted, intake, intakeSeen, intakeSequence>>
    PROVE  StoreInv'
<1> DEFINE updated == [live EXCEPT ![s] = new]
<1>1. /\ DOMAIN updated = DOMAIN live
      /\ updated \in [DOMAIN updated -> SessionState]
      /\ IsFiniteSet(DOMAIN updated)
    BY Constants DEF StoreInv
<1>2. maxSessions \in Nat
    BY Constants
<1> HIDE DEF updated
<1>3. /\ live' \in [DOMAIN live' -> SessionState]
      /\ DOMAIN live' \subseteq DOMAIN updated
      /\ Cardinality(DOMAIN live') <= maxSessions
    BY <1>1, <1>2, EvictFits DEF updated
<1> QED
    BY <1>1, <1>3 DEF StoreInv, WithinLimits, IntakeBookkeeping, SequenceBounded

\* mutate that creates the session: it takes its pending intake along.
LEMMA CreateKeepsStore ==
    ASSUME StoreInv, maxSessions \in Limits, UNCHANGED maxSessions,
           NEW s \in Sids, NEW new \in SessionState,
           Evict(Put(live, s, new), maxSessions),
           inserted' = inserted + 1,
           intake' = Restrict(intake, KeptIntake \ {s}),
           intakeSeen' = Restrict(intakeSeen, KeptIntake \ {s}),
           UNCHANGED intakeSequence
    PROVE  StoreInv'
<1> DEFINE created == Put(live, s, new)
           kept == KeptIntake \ {s}
<1>1. /\ DOMAIN created = DOMAIN live \cup {s}
      /\ created \in [DOMAIN created -> SessionState]
    BY DEF StoreInv, Put
<1>2. IsFiniteSet(DOMAIN created) /\ maxSessions \in Nat
    BY <1>1, Constants DEF StoreInv
<1> HIDE DEF created
<1>3. /\ live' \in [DOMAIN live' -> SessionState]
      /\ DOMAIN live' \subseteq DOMAIN created
      /\ Cardinality(DOMAIN live') <= maxSessions
    BY <1>1, <1>2, EvictFits DEF created
<1>4. kept \subseteq DOMAIN intake /\ s \notin kept
    BY DEF KeptIntake
<1> HIDE DEF kept
<1>5. /\ DOMAIN intake' = kept /\ DOMAIN intakeSeen' = kept
      /\ intake' \in [kept -> [received: Times, seq: Nat \ {0}]]
      /\ intakeSeen' \in [kept -> Int]
      /\ \A k \in kept : intake'[k] = intake[k]
      /\ Cardinality(kept) <= maxSessions
    BY <1>4, RestrictIntake DEF kept
<1>6. WithinLimits'
    BY <1>3, <1>5 DEF WithinLimits
<1>7. IntakeBookkeeping'
    <2>1. DOMAIN intake' \cap DOMAIN live' = {}
        <3>1. DOMAIN intake \cap DOMAIN live = {}
            BY DEF StoreInv, IntakeBookkeeping
        <3> QED
            BY <1>1, <1>3, <1>4, <1>5, <3>1
    <2>2. \A a, b \in DOMAIN intake' : intake'[a].seq = intake'[b].seq => a = b
        <3>1. \A a, b \in DOMAIN intake : intake[a].seq = intake[b].seq => a = b
            BY DEF StoreInv, IntakeBookkeeping
        <3>2. \A k \in DOMAIN intake' : k \in DOMAIN intake /\ intake'[k] = intake[k]
            BY <1>4, <1>5
        <3> QED
            BY <3>1, <3>2
    <2> QED
        BY <1>5, <2>1, <2>2 DEF IntakeBookkeeping
<1>8. SequenceBounded'
    BY <1>4, <1>5 DEF StoreInv, SequenceBounded
<1>9. inserted' \in Nat /\ intakeSequence' \in Nat
    BY DEF StoreInv
<1>10. DOMAIN live' \subseteq Sids /\ DOMAIN intake' \subseteq Sids
    BY <1>1, <1>3, <1>4, <1>5 DEF StoreInv
<1> QED
    BY <1>3, <1>5, <1>6, <1>7, <1>8, <1>9, <1>10 DEF StoreInv

\* record_intake.
LEMMA IntakeKeepsStore ==
    ASSUME StoreInv, clock \in Times, maxSessions \in Limits,
           UNCHANGED maxSessions, NEW s \in Sids, RecordIntake(s)
    PROVE  StoreInv'
<1>1. StoreClock \in Int /\ maxSessions \in Nat
    BY Constants
<1>2. KeptIntake \subseteq DOMAIN intake
    BY DEF KeptIntake
<1>3. /\ DOMAIN Restrict(intake, KeptIntake) = KeptIntake
      /\ DOMAIN Restrict(intakeSeen, KeptIntake) = KeptIntake
      /\ Restrict(intake, KeptIntake)
            \in [KeptIntake -> [received: Times, seq: Nat \ {0}]]
      /\ Restrict(intakeSeen, KeptIntake) \in [KeptIntake -> Int]
      /\ \A k \in KeptIntake : Restrict(intake, KeptIntake)[k] = intake[k]
      /\ IsFiniteSet(KeptIntake)
      /\ Cardinality(KeptIntake) <= maxSessions
    BY <1>2, RestrictIntake
<1>4. CASE IntakeOfLiveSession(s)
    <2>1. s \in DOMAIN live /\ Earlier(live[s].first, clock) \in Times
        BY <1>4, Constants DEF IntakeOfLiveSession, StoreInv, SessionState, Earlier
    <2>2. /\ DOMAIN live' = DOMAIN live
          /\ live' \in [DOMAIN live' -> SessionState]
        BY <1>4, <2>1 DEF IntakeOfLiveSession, StoreInv, SessionState
    <2>3. /\ intake' = Restrict(intake, KeptIntake)
          /\ intakeSeen' = Restrict(intakeSeen, KeptIntake)
          /\ UNCHANGED <<inserted, intakeSequence>>
        BY <1>4 DEF IntakeOfLiveSession, RecordIntake
    <2>4. WithinLimits'
        BY <1>3, <2>2, <2>3 DEF StoreInv, WithinLimits
    <2>5. IntakeBookkeeping' /\ SequenceBounded'
        BY <1>2, <1>3, <2>2, <2>3
        DEF StoreInv, IntakeBookkeeping, SequenceBounded
    <2> QED
        BY <1>2, <1>3, <2>2, <2>3, <2>4, <2>5 DEF StoreInv
<1>5. CASE IntakeAgain(s)
    <2>1. /\ s \in KeptIntake /\ s \in DOMAIN intake
          /\ Earlier(intake[s].received, clock) \in Times
        BY <1>2, <1>5, Constants DEF IntakeAgain, StoreInv, Earlier
    <2>2. /\ DOMAIN intake' = KeptIntake
          /\ intake' \in [KeptIntake -> [received: Times, seq: Nat \ {0}]]
          /\ \A k \in KeptIntake : intake'[k].seq = intake[k].seq
        BY <1>2, <1>3, <1>5, <2>1 DEF IntakeAgain
    <2>3. /\ DOMAIN intakeSeen' = KeptIntake
          /\ intakeSeen' \in [KeptIntake -> Int]
        BY <1>1, <1>3, <1>5, <2>1 DEF IntakeAgain
    <2>4. /\ live' = Discard(live, {s})
          /\ UNCHANGED <<inserted, intakeSequence>>
        BY <1>5 DEF IntakeAgain, RecordIntake
    <2>5. /\ DOMAIN live' = DOMAIN live \ {s}
          /\ live' \in [DOMAIN live' -> SessionState]
        BY <2>4, DiscardType DEF StoreInv
    <2>6. Cardinality(DOMAIN live') <= maxSessions
        <3>1. /\ IsFiniteSet(DOMAIN live)
              /\ DOMAIN live' \in SUBSET DOMAIN live
            BY <2>5, Constants DEF StoreInv
        <3>2. /\ Cardinality(DOMAIN live') <= Cardinality(DOMAIN live)
              /\ Cardinality(DOMAIN live) \in Nat
              /\ Cardinality(DOMAIN live') \in Nat
            BY <3>1, FS_Subset, FS_CardinalityType
        <3> QED
            BY <1>1, <3>2 DEF StoreInv, WithinLimits
    <2>7. WithinLimits'
        BY <1>3, <2>2, <2>6 DEF WithinLimits
    <2>8. IntakeBookkeeping' /\ SequenceBounded'
        BY <1>2, <2>2, <2>3, <2>4, <2>5
        DEF StoreInv, IntakeBookkeeping, SequenceBounded
    <2> QED
        BY <1>2, <2>2, <2>3, <2>4, <2>5, <2>7, <2>8 DEF StoreInv
<1>6. CASE IntakeOfNewSession(s)
    <2> DEFINE pending == Put(Restrict(intake, KeptIntake), s,
                              [received |-> clock, seq |-> intakeSequence + 1])
               seen == Put(Restrict(intakeSeen, KeptIntake), s, StoreClock)
    <2>1. /\ s \notin KeptIntake
          /\ live' = Discard(live, {s})
          /\ intakeSequence' = intakeSequence + 1
          /\ TrimIntake(pending, seen, maxSessions)
          /\ UNCHANGED inserted
        BY <1>6 DEF IntakeOfNewSession, RecordIntake
    <2>2. /\ DOMAIN pending = KeptIntake \cup {s}
          /\ pending \in [DOMAIN pending -> [received: Times, seq: Nat \ {0}]]
          /\ pending[s].seq = intakeSequence + 1
          /\ \A k \in KeptIntake : pending[k] = intake[k]
        BY <1>3, <2>1 DEF StoreInv, Put
    <2>3. seen \in [DOMAIN pending -> Int]
        BY <1>1, <1>3, <2>2 DEF Put
    <2>4. IsFiniteSet(DOMAIN pending)
        BY <1>3, <2>2, FS_AddElement
    <2> HIDE DEF pending, seen
    <2>5. /\ intake' \in [DOMAIN intake' -> [received: Times, seq: Nat \ {0}]]
          /\ intakeSeen' \in [DOMAIN intakeSeen' -> Int]
          /\ DOMAIN intakeSeen' = DOMAIN intake'
          /\ DOMAIN intake' \subseteq DOMAIN pending
          /\ Cardinality(DOMAIN intake') <= maxSessions
          /\ \A k \in DOMAIN intake' : intake'[k] = pending[k]
        BY <1>1, <2>1, <2>2, <2>3, <2>4, TrimFits
    <2>6. /\ DOMAIN live' = DOMAIN live \ {s}
          /\ live' \in [DOMAIN live' -> SessionState]
        BY <2>1, DiscardType DEF StoreInv
    <2>7. Cardinality(DOMAIN live') <= maxSessions
        <3>1. /\ IsFiniteSet(DOMAIN live)
              /\ DOMAIN live' \in SUBSET DOMAIN live
            BY <2>6, Constants DEF StoreInv
        <3>2. /\ Cardinality(DOMAIN live') <= Cardinality(DOMAIN live)
              /\ Cardinality(DOMAIN live) \in Nat
              /\ Cardinality(DOMAIN live') \in Nat
            BY <3>1, FS_Subset, FS_CardinalityType
        <3> QED
            BY <1>1, <3>2 DEF StoreInv, WithinLimits
    <2>8. WithinLimits'
        BY <2>5, <2>7 DEF WithinLimits
    <2>9. \A k \in DOMAIN intake' :
             IF k = s THEN intake'[k].seq = intakeSequence + 1
             ELSE k \in DOMAIN intake /\ intake'[k] = intake[k]
        BY <1>2, <2>2, <2>5
    <2>10. /\ \A k \in DOMAIN intake :
                 intake[k].seq \in Nat /\ intake[k].seq <= intakeSequence
           /\ intakeSequence \in Nat
        BY DEF StoreInv, SequenceBounded
    <2>11. SequenceBounded'
        BY <2>1, <2>9, <2>10 DEF SequenceBounded
    <2>12. \A a, b \in DOMAIN intake' : intake'[a].seq = intake'[b].seq => a = b
        BY <2>9, <2>10 DEF StoreInv, IntakeBookkeeping
    <2>13. IntakeBookkeeping'
        BY <1>2, <2>2, <2>5, <2>6, <2>12 DEF StoreInv, IntakeBookkeeping
    <2>14. DOMAIN live' \subseteq Sids /\ DOMAIN intake' \subseteq Sids
        BY <1>2, <2>2, <2>5, <2>6 DEF StoreInv
    <2>15. inserted' \in Nat /\ intakeSequence' \in Nat
        BY <2>1 DEF StoreInv
    <2> QED
        BY <2>5, <2>6, <2>8, <2>11, <2>13, <2>14, <2>15 DEF StoreInv
<1> QED
    BY <1>4, <1>5, <1>6 DEF RecordIntake

-----------------------------------------------------------------------------
(* The steps. *)

\* A live session is a session, with the fields of one.
LEMMA LiveSessions ==
    ASSUME StoreInv
    PROVE  \A s \in DOMAIN live :
              /\ live[s] \in SessionState
              /\ live[s].route \in Routes
<1>1. \A s \in DOMAIN live : live[s] \in SessionState
    BY DEF StoreInv
<1> QED
    BY <1>1 DEF SessionState

\* The updates that decisions and outcomes make turn sessions into sessions.
LEMMA UpdatesType ==
    ASSUME NEW state \in SessionState
    PROVE  /\ \A q : q.route \in Routes /\ q.now \in Times
                    => Routed(q, state) \in SessionState
           /\ \A result \in Results : clock \in Times
                    => Observed(result, state) \in SessionState
<1>1. /\ state.switches + 1 \in Nat /\ state.failures + 1 \in Nat
      /\ state.truncations + 1 \in Nat
    BY DEF SessionState
<1>2. ASSUME NEW q, q.route \in Routes, q.now \in Times
      PROVE  Routed(q, state) \in SessionState
    BY <1>1, <1>2 DEF Routed, SessionState
<1>3. ASSUME NEW result \in Results, clock \in Times
      PROVE  Observed(result, state) \in SessionState
    BY <1>1, <1>3 DEF Observed, SessionState, Results
<1> QED
    BY <1>2, <1>3

\* Whatever a step does to requests, the clock and the settings, it keeps them
\* well formed.
LEMMA StepKeepsRequests ==
    ASSUME IInv, [Next]_vars
    PROVE  RequestInv'
<1> USE DEF IInv, RequestInv
<1>1. ASSUME NEW r \in Requests, NEW s \in Sids, Intake(r, s)
      PROVE  RequestInv'
    BY <1>1 DEF Intake, limitVars, RequestState, RequestProgress
<1>2. ASSUME NEW r \in Requests, Snapshot(r)
      PROVE  RequestInv'
    <2>1. \A s \in DOMAIN live : live[s].route \in Routes
        BY LiveSessions
    <2>2. PICK seen \in Routes \cup {None} :
             request' = [request EXCEPT ![r].pc = "decide", ![r].seen = seen]
        BY <1>2, <2>1 DEF Snapshot
    <2>3. request' \in [Requests -> RequestState]
        BY <2>2 DEF RequestState
    <2>4. RequestProgress'
        BY <1>2, <2>2 DEF RequestProgress, RequestState, Snapshot
    <2> QED
        BY <1>2, <2>3, <2>4 DEF Snapshot, limitVars
<1>3. ASSUME NEW r \in Requests, NEW route \in Routes,
             NEW from \in Routes \cup {None}, Decide(r, route, from)
      PROVE  RequestInv'
    <2>1. request' = [request EXCEPT ![r].pc = "persist", ![r].route = route,
                                     ![r].from = from, ![r].now = clock]
        BY <1>3 DEF Decide
    <2>2. request' \in [Requests -> RequestState]
        <3> DEFINE decided == [request[r] EXCEPT !.pc = "persist", !.route = route,
                                                 !.from = from, !.now = clock]
        <3>1. request[r] \in RequestState
            OBVIOUS
        <3>2. decided \in RequestState
            BY <3>1 DEF RequestState
        <3>3. request' = [request EXCEPT ![r] = decided]
            BY <2>1
        <3> HIDE DEF decided
        <3> QED
            BY <3>2, <3>3
    <2>3. RequestProgress'
        BY <1>3, <2>1 DEF RequestProgress, RequestState, Decide
    <2> QED
        BY <1>3, <2>2, <2>3 DEF Decide, limitVars
<1>4. ASSUME NEW r \in Requests, Reject(r)
      PROVE  RequestInv'
    BY <1>4 DEF Reject, limitVars, RequestState, RequestProgress, Idle
<1>5. ASSUME NEW r \in Requests, Persist(r)
      PROVE  RequestInv'
    BY <1>5 DEF Persist, limitVars, RequestState, RequestProgress
<1>6. ASSUME NEW r \in Requests, Fetch(r)
      PROVE  RequestInv'
    BY <1>6 DEF Fetch, limitVars, RequestState, RequestProgress, Idle
<1>7. ASSUME NEW r \in Requests, NEW result \in Results, RecordOutcome(r, result)
      PROVE  RequestInv'
    BY <1>7 DEF RecordOutcome, limitVars, RequestState, RequestProgress, Idle
<1>8. ASSUME NEW r \in Requests, Abandon(r)
      PROVE  RequestInv'
    BY <1>8 DEF Abandon, limitVars, RequestState, RequestProgress, Idle
<1>9. ASSUME NEW s \in Sids, Inspect(s)
      PROVE  RequestInv'
    BY <1>9 DEF Inspect, limitVars, RequestProgress
<1>10. CASE DropExpired
    BY <1>10 DEF DropExpired, limitVars, RequestProgress
<1>11. ASSUME NEW newTtl \in Ttls, NEW newLimit \in Limits,
              Configure(newTtl, newLimit)
       PROVE  RequestInv'
    BY <1>11 DEF Configure, RequestProgress
<1>12. CASE Tick
    BY <1>12, ConstantsAssumption DEF Tick, limitVars, RequestProgress, Times
<1>13. CASE UNCHANGED vars
    BY <1>13 DEF vars, limitVars, RequestProgress
<1> QED
    BY <1>1, <1>2, <1>3, <1>4, <1>5, <1>6, <1>7, <1>8, <1>9, <1>10, <1>11,
       <1>12, <1>13
    DEF Next, RequestStep

\* Persist updates the session or creates it; either way the dicts stay sound.
LEMMA PersistKeepsStore ==
    ASSUME IInv, NEW r \in Requests, Persist(r)
    PROVE  StoreInv'
<1> DEFINE q == request[r]
           fresh == Created(q.sid, FreshSession(q))
<1>1. /\ q \in RequestState /\ q.sid \in Sids
      /\ q.route \in Routes /\ q.now \in Times
      /\ StoreInv /\ maxSessions \in Limits /\ UNCHANGED maxSessions
    BY DEF IInv, RequestInv, RequestProgress, Persist, limitVars
<1>2. CASE /\ q.sid \in DOMAIN live \ Expired
           /\ Evict([live EXCEPT ![q.sid] = Routed(q, live[q.sid])], maxSessions)
           /\ UNCHANGED <<inserted, intake, intakeSeen, intakeSequence>>
    <2>1. Routed(q, live[q.sid]) \in SessionState
        BY <1>1, <1>2, LiveSessions, UpdatesType
    <2> QED
        BY <1>1, <1>2, <2>1, UpdateKeepsStore
<1>3. CASE /\ inserted' = inserted + 1
           /\ Evict(Put(live, q.sid, Routed(q, fresh)), maxSessions)
           /\ intake' = Restrict(intake, KeptIntake \ {q.sid})
           /\ intakeSeen' = Restrict(intakeSeen, KeptIntake \ {q.sid})
           /\ UNCHANGED intakeSequence
    <2>1. fresh \in SessionState
        <3>1. inserted + 1 \in Nat \ {0}
            BY <1>1 DEF StoreInv
        <3>2. q.sid \in KeptIntake => intake[q.sid].received \in Times
            BY <1>1 DEF StoreInv, KeptIntake
        <3> QED
            BY <1>1, <3>1, <3>2 DEF Created, FreshSession, SessionState
    <2>2. Routed(q, fresh) \in SessionState
        BY <1>1, <2>1, UpdatesType
    <2> QED
        BY <1>1, <1>3, <2>2, CreateKeepsStore
<1> QED
    BY <1>2, <1>3 DEF Persist, MutateExisting, MutateCreating

\* An outcome updates its session or is dropped.
LEMMA OutcomeKeepsStore ==
    ASSUME IInv, NEW r \in Requests, NEW result \in Results,
           RecordOutcome(r, result)
    PROVE  StoreInv'
<1> DEFINE s == request[r].sid
<1>1. /\ StoreInv /\ maxSessions \in Limits /\ UNCHANGED maxSessions
      /\ clock \in Times
    BY DEF IInv, RequestInv, RecordOutcome, limitVars
<1>2. CASE /\ s \in DOMAIN live \ Expired
           /\ Evict([live EXCEPT ![s] = Observed(result, live[s])], maxSessions)
           /\ UNCHANGED <<inserted, intake, intakeSeen, intakeSequence>>
    <2>1. Observed(result, live[s]) \in SessionState
        BY <1>1, <1>2, LiveSessions, UpdatesType
    <2> QED
        BY <1>1, <1>2, <2>1, UpdateKeepsStore
<1>3. CASE DropIfExpired(s)
    BY <1>1, <1>3, DropKeepsStore DEF DropIfExpired
<1> QED
    BY <1>2, <1>3 DEF RecordOutcome, MutateExisting, MutateMissing

\* A reload drops what the new lifetime makes stale, then what exceeds the new
\* limit.
LEMMA ConfigureKeepsStore ==
    ASSUME IInv, NEW newTtl \in Ttls, NEW newLimit \in Limits,
           Configure(newTtl, newLimit)
    PROVE  StoreInv'
<1> DEFINE stale == {s \in DOMAIN live : Stale(s, newTtl)}
           pending == Discard(intake, StaleIntake(newTtl))
           seen == Discard(intakeSeen, StaleIntake(newTtl))
           kept == Discard(live, stale)
<1>1. StoreInv /\ newLimit \in Nat /\ maxSessions' = newLimit
    BY Constants DEF IInv, Configure
<1>2. /\ TrimIntake(pending, seen, newLimit)
      /\ Evict(kept, newLimit)
      /\ UNCHANGED <<inserted, intakeSequence>>
    BY DEF Configure
<1>3. /\ DOMAIN pending \subseteq DOMAIN intake
      /\ pending \in [DOMAIN pending -> [received: Times, seq: Nat \ {0}]]
      /\ \A k \in DOMAIN pending : pending[k] = intake[k]
    <2>1. intake \in [DOMAIN intake -> [received: Times, seq: Nat \ {0}]]
        BY <1>1 DEF StoreInv
    <2> QED
        BY <2>1 DEF Discard, Restrict
<1>4. seen \in [DOMAIN pending -> Int]
    <2>1. /\ intakeSeen \in [DOMAIN intakeSeen -> Int]
          /\ DOMAIN intakeSeen = DOMAIN intake
        BY <1>1 DEF StoreInv, IntakeBookkeeping
    <2> QED
        BY <2>1 DEF Discard, Restrict
<1>5. /\ DOMAIN kept \subseteq DOMAIN live
      /\ kept \in [DOMAIN kept -> SessionState]
    BY <1>1, DiscardType DEF StoreInv
<1>6. IsFiniteSet(DOMAIN pending) /\ IsFiniteSet(DOMAIN kept)
    BY <1>1, <1>3, <1>5, Constants DEF StoreInv
<1> HIDE DEF pending, seen, kept
<1>7. /\ live' \in [DOMAIN live' -> SessionState]
      /\ DOMAIN live' \subseteq DOMAIN kept
      /\ Cardinality(DOMAIN live') <= newLimit
    BY <1>1, <1>2, <1>5, <1>6, EvictFits
<1>8. /\ intake' \in [DOMAIN intake' -> [received: Times, seq: Nat \ {0}]]
      /\ intakeSeen' \in [DOMAIN intakeSeen' -> Int]
      /\ DOMAIN intakeSeen' = DOMAIN intake'
      /\ DOMAIN intake' \subseteq DOMAIN pending
      /\ Cardinality(DOMAIN intake') <= newLimit
      /\ \A k \in DOMAIN intake' : intake'[k] = pending[k]
    BY <1>1, <1>2, <1>3, <1>4, <1>6, TrimFits
<1>9. \A k \in DOMAIN intake' : k \in DOMAIN intake /\ intake'[k] = intake[k]
    BY <1>3, <1>8
<1>10. WithinLimits'
    BY <1>1, <1>7, <1>8 DEF WithinLimits
<1>11. IntakeBookkeeping'
    <2>1. \A a, b \in DOMAIN intake : intake[a].seq = intake[b].seq => a = b
        BY <1>1 DEF StoreInv, IntakeBookkeeping
    <2>2. DOMAIN intake' \cap DOMAIN live' = {}
        BY <1>1, <1>5, <1>7, <1>9 DEF StoreInv, IntakeBookkeeping
    <2> QED
        BY <1>8, <1>9, <2>1, <2>2 DEF IntakeBookkeeping
<1>12. SequenceBounded'
    BY <1>1, <1>2, <1>9 DEF StoreInv, SequenceBounded
<1>13. DOMAIN live' \subseteq Sids /\ DOMAIN intake' \subseteq Sids
    BY <1>1, <1>5, <1>7, <1>9 DEF StoreInv
<1> QED
    BY <1>1, <1>2, <1>7, <1>8, <1>10, <1>11, <1>12, <1>13 DEF StoreInv

\* Every step keeps the dicts sound.
LEMMA StepKeepsStore ==
    ASSUME IInv, [Next]_vars
    PROVE  StoreInv'
<1> USE DEF IInv, RequestInv
<1>1. ASSUME NEW r \in Requests, NEW s \in Sids, Intake(r, s)
      PROVE  StoreInv'
    BY <1>1, IntakeKeepsStore DEF Intake, limitVars
<1>2. ASSUME NEW r \in Requests, Snapshot(r) \/ Fetch(r)
      PROVE  StoreInv'
    BY <1>2, DropKeepsStore DEF Snapshot, Fetch, DropIfExpired, limitVars
<1>3. ASSUME UNCHANGED <<storeVars, maxSessions>>
      PROVE  StoreInv'
    BY <1>3
    DEF storeVars, StoreInv, WithinLimits, IntakeBookkeeping, SequenceBounded
<1>4. ASSUME NEW s \in Sids, Inspect(s)
      PROVE  StoreInv'
    BY <1>4, DropKeepsStore DEF Inspect, DropIfExpired, limitVars
<1>5. CASE DropExpired
    BY <1>5, DropKeepsStore DEF DropExpired, limitVars
<1>6. ASSUME NEW r \in Requests, RequestStep(r)
      PROVE  StoreInv'
    BY <1>1, <1>2, <1>3, <1>6, PersistKeepsStore, OutcomeKeepsStore
    DEF RequestStep, Decide, Reject, Abandon, limitVars
<1>7. CASE Tick \/ UNCHANGED vars
    BY <1>3, <1>7 DEF Tick, vars, limitVars
<1> QED
    BY <1>4, <1>5, <1>6, <1>7, ConfigureKeepsStore DEF Next

\* IInv is an invariant.
LEMMA Inductive == Spec => []IInv
<1>1. Init => IInv
    <2>1. ASSUME Init
          PROVE  RequestInv
        BY <2>1, Constants
        DEF Init, RequestInv, RequestProgress, RequestState, Idle
    <2>2. ASSUME Init
          PROVE  StoreInv
        <3>1. Cardinality({}) = 0
            BY FS_EmptySet
        <3>2. DOMAIN live = {} /\ DOMAIN intake = {} /\ DOMAIN intakeSeen = {}
            BY <2>2 DEF Init, NoEntries
        <3>3. \A T : live \in [{} -> T] /\ intake \in [{} -> T]
                      /\ intakeSeen \in [{} -> T]
            BY <2>2 DEF Init, NoEntries
        <3> QED
            BY <2>2, <3>1, <3>2, <3>3, Constants
            DEF Init, StoreInv, WithinLimits, IntakeBookkeeping, SequenceBounded
    <2> QED
        BY <2>1, <2>2 DEF IInv
<1>2. IInv /\ [Next]_vars => IInv'
    BY StepKeepsRequests, StepKeepsStore DEF IInv
<1> QED
    BY <1>1, <1>2, PTL DEF Spec

\* Every reachable state is well typed.
THEOREM TypeCorrect == Spec => []TypeOK
<1>1. IInv => TypeOK
    BY DEF IInv, RequestInv, StoreInv, TypeOK
<1> QED
    BY <1>1, Inductive, PTL

\* MemorySessionStore never holds more sessions, nor more pending intakes, than
\* max_sessions, across every reload of that setting.
THEOREM StoreIsBounded == Spec => []WithinLimits
<1>1. IInv => WithinLimits
    BY DEF IInv, StoreInv
<1> QED
    BY <1>1, Inductive, PTL

\* The two intake dicts agree, hold distinct sequence numbers, and never name a
\* conversation that has a session.
THEOREM IntakeIsSound == Spec => []IntakeBookkeeping
<1>1. IInv => IntakeBookkeeping
    BY DEF IInv, StoreInv
<1> QED
    BY <1>1, Inductive, PTL

-----------------------------------------------------------------------------
(* What a step may do to the sessions. *)

\* No session is new and every one left keeps what decisions own of it, its route
\* and its number of switches, and its place in the dict.
RoutesKept ==
    /\ DOMAIN live' \subseteq DOMAIN live
    /\ \A s \in DOMAIN live' : live'[s].route = live[s].route
                             /\ live'[s].switches = live[s].switches
                             /\ live'[s].slot = live[s].slot

\* Dropping sessions keeps the routes of the others.
LEMMA DropKeepsRoutes ==
    ASSUME NEW gone, live' = Discard(live, gone)
    PROVE  RoutesKept
BY DEF Discard, Restrict, RoutesKept

\* So does evicting from sessions whose routes are the stored ones.
LEMMA EvictKeepsRoutes ==
    ASSUME NEW sessions, NEW limit \in Nat, Evict(sessions, limit),
           sessions \in [DOMAIN sessions -> SessionState],
           IsFiniteSet(DOMAIN sessions),
           DOMAIN sessions \subseteq DOMAIN live,
           \A s \in DOMAIN sessions : sessions[s].route = live[s].route
                                    /\ sessions[s].switches = live[s].switches
                                    /\ sessions[s].slot = live[s].slot
    PROVE  RoutesKept
<1>1. /\ DOMAIN live' \subseteq DOMAIN sessions
      /\ \A s \in DOMAIN live' : live'[s] = sessions[s]
    BY EvictFits
<1> QED
    BY <1>1 DEF RoutesKept

\* An outcome that finds its session updates it without touching its route.
LEMMA OutcomeKeepsRoutes ==
    ASSUME IInv, NEW r \in Requests, NEW result \in Results,
           RecordOutcome(r, result)
    PROVE  RoutesKept
<1> DEFINE s == request[r].sid
           updated == [live EXCEPT ![s] = Observed(result, live[s])]
<1>1. /\ StoreInv /\ maxSessions \in Nat /\ clock \in Times
    BY Constants DEF IInv, RequestInv
<1>2. CASE DropIfExpired(s)
    BY <1>2, DropKeepsRoutes DEF DropIfExpired
<1>3. CASE s \in DOMAIN live \ Expired /\ Evict(updated, maxSessions)
    <2>1. live[s] \in SessionState
        BY <1>1, <1>3, LiveSessions
    <2>2. /\ Observed(result, live[s]) \in SessionState
          /\ Observed(result, live[s]).route = live[s].route
          /\ Observed(result, live[s]).switches = live[s].switches
          /\ Observed(result, live[s]).slot = live[s].slot
        <3>1. Observed(result, live[s]) \in SessionState
            BY <1>1, <2>1, UpdatesType
        <3>2. /\ Observed(result, live[s]).route = live[s].route
              /\ Observed(result, live[s]).switches = live[s].switches
              /\ Observed(result, live[s]).slot = live[s].slot
            BY <2>1 DEF Observed, SessionState
        <3> QED
            BY <3>1, <3>2
    <2>3. /\ DOMAIN updated = DOMAIN live
          /\ updated \in [DOMAIN live -> SessionState]
          /\ \A k \in DOMAIN live : updated[k].route = live[k].route
                                  /\ updated[k].switches = live[k].switches
                                  /\ updated[k].slot = live[k].slot
        BY <1>1, <1>3, <2>2 DEF StoreInv
    <2>4. IsFiniteSet(DOMAIN live)
        BY <1>1, Constants DEF StoreInv
    <2> HIDE DEF updated
    <2> QED
        BY <1>1, <1>3, <2>3, <2>4, EvictKeepsRoutes
<1> QED
    BY <1>2, <1>3 DEF RecordOutcome, MutateExisting, MutateMissing

\* Only Persist makes a session or changes the route of one.
LEMMA OthersKeepRoutes ==
    ASSUME IInv, [Next]_vars, \A r \in Requests : ~Persist(r)
    PROVE  RoutesKept
<1>1. ASSUME NEW r \in Requests, NEW s \in Sids, Intake(r, s)
      PROVE  RoutesKept
    <2>1. CASE IntakeOfLiveSession(s)
        <3>1. \A k \in DOMAIN live : live[k] \in SessionState
            BY LiveSessions DEF IInv
        <3> QED
            BY <2>1, <3>1 DEF IntakeOfLiveSession, RoutesKept, SessionState
    <2>2. CASE IntakeAgain(s) \/ IntakeOfNewSession(s)
        BY <2>2, DropKeepsRoutes DEF IntakeAgain, IntakeOfNewSession
    <2> QED
        BY <1>1, <2>1, <2>2 DEF Intake, RecordIntake
<1>2. ASSUME NEW r \in Requests, Snapshot(r) \/ Fetch(r)
      PROVE  RoutesKept
    BY <1>2, DropKeepsRoutes DEF Snapshot, Fetch, DropIfExpired
<1>3. ASSUME UNCHANGED live
      PROVE  RoutesKept
    BY <1>3 DEF RoutesKept
<1>4. ASSUME NEW r \in Requests, RequestStep(r)
      PROVE  RoutesKept
    BY <1>1, <1>2, <1>3, <1>4, OutcomeKeepsRoutes
    DEF RequestStep, Decide, Reject, Abandon, storeVars
<1>5. ASSUME NEW s \in Sids, Inspect(s)
      PROVE  RoutesKept
    BY <1>5, DropKeepsRoutes DEF Inspect, DropIfExpired
<1>6. CASE DropExpired
    BY <1>6, DropKeepsRoutes DEF DropExpired
<1>7. ASSUME NEW newTtl \in Ttls, NEW newLimit \in Limits,
             Configure(newTtl, newLimit)
      PROVE  RoutesKept
    <2> DEFINE kept == Discard(live, {s \in DOMAIN live : Stale(s, newTtl)})
    <2>1. Evict(kept, newLimit) /\ newLimit \in Nat
        BY <1>7, Constants DEF Configure
    <2>2. /\ DOMAIN kept \subseteq DOMAIN live
          /\ kept \in [DOMAIN kept -> SessionState]
          /\ \A s \in DOMAIN kept : kept[s].route = live[s].route
                                  /\ kept[s].switches = live[s].switches
                                  /\ kept[s].slot = live[s].slot
        <3>1. live \in [DOMAIN live -> SessionState]
            BY DEF IInv, StoreInv
        <3> QED
            BY <3>1 DEF Discard, Restrict
    <2>3. IsFiniteSet(DOMAIN kept)
        BY <2>2, Constants DEF IInv, StoreInv
    <2> HIDE DEF kept
    <2> QED
        BY <2>1, <2>2, <2>3, EvictKeepsRoutes
<1>8. CASE Tick \/ UNCHANGED vars
    BY <1>3, <1>8 DEF Tick, vars, storeVars
<1> QED
    BY <1>4, <1>5, <1>6, <1>7, <1>8 DEF Next

\* A decision adds at most the session it is about.
LEMMA PersistCreatesItsOwn ==
    ASSUME IInv, NEW r \in Requests, Persist(r)
    PROVE  DOMAIN live' \subseteq DOMAIN live \cup {request[r].sid}
<1> DEFINE s == request[r].sid
<1>1. ASSUME NEW sessions, Evict(sessions, maxSessions)
      PROVE  DOMAIN live' \subseteq DOMAIN sessions
    BY <1>1 DEF Evict, Discard, Restrict
<1>2. ASSUME NEW new
      PROVE  /\ DOMAIN [live EXCEPT ![s] = new] = DOMAIN live
             /\ DOMAIN Put(live, s, new) = DOMAIN live \cup {s}
    BY DEF Put
<1>3. \/ \E new : Evict([live EXCEPT ![s] = new], maxSessions)
      \/ \E new : Evict(Put(live, s, new), maxSessions)
    BY DEF Persist, MutateExisting, MutateCreating
<1> QED
    BY <1>1, <1>2, <1>3

\* Sessions come into being by decisions alone: outcomes, reads and reloads only
\* remove them.
THEOREM DecisionsAloneCreate == Spec => OnlyDecisionsCreate
<1> DEFINE CreatedByDecision ==
        \/ DOMAIN live' \subseteq DOMAIN live
        \/ \E r \in Requests :
             /\ request[r].pc = "persist" /\ request'[r].pc = "fetch"
             /\ DOMAIN live' \ DOMAIN live = {request[r].sid}
<1>1. IInv /\ [Next]_vars => [CreatedByDecision]_vars
    <2> SUFFICES ASSUME IInv, [Next]_vars
                 PROVE  CreatedByDecision
        OBVIOUS
    <2>1. ASSUME NEW r \in Requests, Persist(r)
          PROVE  CreatedByDecision
        <3>1. request[r].pc = "persist" /\ request'[r].pc = "fetch"
            BY <2>1 DEF Persist, IInv, RequestInv, RequestState
        <3> QED
            BY <2>1, <3>1, PersistCreatesItsOwn
    <2>2. CASE \A r \in Requests : ~Persist(r)
        BY <2>2, OthersKeepRoutes DEF RoutesKept
    <2> QED
        BY <2>1, <2>2
<1> QED
    BY <1>1, Inductive, PTL DEF Spec, OnlyDecisionsCreate

-----------------------------------------------------------------------------
(* The reload_lock keeps a decision's view of its session current. *)

\* The steps of a decision hold the lock.
LockHeld ==
    \A r \in Requests :
        request[r].pc \in {"snapshot", "decide", "persist", "fetch"}
            => reloadLock = r

\* What the strategy was shown is still the route of the session, and the model
\* it reports to have left is that route.
CurrentFor(q) ==
    /\ q.pc \in {"decide", "persist"} /\ q.seen # None /\ q.sid \in DOMAIN live
          => live[q.sid].route = q.seen
    /\ q.pc = "persist" /\ q.from # None => q.from = q.seen

SeenIsCurrent == \A r \in Requests : CurrentFor(request[r])

\* The lock passes from one decision to the next.
LEMMA StepKeepsLock ==
    ASSUME IInv, LockHeld, [Next]_vars
    PROVE  LockHeld'
<1>1. /\ request \in [Requests -> RequestState]
      /\ None \notin Requests
    BY ConstantsAssumption DEF IInv, RequestInv
<1>2. ASSUME NEW r \in Requests, RequestStep(r)
      PROVE  LockHeld'
    <2> DEFINE Deciding == {"snapshot", "decide", "persist", "fetch"}
    <2>1. \A o \in Requests \ {r} : request'[o] = request[o]
        BY <1>1, <1>2
        DEF RequestStep, Intake, Snapshot, Decide, Reject, Persist, Fetch,
            RecordOutcome, Abandon
    <2>2. CASE \E s \in Sids : Intake(r, s)
        <3>1. reloadLock = None /\ reloadLock' = r
            BY <2>2 DEF Intake
        <3> QED
            BY <1>1, <2>1, <3>1 DEF LockHeld
    <2>3. CASE \/ Snapshot(r)
               \/ \E route \in Routes, from \in Routes \cup {None} :
                     Decide(r, route, from)
               \/ Persist(r)
        <3>1. request[r].pc \in Deciding /\ UNCHANGED reloadLock
            BY <2>3 DEF Snapshot, Decide, Persist
        <3> QED
            BY <2>1, <3>1 DEF LockHeld
    <2>4. CASE Reject(r) \/ Fetch(r)
        <3>1. request[r].pc \in Deciding /\ request'[r].pc \notin Deciding
            BY <1>1, <2>4 DEF Reject, Fetch, Idle
        <3>2. \A o \in Requests \ {r} : request'[o].pc \notin Deciding
            BY <2>1, <3>1 DEF LockHeld
        <3> QED
            BY <3>1, <3>2 DEF LockHeld
    <2>5. CASE (\E result \in Results : RecordOutcome(r, result)) \/ Abandon(r)
        <3>1. request'[r].pc = "done" /\ UNCHANGED reloadLock
            BY <1>1, <2>5 DEF RecordOutcome, Abandon, Idle
        <3> QED
            BY <2>1, <3>1 DEF LockHeld
    <2> QED
        BY <1>2, <2>2, <2>3, <2>4, <2>5 DEF RequestStep
<1>3. CASE UNCHANGED <<request, reloadLock>>
    BY <1>3 DEF LockHeld
<1> QED
    BY <1>2, <1>3 DEF Next, Inspect, DropExpired, Configure, Tick, vars

\* Nobody moves the session between the copy and the decision made from it.
LEMMA StepKeepsSeen ==
    ASSUME IInv, LockHeld, SeenIsCurrent, [Next]_vars
    PROVE  SeenIsCurrent'
<1>1. request \in [Requests -> RequestState]
    BY DEF IInv, RequestInv
<1>2. ASSUME NEW r \in Requests, Persist(r)
      PROVE  SeenIsCurrent'
    <2>1. /\ request[r].pc = "persist" /\ request'[r].pc = "fetch"
          /\ \A o \in Requests \ {r} : request'[o] = request[o]
        BY <1>1, <1>2 DEF Persist, RequestState
    <2>2. \A o \in Requests \ {r} : request[o].pc \notin {"decide", "persist"}
        BY <2>1 DEF LockHeld
    <2> QED
        BY <2>1, <2>2 DEF SeenIsCurrent, CurrentFor
<1>3. CASE \A r \in Requests : ~Persist(r)
    <2>1. RoutesKept
        BY <1>3, OthersKeepRoutes
    <2>2. ASSUME NEW o \in Requests, request'[o] = request[o]
          PROVE  CurrentFor(request[o])'
        <3>1. CurrentFor(request[o])
            BY DEF SeenIsCurrent
        <3> QED
            BY <2>1, <2>2, <3>1 DEF CurrentFor, RoutesKept
    <2>3. ASSUME NEW r \in Requests,
                 \A o \in Requests \ {r} : request'[o] = request[o],
                 CurrentFor(request[r])'
          PROVE  SeenIsCurrent'
        BY <2>2, <2>3 DEF SeenIsCurrent
    <2>4. ASSUME NEW r \in Requests, Snapshot(r)
          PROVE  SeenIsCurrent'
        <3>1. /\ \A o \in Requests \ {r} : request'[o] = request[o]
              /\ request'[r].pc = "decide" /\ request'[r].sid = request[r].sid
              /\ request'[r].seen = IF request[r].sid \in DOMAIN live \ Expired
                                    THEN live[request[r].sid].route
                                    ELSE None
            BY <1>1, <2>4 DEF Snapshot, RequestState
        <3>2. CurrentFor(request[r])'
            BY <2>1, <3>1 DEF CurrentFor, RoutesKept
        <3> QED
            BY <2>3, <3>1, <3>2
    <2>5. ASSUME NEW r \in Requests, NEW route \in Routes,
                 NEW from \in Routes \cup {None}, Decide(r, route, from)
          PROVE  SeenIsCurrent'
        <3>1. /\ \A o \in Requests \ {r} : request'[o] = request[o]
              /\ request[r].pc = "decide" /\ request'[r].pc = "persist"
              /\ request'[r].sid = request[r].sid
              /\ request'[r].seen = request[r].seen
              /\ request'[r].from = from
              /\ from # None => from = request[r].seen
            BY <1>1, <2>5 DEF Decide, RequestState
        <3>2. CurrentFor(request[r])
            BY DEF SeenIsCurrent
        <3>3. CurrentFor(request[r])'
            BY <2>1, <3>1, <3>2 DEF CurrentFor, RoutesKept
        <3> QED
            BY <2>3, <3>1, <3>3
    <2>6. ASSUME NEW r \in Requests, RequestStep(r)
          PROVE  SeenIsCurrent'
        <3>1. ASSUME \/ \E s \in Sids : Intake(r, s)
                     \/ Reject(r)
                     \/ Fetch(r)
                     \/ \E result \in Results : RecordOutcome(r, result)
                     \/ Abandon(r)
              PROVE  SeenIsCurrent'
            <4>1. /\ \A o \in Requests \ {r} : request'[o] = request[o]
                  /\ request'[r].pc \notin {"decide", "persist"}
                BY <1>1, <3>1
                DEF Intake, Reject, Fetch, RecordOutcome, Abandon, RequestState,
                    Idle
            <4>2. CurrentFor(request[r])'
                BY <4>1 DEF CurrentFor
            <4> QED
                BY <2>3, <4>1, <4>2
        <3> QED
            BY <1>3, <2>4, <2>5, <2>6, <3>1 DEF RequestStep
    <2>7. CASE UNCHANGED request
        BY <2>2, <2>7 DEF SeenIsCurrent
    <2> QED
        BY <2>6, <2>7 DEF Next, Inspect, DropExpired, Configure, Tick, vars
<1> QED
    BY <1>2, <1>3

\* A reported switch left the model the session had: no other decision moved
\* the session since the strategy saw it.
THEOREM SwitchesAreCurrent == Spec => SwitchLeavesCurrentRoute
<1> DEFINE Current ==
        \A s \in DOMAIN live \cap DOMAIN live', r \in Requests :
            /\ request[r].pc = "persist" /\ request'[r].pc = "fetch"
            /\ request[r].sid = s /\ s \notin Expired
            /\ request[r].from # None
            => request[r].from = live[s].route
<1>1. Init => LockHeld /\ SeenIsCurrent
    <2>1. Init => \A r \in Requests : request[r].pc = "new"
        BY DEF Init, Idle
    <2> QED
        BY <2>1 DEF LockHeld, SeenIsCurrent, CurrentFor
<1>2. IInv /\ LockHeld /\ SeenIsCurrent /\ [Next]_vars
        => LockHeld' /\ SeenIsCurrent'
    BY StepKeepsLock, StepKeepsSeen
<1>3. SeenIsCurrent => [Current]_vars
    BY DEF SeenIsCurrent, CurrentFor
<1> QED
    BY <1>1, <1>2, <1>3, Inductive, PTL DEF Spec, SwitchLeavesCurrentRoute

-----------------------------------------------------------------------------
(* Decisions and outcomes do not overwrite each other's fields. *)

\* A decision keeps what outcomes and intakes wrote in a session that is live.
LEMMA PersistKeepsCounters ==
    ASSUME IInv, NEW r \in Requests, Persist(r),
           NEW s \in DOMAIN live \cap DOMAIN live', s \notin Expired
    PROVE  /\ live'[s].failures = live[s].failures
           /\ live'[s].truncations = live[s].truncations
           /\ live'[s].first = live[s].first
<1> DEFINE q == request[r]
           new == Routed(q, Created(q.sid, FreshSession(q)))
<1>1. live[s] \in SessionState
    BY LiveSessions DEF IInv
<1>2. ASSUME NEW sessions, Evict(sessions, maxSessions)
      PROVE  s \in DOMAIN sessions /\ live'[s] = sessions[s]
    BY <1>2 DEF Evict, Discard, Restrict
<1>3. CASE MutateExisting(q.sid, Routed(q, live[q.sid]))
    <2>1. live'[s] = [live EXCEPT ![q.sid] = Routed(q, live[q.sid])][s]
        BY <1>2, <1>3 DEF MutateExisting
    <2>2. live'[s] = IF s = q.sid THEN Routed(q, live[s]) ELSE live[s]
        BY <2>1 DEF IInv, StoreInv
    <2>3. /\ Routed(q, live[s]).failures = live[s].failures
          /\ Routed(q, live[s]).truncations = live[s].truncations
          /\ Routed(q, live[s]).first = live[s].first
        BY <1>1 DEF Routed, SessionState
    <2> QED
        BY <2>2, <2>3
<1>4. CASE MutateCreating(q.sid, new)
    <2>1. s # q.sid
        BY <1>4 DEF MutateCreating
    <2> HIDE DEF new
    <2>2. live'[s] = Put(live, q.sid, new)[s]
        BY <1>2, <1>4 DEF MutateCreating
    <2> QED
        BY <2>1, <2>2 DEF Put
<1> QED
    BY <1>3, <1>4 DEF Persist

\* While a decision is written no outcome is.
LEMMA PersistIsAlone ==
    ASSUME IInv, NEW r \in Requests, Persist(r)
    PROVE  ~\E o \in Requests : request[o].pc = "upstream"
                              /\ request'[o].pc = "done"
<1>1. /\ request[r].pc = "persist" /\ request'[r].pc = "fetch"
      /\ \A o \in Requests \ {r} : request'[o] = request[o]
    BY DEF Persist, IInv, RequestInv, RequestState
<1> QED
    BY <1>1

\* A decision keeps every counter that outcomes wrote, and an outcome never
\* moves a session.
THEOREM UpdatesKeepEachOther == Spec => NoLostUpdate
<1> DEFINE Kept ==
        \A s \in DOMAIN live \cap DOMAIN live' :
            /\ s \notin Expired /\ (\E r \in Requests : Persist(r)) =>
                  /\ live'[s].failures = live[s].failures
                  /\ live'[s].truncations = live[s].truncations
                  /\ live'[s].first = live[s].first
            /\ (\E r \in Requests : request[r].pc = "upstream"
                                     /\ request'[r].pc = "done") =>
                  /\ live'[s].route = live[s].route
                  /\ live'[s].switches = live[s].switches
<1>1. IInv /\ [Next]_vars => [Kept]_vars
    <2> SUFFICES ASSUME IInv, [Next]_vars
                 PROVE  Kept
        OBVIOUS
    <2>1. ASSUME NEW r \in Requests, Persist(r)
          PROVE  Kept
        BY <2>1, PersistKeepsCounters, PersistIsAlone
    <2>2. CASE \A r \in Requests : ~Persist(r)
        BY <2>2, OthersKeepRoutes DEF RoutesKept
    <2> QED
        BY <2>1, <2>2
<1> QED
    BY <1>1, Inductive, PTL DEF Spec, NoLostUpdate

-----------------------------------------------------------------------------
(* What the write of a decision leaves behind. *)

\* Places in the dict are handed out in order.
SlotsBounded == \A s \in DOMAIN live : live[s].slot <= inserted

\* The sessions among which Persist evicts, and what it knows of them: its own
\* has the clock the decision read, and, if it is new, the last place.
LEMMA PersistWrites ==
    ASSUME IInv, SlotsBounded, NEW r \in Requests, Persist(r)
    PROVE  \E sessions :
              LET s == request[r].sid
              IN  /\ sessions \in [DOMAIN sessions -> SessionState]
                  /\ IsFiniteSet(DOMAIN sessions)
                  /\ s \in DOMAIN sessions
                  /\ Evict(sessions, maxSessions)
                  /\ inserted' \in Nat
                  /\ \A k \in DOMAIN sessions : sessions[k].slot <= inserted'
                  /\ \/ s \in DOMAIN live \ Expired /\ DOMAIN sessions = DOMAIN live
                     \/ /\ s \notin DOMAIN live \ Expired
                        /\ sessions[s].updated = request[r].now
                        /\ \A k \in DOMAIN sessions \ {s} :
                              sessions[k].slot < sessions[s].slot
<1> DEFINE q == request[r]
           s == q.sid
           old == [live EXCEPT ![s] = Routed(q, live[s])]
           made == Routed(q, Created(s, FreshSession(q)))
           new == Put(live, s, made)
<1>1. /\ q \in RequestState /\ s \in Sids
      /\ q.route \in Routes /\ q.now \in Times
      /\ StoreInv /\ inserted \in Nat
      /\ live \in [DOMAIN live -> SessionState]
    BY DEF IInv, RequestInv, RequestProgress, Persist, StoreInv
<1>2. \A k \in DOMAIN live : live[k].slot \in Nat /\ live[k].slot <= inserted
    BY <1>1, LiveSessions DEF SlotsBounded, SessionState
<1>3. IsFiniteSet(DOMAIN live) /\ IsFiniteSet(DOMAIN live \cup {s})
    BY <1>1, Constants DEF StoreInv
<1>4. CASE /\ s \in DOMAIN live \ Expired
           /\ Evict(old, maxSessions) /\ inserted' = inserted
    <2>1. /\ Routed(q, live[s]) \in SessionState
          /\ Routed(q, live[s]).slot = live[s].slot
        <3>1. live[s] \in SessionState
            BY <1>1, <1>4, LiveSessions
        <3> QED
            BY <1>1, <3>1, UpdatesType DEF Routed, SessionState
    <2>2. /\ DOMAIN old = DOMAIN live /\ old \in [DOMAIN old -> SessionState]
          /\ \A k \in DOMAIN old : old[k].slot = live[k].slot
        BY <1>1, <2>1
    <2> HIDE DEF old
    <2> QED
        BY <1>1, <1>2, <1>3, <1>4, <2>2
<1>5. CASE /\ s \notin DOMAIN live \ Expired
           /\ Evict(new, maxSessions) /\ inserted' = inserted + 1
    <2>1. /\ made \in SessionState
          /\ made.slot = inserted + 1 /\ made.updated = q.now
        <3>1. inserted + 1 \in Nat \ {0}
            BY <1>1
        <3>2. s \in KeptIntake => intake[s].received \in Times
            BY <1>1 DEF StoreInv, KeptIntake
        <3>3. /\ Created(s, FreshSession(q)) \in SessionState
              /\ Created(s, FreshSession(q)).slot = inserted + 1
            BY <1>1, <3>1, <3>2 DEF Created, FreshSession, SessionState
        <3> QED
            BY <1>1, <3>3, UpdatesType DEF Routed, SessionState
    <2> HIDE DEF made
    <2>2. /\ DOMAIN new = DOMAIN live \cup {s}
          /\ new \in [DOMAIN new -> SessionState]
          /\ new[s] = made
          /\ \A k \in DOMAIN new \ {s} : k \in DOMAIN live /\ new[k] = live[k]
        BY <1>1, <2>1 DEF Put
    <2>3. \A k \in DOMAIN new : new[k].slot <= inserted'
        BY <1>1, <1>2, <1>5, <2>1, <2>2
    <2>4. \A k \in DOMAIN new \ {s} : new[k].slot < new[s].slot
        BY <1>1, <1>2, <2>1, <2>2
    <2>5. /\ new[s].updated = q.now /\ s \in DOMAIN new
          /\ IsFiniteSet(DOMAIN new) /\ inserted' \in Nat
        BY <1>1, <1>3, <1>5, <2>1, <2>2
    <2> HIDE DEF new
    <2> QED
        BY <1>5, <2>2, <2>3, <2>4, <2>5
<1> QED
    BY <1>4, <1>5 DEF Persist, MutateExisting, MutateCreating

\* SlotsBounded is an invariant.
LEMMA SlotsInOrder == Spec => []SlotsBounded
<1>1. Init => SlotsBounded
    BY DEF Init, NoEntries, SlotsBounded
<1>2. IInv /\ SlotsBounded /\ [Next]_vars => SlotsBounded'
    <2> SUFFICES ASSUME IInv, SlotsBounded, [Next]_vars
                 PROVE  SlotsBounded'
        OBVIOUS
    <2>1. ASSUME NEW r \in Requests, Persist(r)
          PROVE  SlotsBounded'
        <3>1. PICK sessions :
                 /\ sessions \in [DOMAIN sessions -> SessionState]
                 /\ IsFiniteSet(DOMAIN sessions)
                 /\ Evict(sessions, maxSessions)
                 /\ \A k \in DOMAIN sessions : sessions[k].slot <= inserted'
            BY <2>1, PersistWrites
        <3>2. maxSessions \in Nat
            BY Constants DEF IInv, RequestInv
        <3>3. /\ DOMAIN live' \subseteq DOMAIN sessions
              /\ \A s \in DOMAIN live' : live'[s] = sessions[s]
            BY <3>1, <3>2, EvictFits
        <3> QED
            BY <3>1, <3>3 DEF SlotsBounded
    <2>2. CASE \A r \in Requests : ~Persist(r)
        <3>1. inserted' = inserted
            BY <2>2
            DEF Next, RequestStep, Intake, RecordIntake, Snapshot, DropIfExpired,
                Decide, Reject, Fetch, RecordOutcome, MutateExisting,
                MutateMissing, Abandon, Inspect, DropExpired, Configure, Tick,
                vars, storeVars
        <3> QED
            BY <2>2, <3>1, OthersKeepRoutes DEF RoutesKept, SlotsBounded
    <2> QED
        BY <2>1, <2>2
<1> QED
    BY <1>1, <1>2, Inductive, PTL DEF Spec

\* What is lost of a decision's own session is a new one, and what is left of a
\* full store was updated after the decision had read its clock.
LEMMA PersistLeavesSession ==
    ASSUME IInv, SlotsBounded, NEW r \in Requests, Persist(r),
           request[r].sid \notin DOMAIN live'
    PROVE  /\ request[r].sid \notin DOMAIN live \ Expired
           /\ Cardinality(DOMAIN live') = maxSessions
           /\ \A k \in DOMAIN live' : live'[k].updated > request[r].now
<1> DEFINE s == request[r].sid
<1>1. PICK sessions :
         /\ sessions \in [DOMAIN sessions -> SessionState]
         /\ IsFiniteSet(DOMAIN sessions)
         /\ s \in DOMAIN sessions
         /\ Evict(sessions, maxSessions)
         /\ \/ s \in DOMAIN live \ Expired /\ DOMAIN sessions = DOMAIN live
            \/ /\ s \notin DOMAIN live \ Expired
               /\ sessions[s].updated = request[r].now
               /\ \A k \in DOMAIN sessions \ {s} :
                     sessions[k].slot < sessions[s].slot
    BY PersistWrites
<1>2. PICK gone \in SUBSET DOMAIN sessions :
         /\ Cardinality(gone) =
              IF Cardinality(DOMAIN sessions) > maxSessions
              THEN Cardinality(DOMAIN sessions) - maxSessions ELSE 0
         /\ \A g \in gone, k \in DOMAIN sessions \ gone :
               <<g, k>> \in UpdateOrder(sessions)
         /\ live' = Discard(sessions, gone)
    BY <1>1 DEF Evict, Surplus
<1>3. /\ DOMAIN live' = DOMAIN sessions \ gone
      /\ \A k \in DOMAIN sessions \ gone : live'[k] = sessions[k]
    <2>1. live' = Discard(sessions, gone)
        BY <1>2
    <2> QED
        BY <2>1 DEF Discard, Restrict
<1>4. s \in gone
    BY <1>1, <1>3
<1>5. /\ maxSessions \in Nat /\ Cardinality(DOMAIN live) <= maxSessions
      /\ request[r].now \in Int
    BY Constants
    DEF IInv, RequestInv, RequestProgress, Persist, StoreInv, WithinLimits
<1>6. IsFiniteSet(gone) /\ Cardinality(gone) # 0
    BY <1>1, <1>2, <1>4, FS_Subset, FS_EmptySet
<1>7. /\ Cardinality(DOMAIN sessions) \in Nat
      /\ Cardinality(DOMAIN sessions) > maxSessions
    BY <1>1, <1>2, <1>5, <1>6, FS_CardinalityType
<1>8. /\ s \notin DOMAIN live \ Expired
      /\ sessions[s].updated = request[r].now
      /\ \A k \in DOMAIN sessions \ {s} : sessions[k].slot < sessions[s].slot
    BY <1>1, <1>5, <1>7
<1>9. Cardinality(DOMAIN live') = maxSessions
    <2>1. Cardinality(DOMAIN sessions \ gone)
             = Cardinality(DOMAIN sessions) - Cardinality(DOMAIN sessions \cap gone)
        BY <1>1, FS_Difference
    <2>2. DOMAIN sessions \cap gone = gone
        OBVIOUS
    <2>3. DOMAIN live' = DOMAIN sessions \ gone
        BY <1>3
    <2>4. Cardinality(gone) = Cardinality(DOMAIN sessions) - maxSessions
        BY <1>2, <1>7
    <2>5. Cardinality(DOMAIN live')
             = Cardinality(DOMAIN sessions) - Cardinality(gone)
        BY <2>1, <2>2, <2>3
    <2>6. \A n, m \in Nat : n - (n - m) = m
        OBVIOUS
    <2> QED
        BY <1>5, <1>7, <2>4, <2>5, <2>6
<1>10. ASSUME NEW k \in DOMAIN live'
       PROVE  live'[k].updated > request[r].now
    <2>1. k \in DOMAIN sessions \ gone /\ live'[k] = sessions[k]
        BY <1>3
    <2>2. LessRecent(sessions, s, k)
        BY <1>2, <1>4, <2>1 DEF UpdateOrder
    <2>3. /\ sessions[k].slot < sessions[s].slot
          /\ sessions[k].slot \in Int /\ sessions[s].slot \in Int
          /\ sessions[k].updated \in Int
        <3>1. sessions[k] \in SessionState /\ sessions[s] \in SessionState
            BY <1>1, <2>1
        <3>2. \A state \in SessionState : state.slot \in Int
                                         /\ state.updated \in Times
            BY DEF SessionState
        <3>3. k \in DOMAIN sessions \ {s}
            BY <1>4, <2>1
        <3>4. Times \subseteq Int
            BY DEF Times
        <3> QED
            BY <1>8, <3>1, <3>2, <3>3, <3>4
    <2> QED
        BY <1>5, <1>8, <2>1, <2>2, <2>3 DEF LessRecent
<1> QED
    BY <1>8, <1>9, <1>10

\* A decision leaves a session behind: one it continued is never lost by its own
\* write, and a new one only to sessions that outcomes updated after the decision
\* had read its clock, in a store that is full of them.
THEOREM DecisionsLeaveSessions == Spec => DecisionLeavesSession
<1> DEFINE Left ==
        \A r \in Requests :
            /\ request[r].pc = "persist" /\ request'[r].pc = "fetch"
            /\ request[r].sid \notin DOMAIN live'
            => /\ request[r].sid \notin DOMAIN live \ Expired
               /\ Cardinality(DOMAIN live') = maxSessions
               /\ \A s \in DOMAIN live' : live'[s].updated > request[r].now
<1>1. IInv /\ SlotsBounded /\ [Next]_vars => [Left]_vars
    <2> SUFFICES ASSUME IInv, SlotsBounded, [Next]_vars, NEW r \in Requests,
                        request[r].pc = "persist", request'[r].pc = "fetch"
                 PROVE  Persist(r)
        BY PersistLeavesSession
    <2>1. request \in [Requests -> RequestState]
        BY DEF IInv, RequestInv
    <2>2. PICK o \in Requests : RequestStep(o)
        BY DEF Next, Inspect, DropExpired, Configure, Tick, vars
    <2>3. \A p \in Requests \ {o} : request'[p] = request[p]
        BY <2>1, <2>2
        DEF RequestStep, Intake, Snapshot, Decide, Reject, Persist, Fetch,
            RecordOutcome, Abandon, Idle, RequestState
    <2>4. o = r
        BY <2>3
    <2> QED
        BY <2>1, <2>2, <2>4
        DEF RequestStep, Intake, Snapshot, Decide, Reject, Fetch,
            RecordOutcome, Abandon, Idle, RequestState
<1> QED
    BY <1>1, Inductive, SlotsInOrder, PTL DEF Spec, DecisionLeavesSession

=============================================================================
