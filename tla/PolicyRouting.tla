---------------------------- MODULE PolicyRouting ----------------------------
(***************************************************************************)
(* The turns of one conversation: RoutingEngine.decide                     *)
(* (jev_gateway/decision.py) with the strategies it runs                   *)
(* (jev_gateway/strategy/), and the outcomes, reloads and expiries that    *)
(* fall between the turns.                                                 *)
(*                                                                         *)
(* A turn is one step: decisions hold reload_lock, and what can come       *)
(* between the copy of the session and the write of the decision is the    *)
(* subject of SessionStore. A refused turn changes nothing here.           *)
(***************************************************************************)
EXTENDS ModelSelection

CONSTANTS
    Facts,         \* what requests ask for: needs, tokens, requested output
    Charges,       \* what an answer may cost, by the prices of the catalog
    Providers,     \* decision providers
    MaxClock,      \* bound of a run: the engine clock stops here
    MaxTurn,       \* bound of a run: user messages a request may hold
    SwitchBound,   \* bound of a run: turns stop at this many switches
    CounterBound,  \* bound of a run: outcomes stop at this count or cost
    MaxInFlight    \* bound of a run: turns whose outcome is still to come

VARIABLES
    catalog,        \* RoutingEngine.catalog and strategies
    session,        \* SessionState of the conversation, or None
    decision,       \* the newest entry of RoutingEngine._log, with the facts of
                    \* its request, or None
    clock,          \* RoutingEngine._clock()
    inFlight,       \* decisions of this conversation without an outcome
    escalations     \* history: when outcomes or cost moved this session

vars == <<catalog, session, decision, clock, inFlight, escalations>>

Times == 0..MaxClock
Turns == 1..MaxTurn
RouteLabels == Labels \cup {DefaultLabel}

HardReasons == {"capability_gap", "context_pressure", "output_limit"}
EscalationReasons == {"upstream_failures", "output_truncated", "budget_pressure"}
Reasons == HardReasons \cup EscalationReasons \cup
    {"first_turn", "manual_override", "per_turn_policy", "session_kept"}

\* SessionState, as far as strategies read it.
SessionState ==
    [route: Models, label: RouteLabels, defaulted: BOOLEAN, failures: Nat,
     truncations: Nat, cost: Nat, switches: Nat, switchedTurn: Nat,
     switchedAt: Times]

\* StrategyOutcome. blocked is set when hysteresis held a switch back; the
\* reason session_kept is session_pinned or session_sticky, by the mode.
StrategyOutcome ==
    [model: Models, label: RouteLabels, defaulted: BOOLEAN, reason: Reasons,
     from: Models \cup {None}, blocked: BOOLEAN, facts: Facts]

\* What the rules of a matrix, or the answer to a classifier, may decide.
Choices == [label: Labels \cup {None}, selection: Rules \cup {None}]

\* RoutingRequest, with the reply each decision provider would give.
Requests(c) ==
    [facts: Facts, manual: Models \cup {None}, turn: Turns,
     replies: [Providers -> c.choices \cup {None}]]

\* Thresholds are numbers that no validation bounds.
ASSUME RoutingAssumption ==
    /\ None \notin SessionState /\ None \notin Reasons
    /\ MaxClock \in Nat /\ MaxTurn \in Nat /\ MaxInFlight \in Nat
    /\ Charges \subseteq Nat
    /\ \A facts \in Facts :
          facts \in [needs: SUBSET Needs, tokens: Nat, output: Nat \ {0}]
    /\ \A c \in Catalogs :
          /\ c.choices \subseteq Choices /\ c.fallback \in Choices
          /\ \A choice \in c.choices \cup {c.fallback} :
                choice.label \in Range(c.labels) \cup {None}
          /\ c.kind \in {"policy", "decision", "decision_matrix"}
          /\ c.providers \in Seq(Providers)
          /\ c.breakOn \subseteq Reasons
          /\ c.minTurns \in Int /\ c.cooldown \in Int /\ c.maxSwitches \in Int
          /\ c.maxFailures \in Int /\ c.maxTruncations \in Int
          /\ c.maxCost \in Int \cup {None} /\ c.pressure \in Int

Init ==
    /\ catalog \in Catalogs
    /\ session = None
    /\ decision = None
    /\ clock = 0
    /\ inFlight = 0
    /\ escalations = <<>>

-----------------------------------------------------------------------------
(* Classification. *)

\* The decision providers that DecisionClient asks, by their places in its list.
Asked(c) ==
    {i \in DOMAIN c.providers :
        /\ c.decisionEnabled
        /\ IF c.onlyProvider # None THEN c.providers[i] = c.onlyProvider
           ELSE c.firstProvider \in Range(c.providers) \cup {None}}

\* The first acceptable answer, that of the default provider before all others. A
\* reply of None is any way to fail: no key, a timeout, an error status, an answer
\* outside the question's criteria.
Evaluation(c, replies) ==
    LET answers == {i \in Asked(c) : replies[c.providers[i]] # None}
        preferred == {i \in answers : c.providers[i] = c.firstProvider}
        group == IF preferred = {} THEN answers ELSE preferred
    IN  IF answers = {} THEN None
        ELSE replies[c.providers[CHOOSE i \in group : \A j \in group : i <= j]]

\* The label and the ordering rule a strategy of each kind selects with. A
\* request for a concrete model is not classified, nor is, in the cached mode,
\* one that has a session.
Classification(c, s, request) ==
    LET answer == Evaluation(c, request.replies)
        choice == IF answer = None THEN c.fallback ELSE answer
        bypassed == request.manual # None \/ (s # None /\ c.mode = "cached")
        plain == [label |-> None, rule |-> c.selection]
    IN  CASE c.kind = "policy" \/ bypassed -> plain
          [] c.kind = "decision" /\ ~bypassed ->
                IF answer = None THEN plain ELSE [plain EXCEPT !.label = answer.label]
          [] c.kind = "decision_matrix" /\ ~bypassed ->
                [label |-> IF choice.label = None THEN c.labels[1] ELSE choice.label,
                 rule |-> IF choice.selection = None THEN c.selection
                          ELSE choice.selection]

\* _request_label: the label of the classification, or the first one.
RequestLabel(c, label) ==
    IF label \in Range(c.labels) \cup {DefaultLabel} THEN label ELSE c.labels[1]

-----------------------------------------------------------------------------
(* Reasons to leave the model of a session. *)

\* _over_pressure, with the ratio in percent.
OverPressure(c, m, required) ==
    Profile[m].window # Unlimited /\ required * 100 > Profile[m].window * c.pressure

\* _hard_requirement. Its label is the session's, its model is excluded.
HardReason(c, m, facts) ==
    LET required == RequiredContext(facts)
        pressed == ~FitsContext(m, required) \/ OverPressure(c, m, required)
    IN  CASE ~Capable(m, facts) -> "capability_gap"
          [] Capable(m, facts) /\ pressed -> "context_pressure"
          [] Capable(m, facts) /\ ~pressed /\ ~FitsOutput(m, facts) -> "output_limit"
          [] OTHER -> None

Wider(a, b) == b # Unlimited /\ (a = Unlimited \/ a > b)

\* _improves: only windows and ceilings are compared.
Improves(candidate, current, reason) ==
    /\ reason = "context_pressure" =>
          Wider(Profile[candidate].window, Profile[current].window)
    /\ reason = "output_limit" =>
          Wider(Profile[candidate].ceiling, Profile[current].ceiling)

Place(c, label) == CHOOSE i \in DOMAIN c.labels : c.labels[i] = label

\* The labels above one, in order. The global default stands at the floor.
Above(c, label) ==
    LET place == IF IsGlobalDefault(c, label) THEN 1 ELSE Place(c, label)
        next == SubSeq(c.labels, place + 1, Len(c.labels))
    IN  IF IsGlobalDefault(c, label) /\ next = <<>> THEN c.labels ELSE next

\* _raise_tier, and _lower_tier of a label that is not the lowest.
Raised(c, label) == IF Above(c, label) = <<>> THEN label ELSE Above(c, label)[1]
Lowered(c, label) == c.labels[Place(c, label) - 1]

OverBudget(c, s) == c.maxCost # None /\ s.cost >= c.maxCost

\* _escalation: the reason, the label to start from and the models to avoid.
Escalation(c, s) ==
    LET failing == s.failures >= c.maxFailures
        cut == s.truncations >= c.maxTruncations
        above == ~IsGlobalDefault(c, s.label) /\ s.label # c.labels[1]
    IN  CASE failing ->
                [reason |-> "upstream_failures", label |-> s.label, excluded |-> {s.route}]
          [] ~failing /\ cut ->
                [reason |-> "output_truncated", label |-> Raised(c, s.label), excluded |-> {}]
          [] ~failing /\ ~cut /\ OverBudget(c, s) /\ above ->
                [reason |-> "budget_pressure", label |-> Lowered(c, s.label), excluded |-> {}]
          [] OTHER -> [reason |-> None, label |-> s.label, excluded |-> {}]

Pins(c) == c.mode \in {"sticky", "cached"}

\* Variant: a pin holds against hard requirements only.
ReleasedByOutcomes(c, reason) ==
    /\ reason # None
    /\ Pins(c) => reason \in c.breakOn \cup EscalationReasons

\* A pinned session leaves its model for the reasons of pin.break_on only.
Released(c, reason) ==
    /\ reason # None
    /\ Pins(c) => reason \in c.breakOn

\* Variant: the cool-down is waived once enough turns have passed.
HysteresisByTurnsOnly(c, s, turn) ==
    /\ s.switches < c.maxSwitches
    /\ s.switches # 0 => turn - s.switchedTurn >= c.minTurns

\* _hysteresis_allows.
HysteresisAllows(c, s, turn) ==
    /\ s.switches < c.maxSwitches
    /\ s.switches # 0 =>
          /\ turn - s.switchedTurn >= c.minTurns
          /\ clock - s.switchedAt >= c.cooldown

-----------------------------------------------------------------------------
(* The strategies' answer to a turn: a set with at most one StrategyOutcome, *)
(* empty when the request is refused with setup_incomplete.                  *)

Answer(chosen, facts, reason, from) ==
    [model |-> chosen.model, label |-> chosen.label, defaulted |-> chosen.defaulted,
     reason |-> reason, from |-> from, blocked |-> FALSE, facts |-> facts]

\* _current_selection. The label of a defaulted session reads "default".
Current(s) ==
    [model |-> s.route, defaulted |-> s.defaulted,
     label |-> IF s.defaulted THEN DefaultLabel ELSE s.label]

\* Variant: a model outside every label is reported under none.
ManualUnlabelled(c, request, from) ==
    Answer([model |-> request.manual, defaulted |-> FALSE,
            label |-> TierForProfile(c, request.manual, None)],
           request.facts, "manual_override", from)

\* A request that names a model.
Manual(c, request, from) ==
    Answer([model |-> request.manual, defaulted |-> FALSE,
            label |-> TierForProfile(c, request.manual, c.labels[1])],
           request.facts, "manual_override", from)

\* _initial.
Initial(c, class, request) ==
    IF request.manual # None THEN {Manual(c, request, None)}
    ELSE {Answer(chosen, request.facts, "first_turn", None) :
            chosen \in Select(c, class.rule, RequestLabel(c, class.label),
                              request.facts, {})}

\* _escalation_candidate: the labels from the first one upwards, until a model
\* other than the current one is found, or a label has none to offer.
Climb(c, rule, s, facts, escalation) ==
    LET path == <<escalation.label>> \o Above(c, escalation.label)
        found == [i \in DOMAIN path |->
                    Select(c, rule, path[i], facts, escalation.excluded)]
        ends == {i \in DOMAIN path : \A chosen \in found[i] : chosen.model # s.route}
    IN  IF ends = {} THEN {Answer(Current(s), facts, "session_kept", None)}
        ELSE {Answer(chosen, facts, escalation.reason, s.route) :
                chosen \in found[CHOOSE i \in ends : \A j \in ends : i <= j]}

\* What remains to be tried when no hard requirement moves the session.
Escalate(c, rule, s, request) ==
    LET escalation == Escalation(c, s)
        kept == Answer(Current(s), request.facts, "session_kept", None)
    IN  IF ~Released(c, escalation.reason) THEN {kept}
        ELSE IF ~HysteresisAllows(c, s, request.turn)
             THEN {[kept EXCEPT !.blocked = ~Pins(c)]}
             ELSE Climb(c, rule, s, request.facts, escalation)

\* _pinned_selection and the rest of _continuation_selection.
Remain(c, rule, s, request) ==
    LET reason == HardReason(c, s.route, request.facts)
        found == Select(c, rule, s.label, request.facts, {s.route})
        helps(chosen) == /\ chosen.model # s.route
                         /\ Improves(chosen.model, s.route, reason)
    IN  IF Released(c, reason) /\ \A chosen \in found : helps(chosen)
        THEN {Answer(chosen, request.facts, reason, s.route) : chosen \in found}
        ELSE Escalate(c, rule, s, request)

\* The fresh mode selects every turn.
Afresh(c, class, s, request) ==
    {Answer(chosen, request.facts, "per_turn_policy",
            IF chosen.model = s.route THEN None ELSE s.route) :
        chosen \in Select(c, class.rule, RequestLabel(c, class.label), request.facts, {})}

\* _continuation. Naming the model that the session has is no manual override.
Continuation(c, class, s, request) ==
    CASE request.manual \notin {None, s.route} -> {Manual(c, request, s.route)}
      [] request.manual \in {None, s.route} /\ c.mode = "fresh" ->
            Afresh(c, class, s, request)
      [] OTHER -> Remain(c, class.rule, s, request)

\* A session is continued while its label and its model are there.
Continues(c, s) ==
    /\ s # None
    /\ s.label \in Range(c.labels) \cup {DefaultLabel}
    /\ s.route \in Usable(c)

\* PolicyStrategy.decide, after the checks of RoutingEngine.decide.
Outcomes(c, s, request) ==
    LET class == Classification(c, s, request)
    IN  IF request.manual \notin Usable(c) \cup {None} THEN {}
        ELSE IF Continues(c, s) THEN Continuation(c, class, s, request)
             ELSE Initial(c, class, request)

-----------------------------------------------------------------------------
(* Turns, and what falls between them. *)

\* The session that _persist creates.
FreshSession(answer) ==
    [route |-> answer.model, label |-> answer.label, defaulted |-> answer.defaulted,
     failures |-> 0, truncations |-> 0, cost |-> 0, switches |-> 0,
     switchedTurn |-> 0, switchedAt |-> clock]

\* The update of _persist.
Persisted(s, answer, turn) ==
    LET switched == answer.from # None
    IN  [s EXCEPT !.route = answer.model, !.label = answer.label,
                  !.defaulted = answer.defaulted,
                  !.switches = IF switched THEN @ + 1 ELSE @,
                  !.switchedTurn = IF switched THEN turn ELSE @,
                  !.switchedAt = IF switched THEN clock ELSE @]

\* RoutingEngine.decide of a request of this conversation.
Turn(request) ==
    /\ inFlight < MaxInFlight
    /\ session # None => session.switches < SwitchBound
    /\ \E answer \in Outcomes(catalog, session, request) :
          /\ decision' = answer
          /\ session' = Persisted(IF session = None THEN FreshSession(answer) ELSE session,
                                  answer, request.turn)
          /\ escalations' = IF answer.from # None /\ answer.reason \in EscalationReasons
                            THEN Append(escalations, clock) ELSE escalations
    /\ inFlight' = inFlight + 1
    /\ UNCHANGED <<catalog, clock>>

\* record_outcome: an answer that is complete, cut off, or an error. The cost is
\* added when usage came with it, which it may with any of them.
RecordOutcome ==
    /\ inFlight > 0
    /\ inFlight' = inFlight - 1
    /\ session # None =>
          \E result \in {"complete", "length", "error"}, charge \in Charges \cup {0} :
             LET s == [session EXCEPT
                         !.failures = IF result = "error" THEN @ + 1 ELSE 0,
                         !.truncations = CASE result = "complete" -> 0
                                           [] result = "length" -> @ + 1
                                           [] OTHER -> @,
                         !.cost = @ + charge]
             IN  /\ {s.failures, s.truncations, s.cost} \subseteq 0..CounterBound
                 /\ session' = s
    /\ session = None => UNCHANGED session
    /\ UNCHANGED <<catalog, decision, clock, escalations>>

\* The session expires or is evicted.
Forget ==
    /\ session # None
    /\ session' = None
    /\ escalations' = <<>>
    /\ UNCHANGED <<catalog, decision, clock, inFlight>>

\* reload_catalog keeps the sessions.
Reload(c) ==
    /\ catalog' = c
    /\ UNCHANGED <<session, decision, clock, inFlight, escalations>>

Tick ==
    /\ clock < MaxClock
    /\ clock' = clock + 1
    /\ UNCHANGED <<catalog, session, decision, inFlight, escalations>>

Next ==
    \/ \E request \in Requests(catalog) : Turn(request)
    \/ RecordOutcome
    \/ Forget
    \/ \E c \in Catalogs : Reload(c)
    \/ Tick

Spec == Init /\ [][Next]_vars

-----------------------------------------------------------------------------
(* Properties. *)

\* Type of the variables.
TypeOK ==
    /\ catalog \in Catalogs
    /\ session \in SessionState \cup {None}
    /\ decision \in StrategyOutcome \cup {None}
    /\ clock \in Times
    /\ inFlight \in 0..MaxInFlight
    /\ escalations \in Seq(Times)

\* Whatever reload, relaxation, pin or manual request led to a decision, it names
\* a model that is enabled and selected in the strategy when it is made
\* (_candidates, _tier_pool, and the guards of decide and _continuation).
RoutesToUsableModel ==
    [][decision' # decision => decision'.model \in Usable(catalog)]_vars

\* A model that is selected from a label meets a stricter step of the relaxation
\* order than no usable model: constraints are dropped only when nobody, in the
\* label or outside it, meets them (the nested loops of _select).
RelaxesLast ==
    [][decision' # decision /\ decision'.reason \in {"first_turn", "per_turn_policy"}
            /\ ~decision'.defaulted =>
         \A m \in Usable(catalog), i \in DOMAIN Relaxations :
            Meets(m, decision'.facts, Relaxations[i]) =>
                \E j \in 1..i : Meets(decision'.model, decision'.facts, Relaxations[j])]_vars

\* A session that a pin does not hold is never routed to a model that lacks what
\* the request needs while a usable model has it. Excepted are manual requests,
\* failures, which exclude the current model, and whatever the global default
\* decides, which looks at no constraint (_hard_requirement before _escalation,
\* and _select). When the context or the output limit moves the session, the model
\* that is left does not count: it is excluded, and _improves compares windows and
\* ceilings only, so that the last capable model may be left for a wider one.
CapableWhenPossible ==
    [][(/\ decision' # decision
        /\ session # None /\ ~decision'.defaulted
        /\ Continues(catalog, session) => ~LeftToDefault(catalog, session.label)
        /\ Pins(catalog) => "capability_gap" \in catalog.breakOn
        /\ decision'.reason \notin {"manual_override", "upstream_failures"}) =>
         \/ Capable(decision'.model, decision'.facts)
         \/ \A m \in Usable(catalog) :
               \/ ~Capable(m, decision'.facts)
               \/ /\ decision'.reason \in {"context_pressure", "output_limit"}
                  /\ m = session.route]_vars

Moves == session # None /\ session' # None /\ session'.route # session.route

\* A pinned session that can be continued is moved by a request that names
\* another model or for a reason of pin.break_on, by nothing else: neither by what
\* outcomes have counted nor by a reload (_pinned_selection).
PinHolds ==
    [][Moves /\ Pins(catalog) /\ Continues(catalog, session) =>
         decision'.reason \in catalog.breakOn \cup {"manual_override"}]_vars

\* Outcomes and cost move a session fewer times than max_switches_per_session
\* allows, and never twice within the cool-down, whatever other switches, reloads
\* and turn numbers of the client come in between (_hysteresis_allows, _persist).
EscalationsDamped ==
    [][Len(escalations') > Len(escalations) =>
         /\ Len(escalations) < catalog.maxSwitches
         /\ escalations # <<>> =>
               clock - escalations[Len(escalations)] >= catalog.cooldown]_vars

\* What docs/http-api.md says of setup_incomplete: no models, or a label without
\* models and no global default. Any other request is routed.
RefusedOnlyUnconfigured ==
    \A request \in Requests(catalog) :
        request.manual = None /\ Outcomes(catalog, session, request) = {} =>
            \/ Usable(catalog) = {}
            \/ /\ DefaultModel(catalog) = {}
               /\ \E label \in Range(catalog.labels) : LeftToDefault(catalog, label)

=============================================================================
