------------------------ MODULE PolicyRoutingProofs ------------------------
(***************************************************************************)
(* Proofs about PolicyRouting, for any models, labels and catalogs that    *)
(* validation accepts.                                                     *)
(*                                                                         *)
(* Pools hold usable models and labels stay labels of the catalog          *)
(* (SelectionSound); from this, what any answer of a strategy looks like   *)
(* (AnswersSound); the theorems then follow step by step.                  *)
(***************************************************************************)
EXTENDS PolicyRouting, FiniteSetTheorems, SequenceTheorems, WellFoundedInduction, TLAPS

Selections(c) == [model: Usable(c), label: RouteLabels, defaulted: BOOLEAN]

\* A set of numbers that is not empty has a least element.
LEMMA LeastNumber ==
    ASSUME NEW S, S \subseteq Nat, S # {}
    PROVE  /\ (CHOOSE i \in S : \A j \in S : i <= j) \in S
           /\ \A j \in S : (CHOOSE i \in S : \A k \in S : i <= k) <= j
<1>1. PICK i \in S : \A j \in S : <<j, i>> \notin OpToRel(<, Nat)
  BY NatLessThanWellFounded, WFMin
<1>2. \A j \in S : i <= j
  <2>1. SUFFICES ASSUME NEW j \in S, j < i PROVE FALSE
    OBVIOUS
  <2>2. <<j, i>> \in OpToRel(<, Nat)
    BY <2>1 DEF OpToRel
  <2> QED BY <1>1, <2>2
<1> QED BY <1>2

-----------------------------------------------------------------------------
(* Pools and selection. *)

LEMMA UsableModels ==
    ASSUME NEW c \in Catalogs PROVE Usable(c) \subseteq Models
BY SelectionAssumption DEF Usable

LEMMA PoolsAreUsable ==
    ASSUME NEW c \in Catalogs, NEW label
    PROVE  DOMAIN TierPool(c, label) \subseteq Usable(c)
<1>1. CASE DOMAIN c.listed[label] # {} \/ c.explicit[label]
  BY <1>1 DEF TierPool, Restrict
<1>2. CASE ~(DOMAIN c.listed[label] # {} \/ c.explicit[label])
  BY <1>2 DEF TierPool, Restrict
<1> QED BY <1>1, <1>2

LEMMA CandidatesAreUsable ==
    ASSUME NEW c \in Catalogs, NEW label, NEW facts, NEW excluded, NEW attempt
    PROVE  DOMAIN Candidates(c, label, facts, excluded, attempt) \subseteq Usable(c)
<1> DEFINE pool == IF attempt[2] THEN WholePool(c) ELSE TierPool(c, label)
           kept == {m \in DOMAIN pool \ excluded :
                       Meets(m, facts, Relaxations[attempt[1]])}
<1>1. DOMAIN pool \subseteq Usable(c)
  BY PoolsAreUsable DEF WholePool, Restrict
<1>2. DOMAIN Candidates(c, label, facts, excluded, attempt) = kept
  BY DEF Candidates, Restrict
<1> QED BY <1>1, <1>2

\* _tier_for_profile returns a label of the policy or its fallback.
LEMMA LabelsOfModels ==
    ASSUME NEW c \in Catalogs, NEW m, NEW fallback \in RouteLabels
    PROVE  TierForProfile(c, m, fallback) \in RouteLabels
<1> DEFINE found == {i \in DOMAIN c.labels :
                        \/ m \in DOMAIN c.listed[c.labels[i]]
                        \/ /\ DOMAIN c.listed[c.labels[i]] = {}
                           /\ m \in c.tagged[c.labels[i]]}
           first == CHOOSE i \in found : \A j \in found : i <= j
<1>1. c.labels \in Seq(Labels)
  BY SelectionAssumption
<1>2. found \subseteq Nat /\ found \subseteq DOMAIN c.labels
  BY <1>1
<1>3. TierForProfile(c, m, fallback) = IF found = {} THEN fallback ELSE c.labels[first]
  BY DEF TierForProfile
<1>4. CASE found = {}
  BY <1>3, <1>4
<1>5. CASE found # {}
  <2>1. first \in found
    BY <1>2, <1>5, LeastNumber
  <2>2. first \in DOMAIN c.labels
    BY <1>2, <2>1
  <2> HIDE DEF found, first
  <2>3. c.labels[first] \in Labels
    BY <1>1, <2>2
  <2> QED BY <1>3, <1>5, <2>3 DEF RouteLabels
<1> QED BY <1>4, <1>5

LEMMA DefaultsSound ==
    ASSUME NEW c \in Catalogs
    PROVE  DefaultModel(c) \subseteq Selections(c)
<1>1. SUFFICES ASSUME NEW m \in {c.default} \cap Usable(c)
               PROVE  [model |-> m, label |-> DefaultLabel, defaulted |-> TRUE]
                         \in Selections(c)
  BY DEF DefaultModel
<1>2. m \in Usable(c) /\ DefaultLabel \in RouteLabels
  BY DEF RouteLabels
<1> QED BY <1>2 DEF Selections

\* Whatever is selected is usable and reported under a label.
LEMMA SelectionSound ==
    ASSUME NEW c \in Catalogs, NEW rule, NEW label \in RouteLabels, NEW facts,
           NEW excluded
    PROVE  Select(c, rule, label, facts, excluded) \subseteq Selections(c)
<1> DEFINE pool(attempt) == Candidates(c, label, facts, excluded, attempt)
           chosen(attempt, m) ==
               [model |-> m, defaulted |-> FALSE,
                label |-> IF attempt[2] THEN TierForProfile(c, m, label) ELSE label]
<1>1. CASE LeftToDefault(c, label)
  BY <1>1, DefaultsSound DEF Select
<1>2. CASE ~LeftToDefault(c, label)
  <2>1. SUFFICES ASSUME NEW x \in Select(c, rule, label, facts, excluded)
                 PROVE  x \in Selections(c)
    OBVIOUS
  <2>2. PICK attempt \in Attempts :
           \E m \in FirstOf(rule, pool(attempt), facts) : x = chosen(attempt, m)
    BY <1>2 DEF Select
  <2>3. PICK m \in FirstOf(rule, pool(attempt), facts) : x = chosen(attempt, m)
    BY <2>2
  <2>4. m \in Usable(c)
    <3>1. m \in DOMAIN pool(attempt)
      BY <2>3 DEF FirstOf
    <3> QED BY <3>1, CandidatesAreUsable
  <2>5. (IF attempt[2] THEN TierForProfile(c, m, label) ELSE label) \in RouteLabels
    BY LabelsOfModels
  <2> QED BY <2>3, <2>4, <2>5 DEF Selections
<1> QED BY <1>1, <1>2

LEMMA FirstLabel ==
    ASSUME NEW c \in Catalogs
    PROVE  c.labels[1] \in Labels /\ Len(c.labels) \in Nat \ {0}
<1>1. c.labels \in Seq(Labels) /\ c.labels # <<>>
  BY SelectionAssumption
<1> QED BY <1>1

LEMMA RequestLabels ==
    ASSUME NEW c \in Catalogs, NEW label
    PROVE  RequestLabel(c, label) \in RouteLabels
<1>1. c.labels \in Seq(Labels)
  BY SelectionAssumption
<1>2. Range(c.labels) \subseteq Labels
  BY <1>1 DEF Range
<1> QED BY <1>2, FirstLabel DEF RequestLabel, RouteLabels

LEMMA PlaceOf ==
    ASSUME NEW c \in Catalogs, NEW label \in Range(c.labels)
    PROVE  Place(c, label) \in 1..Len(c.labels) /\ c.labels[Place(c, label)] = label
<1>1. c.labels \in Seq(Labels)
  BY SelectionAssumption
<1>2. \E i \in DOMAIN c.labels : c.labels[i] = label
  BY DEF Range
<1> QED BY <1>1, <1>2 DEF Place

\* The labels a session may be continued under.
Known(c) == Range(c.labels) \cup {DefaultLabel}

LEMMA LabelsAbove ==
    ASSUME NEW c \in Catalogs, NEW label \in Known(c)
    PROVE  Above(c, label) \in Seq(Labels)
<1> DEFINE place == IF IsGlobalDefault(c, label) THEN 1 ELSE Place(c, label)
           next == SubSeq(c.labels, place + 1, Len(c.labels))
<1>1. c.labels \in Seq(Labels) /\ Len(c.labels) \in Nat \ {0}
  BY SelectionAssumption, FirstLabel
<1>2. place \in 1..Len(c.labels)
  BY <1>1, PlaceOf DEF Known, IsGlobalDefault
<1>3. next \in Seq(Labels)
  BY <1>1, <1>2, SubSeqProperties
<1> QED BY <1>1, <1>3 DEF Above

-----------------------------------------------------------------------------
(* Answers. *)

\* What a decision may be, for the request it answers.
Sound(c, s, request, answer) ==
    /\ answer \in StrategyOutcome
    /\ answer.model \in Usable(c)
    /\ answer.from # None => Continues(c, s)
    /\ answer.from # None /\ answer.reason \in EscalationReasons =>
          HysteresisAllows(c, s, request.turn)
    /\ Continues(c, s) /\ Pins(c) /\ answer.model # s.route =>
          answer.reason \in c.breakOn \cup {"manual_override"}

\* An answer made from a selection has its type.
LEMMA AnswersTyped ==
    ASSUME NEW c \in Catalogs, NEW chosen \in Selections(c), NEW facts \in Facts,
           NEW reason \in Reasons, NEW from \in Models \cup {None}
    PROVE  /\ Answer(chosen, facts, reason, from) \in StrategyOutcome
           /\ Answer(chosen, facts, reason, from).model \in Usable(c)
           /\ Answer(chosen, facts, reason, from).model = chosen.model
           /\ Answer(chosen, facts, reason, from).reason = reason
           /\ Answer(chosen, facts, reason, from).from = from
<1>1. /\ chosen.model \in Usable(c) /\ chosen.label \in RouteLabels
      /\ chosen.defaulted \in BOOLEAN
  BY DEF Selections
<1>2. chosen.model \in Models
  BY <1>1, UsableModels
<1> QED BY <1>1, <1>2 DEF Answer, StrategyOutcome

LEMMA ManualSound ==
    ASSUME NEW c \in Catalogs, NEW s, NEW request \in Requests(c),
           request.manual \in Usable(c), NEW from \in Models \cup {None},
           from # None => Continues(c, s)
    PROVE  Sound(c, s, request, Manual(c, request, from))
<1> DEFINE chosen == [model |-> request.manual, defaulted |-> FALSE,
                      label |-> TierForProfile(c, request.manual, c.labels[1])]
<1>1. chosen \in Selections(c)
  <2>1. TierForProfile(c, request.manual, c.labels[1]) \in RouteLabels
    BY FirstLabel, LabelsOfModels DEF RouteLabels
  <2> QED BY <2>1 DEF Selections
<1>2. request.facts \in Facts
  BY DEF Requests
<1>3. "manual_override" \in Reasons \ EscalationReasons
  BY DEF Reasons, EscalationReasons
<1> HIDE DEF chosen
<1>4. Manual(c, request, from) = Answer(chosen, request.facts, "manual_override", from)
  BY DEF Manual, chosen
<1> QED BY <1>1, <1>2, <1>3, <1>4, AnswersTyped DEF Sound

LEMMA InitialSound ==
    ASSUME NEW c \in Catalogs, NEW s, NEW request \in Requests(c), NEW class,
           request.manual \in Usable(c) \cup {None}, ~Continues(c, s),
           NEW answer \in Initial(c, class, request)
    PROVE  Sound(c, s, request, answer)
<1>1. CASE request.manual # None
  BY <1>1, ManualSound DEF Initial
<1>2. CASE request.manual = None
  <2>1. PICK chosen \in Select(c, class.rule, RequestLabel(c, class.label),
                               request.facts, {}) :
           answer = Answer(chosen, request.facts, "first_turn", None)
    BY <1>2 DEF Initial
  <2>2. chosen \in Selections(c)
    BY SelectionSound, RequestLabels
  <2>3. request.facts \in Facts
    BY DEF Requests
  <2>4. "first_turn" \in Reasons
    BY DEF Reasons
  <2> QED BY <2>1, <2>2, <2>3, <2>4, AnswersTyped DEF Sound
<1> QED BY <1>1, <1>2

LEMMA CurrentSound ==
    ASSUME NEW c \in Catalogs, NEW s \in SessionState, Continues(c, s)
    PROVE  Current(s) \in Selections(c) /\ Current(s).model = s.route
<1>1. s.route \in Usable(c) /\ s.label \in RouteLabels /\ s.defaulted \in BOOLEAN
  BY DEF Continues, SessionState
<1>2. DefaultLabel \in RouteLabels
  BY DEF RouteLabels
<1> QED BY <1>1, <1>2 DEF Current, Selections

\* Keeping the model, with or without hysteresis, is sound.
LEMMA KeptSound ==
    ASSUME NEW c \in Catalogs, NEW s \in SessionState, Continues(c, s),
           NEW request \in Requests(c), NEW blocked \in BOOLEAN
    PROVE  LET kept == Answer(Current(s), request.facts, "session_kept", None)
           IN  /\ Sound(c, s, request, kept)
               /\ Sound(c, s, request, [kept EXCEPT !.blocked = blocked])
<1> DEFINE kept == Answer(Current(s), request.facts, "session_kept", None)
<1>1. request.facts \in Facts /\ "session_kept" \in Reasons
  BY DEF Requests, Reasons
<1>2. /\ kept \in StrategyOutcome /\ kept.model \in Usable(c)
      /\ kept.model = s.route /\ kept.from = None
  <2>1. Current(s) \in Selections(c) /\ Current(s).model = s.route
    BY CurrentSound
  <2>2. None \in Models \cup {None}
    OBVIOUS
  <2> QED BY <1>1, <2>1, <2>2, AnswersTyped
<1> HIDE DEF kept
<1> DEFINE other == [kept EXCEPT !.blocked = blocked]
<1>3. /\ other \in StrategyOutcome /\ other.model = kept.model
      /\ other.from = kept.from
  BY <1>2 DEF StrategyOutcome
<1> HIDE DEF other
<1>4. Sound(c, s, request, kept) /\ Sound(c, s, request, other)
  BY <1>2, <1>3 DEF Sound
<1> QED BY <1>4 DEF kept, other

LEMMA EscalationLabels ==
    ASSUME NEW c \in Catalogs, NEW s \in SessionState, Continues(c, s),
           Escalation(c, s).reason # None
    PROVE  /\ Escalation(c, s).label \in Known(c)
           /\ Escalation(c, s).reason \in EscalationReasons
<1>1. s.label \in Known(c)
  BY DEF Continues, Known
<1>2. c.labels \in Seq(Labels) /\ Len(c.labels) \in Nat \ {0}
  BY SelectionAssumption, FirstLabel
<1>3. Raised(c, s.label) \in Known(c)
  <2> DEFINE place == IF IsGlobalDefault(c, s.label) THEN 1 ELSE Place(c, s.label)
             next == SubSeq(c.labels, place + 1, Len(c.labels))
  <2>1. place \in 1..Len(c.labels)
    BY <1>1, <1>2, PlaceOf DEF Known, IsGlobalDefault
  <2>2. next # <<>> => next[1] \in Range(c.labels)
    <3>1. SUFFICES ASSUME next # <<>> PROVE next[1] \in Range(c.labels)
      OBVIOUS
    <3>2. place + 1 <= Len(c.labels)
      BY <1>2, <2>1, <3>1, SubSeqEmpty
    <3>3. next[1] = c.labels[place + 1]
      BY <1>2, <2>1, <3>2, SubSeqProperties
    <3> QED BY <1>2, <2>1, <3>2, <3>3 DEF Range
  <2>3. c.labels[1] \in Range(c.labels)
    BY <1>2 DEF Range
  <2>4. Above(c, s.label) # <<>> => Above(c, s.label)[1] \in Range(c.labels)
    BY <2>2, <2>3 DEF Above
  <2> QED BY <1>1, <2>4 DEF Raised, Known
<1>4. ~IsGlobalDefault(c, s.label) /\ s.label # c.labels[1] =>
         Lowered(c, s.label) \in Known(c)
  <2>1. SUFFICES ASSUME ~IsGlobalDefault(c, s.label), s.label # c.labels[1]
                 PROVE  Lowered(c, s.label) \in Known(c)
    OBVIOUS
  <2>2. s.label \in Range(c.labels)
    BY <1>1, <2>1 DEF Known, IsGlobalDefault
  <2>3. Place(c, s.label) \in 2..Len(c.labels)
    BY <1>2, <2>1, <2>2, PlaceOf
  <2> QED BY <1>2, <2>3 DEF Lowered, Known, Range
<1> QED BY <1>1, <1>3, <1>4 DEF Escalation, EscalationReasons

\* A climb ends at a usable model other than the session's, or keeps that.
LEMMA ClimbSound ==
    ASSUME NEW c \in Catalogs, NEW s \in SessionState, Continues(c, s),
           NEW rule, NEW request \in Requests(c),
           Released(c, Escalation(c, s).reason),
           HysteresisAllows(c, s, request.turn),
           NEW answer \in Climb(c, rule, s, request.facts, Escalation(c, s))
    PROVE  Sound(c, s, request, answer)
<1> DEFINE e == Escalation(c, s)
           path == <<e.label>> \o Above(c, e.label)
           found == [i \in DOMAIN path |->
                        Select(c, rule, path[i], request.facts, e.excluded)]
           ends == {i \in DOMAIN path :
                       \A chosen \in found[i] : chosen.model # s.route}
           first == CHOOSE i \in ends : \A j \in ends : i <= j
<1>1. e.label \in Known(c) /\ e.reason \in EscalationReasons
  BY EscalationLabels DEF Released
<1>2. path \in Seq(RouteLabels)
  <2>1. Above(c, e.label) \in Seq(RouteLabels)
    <3>1. Above(c, e.label) \in Seq(Labels)
      BY <1>1, LabelsAbove
    <3> QED BY <3>1 DEF RouteLabels
  <2>2. c.labels \in Seq(Labels)
    BY SelectionAssumption
  <2>3. e.label \in RouteLabels
    BY <1>1, <2>2 DEF Known, RouteLabels, Range
  <2>4. <<e.label>> \in Seq(RouteLabels)
    BY <2>3
  <2> HIDE DEF e
  <2> QED BY <2>1, <2>4, ConcatProperties
<1>3. Climb(c, rule, s, request.facts, e) =
        IF ends = {} THEN {Answer(Current(s), request.facts, "session_kept", None)}
        ELSE {Answer(chosen, request.facts, e.reason, s.route) : chosen \in found[first]}
  BY DEF Climb
<1>4. CASE ends = {}
  BY <1>3, <1>4, KeptSound
<1>5. CASE ends # {}
  <2>1. ends \subseteq DOMAIN path /\ ends \subseteq Nat
    BY <1>2
  <2>2. first \in ends
    BY <1>5, <2>1, LeastNumber
  <2>3. PICK chosen \in found[first] :
           answer = Answer(chosen, request.facts, e.reason, s.route)
    BY <1>3, <1>5
  <2>4. chosen.model # s.route
    BY <2>2, <2>3
  <2>5. path[first] \in RouteLabels
    <3>1. first \in DOMAIN path
      BY <2>1, <2>2
    <3> HIDE DEF path, first
    <3> QED BY <1>2, <3>1
  <2>6. chosen \in Selections(c)
    <3>1. chosen \in Select(c, rule, path[first], request.facts, e.excluded)
      BY <2>1, <2>2, <2>3
    <3> HIDE DEF path, first, e
    <3> QED BY <2>5, <3>1, SelectionSound
  <2>7. request.facts \in Facts /\ e.reason \in Reasons /\ s.route \in Models
    BY <1>1 DEF Requests, Reasons, SessionState
  <2> HIDE DEF path, first, e, found, ends
  <2>8. /\ answer \in StrategyOutcome /\ answer.model \in Usable(c)
        /\ answer.reason = e.reason
    BY <2>3, <2>6, <2>7, AnswersTyped
  <2>9. Pins(c) => e.reason \in c.breakOn
    BY DEF Released, e
  <2> QED BY <2>8, <2>9 DEF Sound
<1> QED BY <1>4, <1>5

LEMMA EscalateSound ==
    ASSUME NEW c \in Catalogs, NEW s \in SessionState, Continues(c, s),
           NEW rule, NEW request \in Requests(c),
           NEW answer \in Escalate(c, rule, s, request)
    PROVE  Sound(c, s, request, answer)
<1> DEFINE kept == Answer(Current(s), request.facts, "session_kept", None)
<1>1. CASE ~Released(c, Escalation(c, s).reason)
  BY <1>1, KeptSound DEF Escalate
<1>2. CASE /\ Released(c, Escalation(c, s).reason)
           /\ ~HysteresisAllows(c, s, request.turn)
  <2>1. answer = [kept EXCEPT !.blocked = ~Pins(c)]
    BY <1>2 DEF Escalate
  <2>2. CASE Pins(c)
    <3>1. (~Pins(c)) = FALSE
      BY <2>2
    <3>2. answer = [kept EXCEPT !.blocked = FALSE]
      BY <2>1, <3>1
    <3> QED BY <3>2, KeptSound
  <2>3. CASE ~Pins(c)
    <3>1. (~Pins(c)) = TRUE
      BY <2>3
    <3>2. answer = [kept EXCEPT !.blocked = TRUE]
      BY <2>1, <3>1
    <3> QED BY <3>2, KeptSound
  <2> QED BY <2>2, <2>3
<1>3. CASE /\ Released(c, Escalation(c, s).reason)
           /\ HysteresisAllows(c, s, request.turn)
  BY <1>3, ClimbSound DEF Escalate
<1> QED BY <1>1, <1>2, <1>3

LEMMA RemainSound ==
    ASSUME NEW c \in Catalogs, NEW s \in SessionState, Continues(c, s),
           NEW rule, NEW request \in Requests(c),
           NEW answer \in Remain(c, rule, s, request)
    PROVE  Sound(c, s, request, answer)
<1> DEFINE reason == HardReason(c, s.route, request.facts)
           found == Select(c, rule, s.label, request.facts, {s.route})
           helps(chosen) == /\ chosen.model # s.route
                            /\ Improves(chosen.model, s.route, reason)
<1>1. CASE Released(c, reason) /\ \A chosen \in found : helps(chosen)
  <2>1. PICK chosen \in found : answer = Answer(chosen, request.facts, reason, s.route)
    BY <1>1 DEF Remain
  <2>2. chosen \in Selections(c)
    BY SelectionSound DEF SessionState
  <2>3. reason \in HardReasons
    BY <1>1 DEF Released, HardReason, HardReasons
  <2>4. reason \in Reasons /\ reason \notin EscalationReasons
    BY <2>3 DEF Reasons, HardReasons, EscalationReasons
  <2>5. request.facts \in Facts /\ s.route \in Models
    BY DEF Requests, SessionState
  <2>6. Pins(c) => reason \in c.breakOn
    BY <1>1 DEF Released
  <2> HIDE DEF reason, found
  <2> QED BY <2>1, <2>2, <2>4, <2>5, <2>6, AnswersTyped DEF Sound
<1>2. CASE ~(Released(c, reason) /\ \A chosen \in found : helps(chosen))
  <2>1. answer \in Escalate(c, rule, s, request)
    BY <1>2 DEF Remain
  <2> QED BY <2>1, EscalateSound
<1> QED BY <1>1, <1>2

LEMMA ContinuationSound ==
    ASSUME NEW c \in Catalogs, NEW s \in SessionState, Continues(c, s),
           NEW class, NEW request \in Requests(c),
           request.manual \in Usable(c) \cup {None},
           NEW answer \in Continuation(c, class, s, request)
    PROVE  Sound(c, s, request, answer)
<1>1. CASE request.manual \notin {None, s.route}
  <2>1. answer = Manual(c, request, s.route)
    BY <1>1 DEF Continuation
  <2>2. s.route \in Models
    BY DEF SessionState
  <2> QED BY <1>1, <2>1, <2>2, ManualSound
<1>2. CASE request.manual \in {None, s.route} /\ c.mode = "fresh"
  <2>1. PICK chosen \in Select(c, class.rule, RequestLabel(c, class.label),
                               request.facts, {}) :
           answer = Answer(chosen, request.facts, "per_turn_policy",
                           IF chosen.model = s.route THEN None ELSE s.route)
    BY <1>2 DEF Continuation, Afresh
  <2>2. chosen \in Selections(c)
    BY SelectionSound, RequestLabels
  <2>3. /\ request.facts \in Facts
        /\ (IF chosen.model = s.route THEN None ELSE s.route) \in Models \cup {None}
    BY DEF Requests, SessionState
  <2>4. "per_turn_policy" \in Reasons \ EscalationReasons
    BY DEF Reasons, EscalationReasons
  <2>5. ~Pins(c)
    BY <1>2 DEF Pins
  <2> QED BY <2>1, <2>2, <2>3, <2>4, <2>5, AnswersTyped DEF Sound
<1>3. CASE request.manual \in {None, s.route} /\ c.mode # "fresh"
  <2>1. answer \in Remain(c, class.rule, s, request)
    BY <1>3 DEF Continuation
  <2> QED BY <2>1, RemainSound
<1> QED BY <1>1, <1>2, <1>3

\* What a strategy answers, whatever its kind, mode and session.
LEMMA AnswersSound ==
    ASSUME NEW c \in Catalogs, NEW s \in SessionState \cup {None},
           NEW request \in Requests(c), NEW answer \in Outcomes(c, s, request)
    PROVE  Sound(c, s, request, answer)
<1> DEFINE class == Classification(c, s, request)
<1>1. request.manual \in Usable(c) \cup {None}
  BY DEF Outcomes
<1>2. CASE Continues(c, s)
  <2>1. answer \in Continuation(c, class, s, request)
    BY <1>1, <1>2 DEF Outcomes
  <2>2. s \in SessionState
    BY <1>2 DEF Continues
  <2> HIDE DEF class
  <2> QED BY <1>1, <1>2, <2>1, <2>2, ContinuationSound
<1>3. CASE ~Continues(c, s)
  <2>1. answer \in Initial(c, class, request)
    BY <1>1, <1>3 DEF Outcomes
  <2> HIDE DEF class
  <2> QED BY <1>1, <1>3, <2>1, InitialSound
<1> QED BY <1>2, <1>3

-----------------------------------------------------------------------------
(* The inductive invariant: what the bookkeeping of switches remembers of the *)
(* history.                                                                   *)

LastEscalation == escalations[Len(escalations)]

Remembered ==
    /\ session # None => session.switchedAt <= clock
    /\ escalations # <<>> =>
          /\ session # None
          /\ Len(escalations) <= session.switches
          /\ LastEscalation <= session.switchedAt

IInv == TypeOK /\ Remembered

LEMMA InitHolds == Init => IInv
BY RoutingAssumption DEF Init, IInv, TypeOK, Remembered, Times

\* The session that a decision leaves.
LEMMA SessionsTyped ==
    ASSUME TypeOK, NEW answer \in StrategyOutcome, NEW turn \in Turns,
           NEW s, s = IF session = None THEN FreshSession(answer) ELSE session
    PROVE  /\ s \in SessionState
           /\ Persisted(s, answer, turn) \in SessionState
           /\ Persisted(s, answer, turn).switches =
                 IF answer.from # None THEN s.switches + 1 ELSE s.switches
           /\ Persisted(s, answer, turn).switchedAt =
                 IF answer.from # None THEN clock ELSE s.switchedAt
           /\ Persisted(s, answer, turn).route = answer.model
<1>1. s \in SessionState
  <2>1. clock \in Times
    BY DEF TypeOK
  <2>2. FreshSession(answer) \in SessionState
    BY <2>1 DEF FreshSession, SessionState, StrategyOutcome
  <2> QED BY <2>2 DEF TypeOK
<1>2. turn \in Nat /\ clock \in Times
  BY RoutingAssumption DEF Turns, TypeOK
<1>3. /\ answer.model \in Models /\ answer.label \in RouteLabels
      /\ answer.defaulted \in BOOLEAN
  BY DEF StrategyOutcome
<1> DEFINE switches == IF answer.from # None THEN s.switches + 1 ELSE s.switches
           at == IF answer.from # None THEN clock ELSE s.switchedAt
           on == IF answer.from # None THEN turn ELSE s.switchedTurn
           next == [s EXCEPT !.route = answer.model, !.label = answer.label,
                             !.defaulted = answer.defaulted, !.switches = switches,
                             !.switchedTurn = on, !.switchedAt = at]
<1>4. switches \in Nat /\ at \in Times /\ on \in Nat
  BY <1>1, <1>2 DEF SessionState
<1>5. Persisted(s, answer, turn) = next
  BY <1>1 DEF Persisted, SessionState
<1> HIDE DEF switches, at, on
<1>6. /\ next \in SessionState /\ next.switches = switches
      /\ next.switchedAt = at /\ next.route = answer.model
  BY <1>1, <1>3, <1>4 DEF SessionState
<1> HIDE DEF next
<1>7. /\ next \in SessionState
      /\ next.switches = IF answer.from # None THEN s.switches + 1 ELSE s.switches
      /\ next.switchedAt = IF answer.from # None THEN clock ELSE s.switchedAt
      /\ next.route = answer.model
  BY <1>6 DEF switches, at
<1> QED BY <1>1, <1>7, <1>5

\* Everything the theorems need of a turn.
LEMMA TurnHolds ==
    ASSUME IInv, NEW request \in Requests(catalog), Turn(request)
    PROVE  /\ IInv'
           /\ decision'.model \in Usable(catalog)
           /\ Moves /\ Pins(catalog) /\ Continues(catalog, session) =>
                decision'.reason \in catalog.breakOn \cup {"manual_override"}
           /\ Len(escalations') > Len(escalations) =>
                /\ Len(escalations) < catalog.maxSwitches
                /\ escalations # <<>> => clock - LastEscalation >= catalog.cooldown
<1>1. PICK answer \in Outcomes(catalog, session, request) :
         /\ decision' = answer
         /\ session' = Persisted(IF session = None THEN FreshSession(answer) ELSE session,
                                 answer, request.turn)
         /\ escalations' = IF answer.from # None /\ answer.reason \in EscalationReasons
                           THEN Append(escalations, clock) ELSE escalations
  BY DEF Turn
<1>2. /\ catalog \in Catalogs /\ session \in SessionState \cup {None}
      /\ clock \in Times /\ escalations \in Seq(Times) /\ inFlight \in 0..MaxInFlight
  BY DEF IInv, TypeOK
<1>3. Sound(catalog, session, request, answer)
  BY <1>2, AnswersSound
<1>4. answer \in StrategyOutcome /\ answer.model \in Usable(catalog)
  BY <1>3 DEF Sound
<1> DEFINE s == IF session = None THEN FreshSession(answer) ELSE session
           escalates == answer.from # None /\ answer.reason \in EscalationReasons
<1>5. /\ s \in SessionState /\ session' \in SessionState
      /\ session'.switches = IF answer.from # None THEN s.switches + 1 ELSE s.switches
      /\ session'.switchedAt = IF answer.from # None THEN clock ELSE s.switchedAt
      /\ session'.route = answer.model
  BY <1>1, <1>4, SessionsTyped DEF IInv, Requests
<1>6. /\ s.switches \in Nat /\ s.switchedAt \in Times /\ session' # None
  BY <1>5, RoutingAssumption DEF SessionState
<1>7. catalog' = catalog /\ clock' = clock /\ inFlight' \in 0..MaxInFlight
  BY <1>2, RoutingAssumption DEF Turn
<1>8. /\ escalations' = IF escalates THEN Append(escalations, clock) ELSE escalations
      /\ Append(escalations, clock) \in Seq(Times)
      /\ Len(Append(escalations, clock)) = Len(escalations) + 1
      /\ Append(escalations, clock)[Len(escalations) + 1] = clock
      /\ Len(escalations) \in Nat
  BY <1>1, <1>2
<1>9. TypeOK'
  BY <1>1, <1>2, <1>4, <1>5, <1>7, <1>8 DEF TypeOK
<1>10. escalations # <<>> => /\ session # None /\ s = session
                            /\ Len(escalations) <= s.switches
                            /\ LastEscalation <= s.switchedAt
                            /\ LastEscalation \in Times
                            /\ Len(escalations) > 0
  BY <1>2 DEF IInv, Remembered, LastEscalation
<1>11. escalations = <<>> <=> Len(escalations) = 0
  BY <1>2
<1> HIDE DEF s
<1>12. s.switchedAt <= clock
  <2>1. CASE session = None
    BY <1>2, <2>1 DEF s, FreshSession, Times
  <2>2. CASE session # None
    BY <1>2, <2>2 DEF s, IInv, Remembered
  <2> QED BY <2>1, <2>2
<1>13. Remembered'
  <2>1. CASE escalates
    <3>1. /\ Len(escalations') = Len(escalations) + 1 /\ LastEscalation' = clock
          /\ session'.switches = s.switches + 1 /\ session'.switchedAt = clock
      BY <1>5, <1>8, <2>1 DEF LastEscalation
    <3>2. Len(escalations) <= s.switches
      BY <1>6, <1>8, <1>10, <1>11
    <3> QED BY <1>2, <1>6, <1>7, <1>8, <3>1, <3>2 DEF Remembered, Times
  <2>2. CASE ~escalates
    <3>1. escalations' = escalations /\ LastEscalation' = LastEscalation
      BY <1>8, <2>2 DEF LastEscalation
    <3>2. /\ session'.switches >= s.switches /\ session'.switchedAt >= s.switchedAt
          /\ session'.switches \in Nat /\ session'.switchedAt \in Int
          /\ session'.switchedAt <= clock /\ clock' = clock
      BY <1>2, <1>5, <1>6, <1>7, <1>12 DEF Times
    <3> QED BY <1>6, <1>8, <1>10, <3>1, <3>2 DEF Remembered, Times
  <2> QED BY <2>1, <2>2
<1>14. Moves /\ Pins(catalog) /\ Continues(catalog, session) =>
          decision'.reason \in catalog.breakOn \cup {"manual_override"}
  BY <1>1, <1>3, <1>5 DEF Moves, Sound
<1>15. Len(escalations') > Len(escalations) =>
         /\ Len(escalations) < catalog.maxSwitches
         /\ escalations # <<>> => clock - LastEscalation >= catalog.cooldown
  <2>1. SUFFICES ASSUME escalates
                 PROVE  /\ Len(escalations) < catalog.maxSwitches
                        /\ escalations # <<>> =>
                              clock - LastEscalation >= catalog.cooldown
    BY <1>8
  <2>2. Continues(catalog, session) /\ HysteresisAllows(catalog, session, request.turn)
    BY <1>3, <2>1 DEF Sound
  <2>3. s = session
    BY <2>2 DEF Continues, s
  <2>4. s.switches < catalog.maxSwitches
    BY <2>2, <2>3 DEF HysteresisAllows
  <2>5. s.switches # 0 => clock - s.switchedAt >= catalog.cooldown
    BY <2>2, <2>3 DEF HysteresisAllows
  <2>6. catalog.maxSwitches \in Int /\ catalog.cooldown \in Int
    BY <1>2, RoutingAssumption
  <2>7. Len(escalations) <= s.switches
    BY <1>6, <1>8, <1>10, <1>11
  <2> QED BY <1>2, <1>6, <1>8, <1>10, <2>4, <2>5, <2>6, <2>7 DEF Times
<1> QED BY <1>1, <1>4, <1>9, <1>13, <1>14, <1>15 DEF IInv

\* The steps between the turns.
LEMMA OthersHold ==
    ASSUME IInv, RecordOutcome \/ Forget \/ (\E c \in Catalogs : Reload(c)) \/ Tick
    PROVE  /\ IInv' /\ ~Moves
           /\ decision' = decision
           /\ Len(escalations') <= Len(escalations)
<1>1. /\ catalog \in Catalogs /\ session \in SessionState \cup {None}
      /\ decision \in StrategyOutcome \cup {None}
      /\ clock \in Times /\ escalations \in Seq(Times) /\ inFlight \in 0..MaxInFlight
  BY DEF IInv, TypeOK
<1>2. MaxClock \in Nat /\ MaxInFlight \in Nat /\ None \notin SessionState
  BY RoutingAssumption
<1>3. Len(escalations) \in Nat
  BY <1>1
<1>4. CASE RecordOutcome
  <2>1. /\ UNCHANGED <<catalog, decision, clock, escalations>>
        /\ inFlight' \in 0..MaxInFlight
    <3>1. /\ UNCHANGED <<catalog, decision, clock, escalations>>
          /\ inFlight > 0 /\ inFlight' = inFlight - 1
      BY <1>4 DEF RecordOutcome
    <3> QED BY <1>1, <1>2, <3>1
  <2>2. CASE session = None
    BY <1>1, <1>3, <1>4, <2>1, <2>2
       DEF RecordOutcome, IInv, TypeOK, Remembered, LastEscalation, Moves
  <2>3. CASE session # None
    <3>1. /\ session' \in SessionState /\ session'.route = session.route
          /\ session'.switches = session.switches
          /\ session'.switchedAt = session.switchedAt
      <4>1. PICK failures \in Nat, truncations \in Nat, cost \in Nat :
               session' = [session EXCEPT !.failures = failures,
                                          !.truncations = truncations, !.cost = cost]
        <5>1. PICK result \in {"complete", "length", "error"}, charge \in Charges \cup {0} :
                 session' = [session EXCEPT
                    !.failures = IF result = "error" THEN session.failures + 1 ELSE 0,
                    !.truncations = CASE result = "complete" -> 0
                                      [] result = "length" -> session.truncations + 1
                                      [] OTHER -> session.truncations,
                    !.cost = session.cost + charge]
          BY <1>1, <1>4, <2>3 DEF RecordOutcome, SessionState
        <5>2. charge \in Nat /\ session \in SessionState
          BY <1>1, <2>3, RoutingAssumption
        <5>3. /\ (IF result = "error" THEN session.failures + 1 ELSE 0) \in Nat
              /\ (CASE result = "complete" -> 0
                   [] result = "length" -> session.truncations + 1
                   [] OTHER -> session.truncations) \in Nat
              /\ session.cost + charge \in Nat
          BY <5>2 DEF SessionState
        <5> QED BY <5>1, <5>3
      <4> QED BY <1>1, <2>3, <4>1 DEF SessionState
    <3> QED BY <1>1, <1>2, <1>3, <2>1, <2>3, <3>1
            DEF IInv, TypeOK, Remembered, LastEscalation, Moves
  <2> QED BY <2>2, <2>3
<1>5. CASE Forget
  BY <1>1, <1>3, <1>5 DEF Forget, IInv, TypeOK, Remembered, Moves
<1>6. CASE \E c \in Catalogs : Reload(c)
  BY <1>1, <1>3, <1>6 DEF Reload, IInv, TypeOK, Remembered, LastEscalation, Moves
<1>7. CASE Tick
  <2>1. clock' \in Times /\ clock <= clock'
    BY <1>1, <1>2, <1>7 DEF Tick, Times
  <2>2. session # None => session.switchedAt \in Times
    BY <1>1 DEF SessionState
  <2> QED BY <1>1, <1>3, <1>7, <2>1, <2>2
          DEF Tick, IInv, TypeOK, Remembered, LastEscalation, Moves, Times
<1> QED BY <1>4, <1>5, <1>6, <1>7

\* What every step does.
StepHolds ==
    /\ IInv'
    /\ decision' # decision => decision'.model \in Usable(catalog)
    /\ Moves /\ Pins(catalog) /\ Continues(catalog, session) =>
         decision'.reason \in catalog.breakOn \cup {"manual_override"}
    /\ Len(escalations') > Len(escalations) =>
         /\ Len(escalations) < catalog.maxSwitches
         /\ escalations # <<>> => clock - LastEscalation >= catalog.cooldown

LEMMA StepsHold == IInv /\ [Next]_vars => StepHolds
<1>1. SUFFICES ASSUME IInv, [Next]_vars PROVE StepHolds
  OBVIOUS
<1>2. Len(escalations) \in Nat
  BY <1>1 DEF IInv, TypeOK
<1>3. CASE \E request \in Requests(catalog) : Turn(request)
  BY <1>1, <1>3, TurnHolds DEF StepHolds
<1>4. CASE RecordOutcome \/ Forget \/ (\E c \in Catalogs : Reload(c)) \/ Tick
  <2>1. Len(escalations') \in Nat
    BY <1>1, <1>4, OthersHold DEF IInv, TypeOK
  <2> QED BY <1>1, <1>2, <1>4, <2>1, OthersHold DEF StepHolds
<1>5. CASE UNCHANGED vars
  BY <1>1, <1>2, <1>5 DEF vars, StepHolds, IInv, TypeOK, Remembered, LastEscalation, Moves
<1> QED BY <1>1, <1>3, <1>4, <1>5 DEF Next

THEOREM Invariance == Spec => []IInv
<1>1. IInv /\ [Next]_vars => IInv'
  BY StepsHold DEF StepHolds
<1> QED BY <1>1, InitHolds, PTL DEF Spec

-----------------------------------------------------------------------------
(* What a selection is worth. *)

\* A selection that is not left to the global default is reported as such and
\* avoids the excluded models.
LEMMA SelectionAvoids ==
    ASSUME NEW c \in Catalogs, NEW rule, NEW label, NEW facts, NEW excluded,
           ~LeftToDefault(c, label), NEW x \in Select(c, rule, label, facts, excluded)
    PROVE  x.model \notin excluded /\ x.defaulted = FALSE
<1> DEFINE pool(attempt) == Candidates(c, label, facts, excluded, attempt)
           chosen(attempt, m) ==
               [model |-> m, defaulted |-> FALSE,
                label |-> IF attempt[2] THEN TierForProfile(c, m, label) ELSE label]
<1>1. PICK a : \E m \in FirstOf(rule, pool(a), facts) : x = chosen(a, m)
  BY DEF Select
<1>2. PICK m \in FirstOf(rule, pool(a), facts) : x = chosen(a, m)
  BY <1>1
<1> QED BY <1>2 DEF FirstOf, Candidates, Restrict

\* It meets a step of the relaxation order no later than any other candidate: at
\* that step the widened pool holds the candidate.
LEMMA SelectionStrict ==
    ASSUME NEW c \in Catalogs, NEW rule, NEW label, NEW facts, NEW excluded,
           ~LeftToDefault(c, label), NEW x \in Select(c, rule, label, facts, excluded),
           NEW n \in Usable(c) \ excluded, NEW i \in 1..4,
           Meets(n, facts, Relaxations[i])
    PROVE  \E j \in 1..i : Meets(x.model, facts, Relaxations[j])
<1> DEFINE pool(attempt) == Candidates(c, label, facts, excluded, attempt)
           tried == {attempt \in Attempts : DOMAIN pool(attempt) # {}}
           chosen(attempt, m) ==
               [model |-> m, defaulted |-> FALSE,
                label |-> IF attempt[2] THEN TierForProfile(c, m, label) ELSE label]
<1>1. PICK a \in {b \in tried : \A d \in tried \ {b} : Sooner(b, d)} :
           \E m \in FirstOf(rule, pool(a), facts) : x = chosen(a, m)
  BY DEF Select
<1>2. PICK m \in FirstOf(rule, pool(a), facts) : x = chosen(a, m)
  BY <1>1
<1>3. x.model = m /\ Meets(m, facts, Relaxations[a[1]])
  BY <1>2 DEF FirstOf, Candidates, Restrict
<1>4. n \in DOMAIN pool(<<i, TRUE>>)
  BY DEF WholePool, Candidates, Restrict
<1>5. <<i, TRUE>> \in tried
  BY <1>4 DEF Attempts
<1>6. PICK k \in 1..4, wide \in BOOLEAN : a = <<k, wide>>
  BY <1>1 DEF Attempts
<1> HIDE DEF pool, chosen
<1>7. a = <<i, TRUE>> \/ Sooner(a, <<i, TRUE>>)
  BY <1>1, <1>5
<1>8. k \in 1..i
  <2>1. Sooner(<<k, wide>>, <<i, TRUE>>) => k <= i
    BY DEF Sooner
  <2>2. <<k, wide>> = <<i, TRUE>> => k = i
    OBVIOUS
  <2>3. k = i \/ k <= i
    BY <1>6, <1>7, <2>1, <2>2, Zenon
  <2> QED BY <2>3
<1> QED BY <1>3, <1>6, <1>8

\* So a candidate that is capable makes the selection capable.
LEMMA SelectionCapable ==
    ASSUME NEW c \in Catalogs, NEW rule, NEW label, NEW facts, NEW excluded,
           ~LeftToDefault(c, label), NEW x \in Select(c, rule, label, facts, excluded),
           NEW m \in Usable(c) \ excluded, Capable(m, facts)
    PROVE  Capable(x.model, facts)
<1>1. Meets(m, facts, Relaxations[3])
  BY DEF Meets, Relaxations
<1>2. PICK j \in 1..3 : Meets(x.model, facts, Relaxations[j])
  BY <1>1, SelectionStrict
<1> QED BY <1>2 DEF Meets, Relaxations

LEMMA DefaultsAreReported ==
    ASSUME NEW c \in Catalogs, NEW rule, NEW label, NEW facts, NEW excluded,
           LeftToDefault(c, label), NEW x \in Select(c, rule, label, facts, excluded)
    PROVE  x.defaulted = TRUE
BY DEF Select, DefaultModel

LEMMA AnswerFields ==
    ASSUME NEW chosen, NEW facts, NEW reason, NEW from
    PROVE  LET answer == Answer(chosen, facts, reason, from)
           IN  /\ answer.model = chosen.model /\ answer.defaulted = chosen.defaulted
               /\ answer.facts = facts /\ answer.reason = reason
BY DEF Answer

Hopeless(c, facts) == \A m \in Usable(c) : ~Capable(m, facts)

\* No constraint is dropped for a model while another candidate meets it.
Strict(c, answer) ==
    answer.reason \in {"first_turn", "per_turn_policy"} /\ ~answer.defaulted =>
       \A m \in Usable(c), i \in DOMAIN Relaxations :
          Meets(m, answer.facts, Relaxations[i]) =>
             \E j \in 1..i : Meets(answer.model, answer.facts, Relaxations[j])

\* A capable model is chosen when there is one, but for the exceptions.
Adequate(c, s, answer) ==
    (/\ ~answer.defaulted
     /\ Continues(c, s) => ~LeftToDefault(c, s.label)
     /\ Pins(c) => "capability_gap" \in c.breakOn
     /\ answer.reason \notin {"manual_override", "upstream_failures"}) =>
        \/ Capable(answer.model, answer.facts)
        \/ \A m \in Usable(c) :
              \/ ~Capable(m, answer.facts)
              \/ /\ answer.reason \in {"context_pressure", "output_limit"}
                 /\ m = s.route

\* A selection among all candidates.
LEMMA FreeAnswers ==
    ASSUME NEW c \in Catalogs, NEW s, NEW rule, NEW label, NEW facts, NEW reason,
           NEW from, NEW chosen \in Select(c, rule, label, facts, {})
    PROVE  /\ Strict(c, Answer(chosen, facts, reason, from))
           /\ Adequate(c, s, Answer(chosen, facts, reason, from))
<1> DEFINE answer == Answer(chosen, facts, reason, from)
<1>1. /\ answer.model = chosen.model /\ answer.defaulted = chosen.defaulted
      /\ answer.facts = facts
  BY AnswerFields
<1> HIDE DEF answer
<1>2. CASE LeftToDefault(c, label)
  <2>1. chosen.defaulted = TRUE
    BY <1>2, DefaultsAreReported
  <2> QED BY <1>1, <2>1 DEF Strict, Adequate, answer
<1>3. CASE ~LeftToDefault(c, label)
  <2>1. \A m \in Usable(c), i \in 1..4 :
           Meets(m, facts, Relaxations[i]) =>
              \E j \in 1..i : Meets(chosen.model, facts, Relaxations[j])
    BY <1>3, SelectionStrict
  <2>2. \A m \in Usable(c) : Capable(m, facts) => Capable(chosen.model, facts)
    BY <1>3, SelectionCapable
  <2>3. DOMAIN Relaxations = 1..4
    BY DEF Relaxations
  <2>4. Strict(c, answer)
    BY <1>1, <2>1, <2>3 DEF Strict
  <2>5. Adequate(c, s, answer)
    BY <1>1, <2>2 DEF Adequate
  <2> QED BY <2>4, <2>5 DEF answer
<1> QED BY <1>2, <1>3

LEMMA ManualExcepted ==
    ASSUME NEW c, NEW s, NEW request, NEW from
    PROVE  /\ Strict(c, Manual(c, request, from))
           /\ Adequate(c, s, Manual(c, request, from))
<1>1. Manual(c, request, from).reason = "manual_override"
  BY DEF Manual, Answer
<1> QED BY <1>1 DEF Strict, Adequate

\* Keeping the model is adequate where it is capable, or nothing is.
LEMMA KeptAdequate ==
    ASSUME NEW c, NEW s, NEW facts, NEW answer,
           answer.model = s.route, answer.facts = facts, answer.reason = "session_kept",
           Capable(s.route, facts) \/ Hopeless(c, facts)
    PROVE  Strict(c, answer) /\ Adequate(c, s, answer)
BY DEF Strict, Adequate, Hopeless

LEMMA KeptFields ==
    ASSUME NEW s, NEW facts, NEW blocked
    PROVE  LET kept == Answer(Current(s), facts, "session_kept", None)
               other == [kept EXCEPT !.blocked = blocked]
           IN  /\ kept.model = s.route /\ kept.facts = facts
               /\ kept.reason = "session_kept"
               /\ other.model = s.route /\ other.facts = facts
               /\ other.reason = "session_kept"
BY DEF Answer, Current

\* A climb either keeps the model or selects among all candidates, except after
\* failures.
LEMMA ClimbAdequate ==
    ASSUME NEW c \in Catalogs, NEW s \in SessionState, Continues(c, s),
           NEW rule, NEW request \in Requests(c),
           Released(c, Escalation(c, s).reason),
           Capable(s.route, request.facts) \/ Hopeless(c, request.facts),
           NEW answer \in Climb(c, rule, s, request.facts, Escalation(c, s))
    PROVE  Strict(c, answer) /\ Adequate(c, s, answer)
<1> DEFINE e == Escalation(c, s)
           path == <<e.label>> \o Above(c, e.label)
           found == [i \in DOMAIN path |->
                        Select(c, rule, path[i], request.facts, e.excluded)]
           ends == {i \in DOMAIN path :
                       \A chosen \in found[i] : chosen.model # s.route}
           first == CHOOSE i \in ends : \A j \in ends : i <= j
<1>1. e.label \in Known(c) /\ e.reason \in EscalationReasons
  BY EscalationLabels DEF Released
<1>2. ends \subseteq Nat /\ ends \subseteq DOMAIN path
  <2>1. Above(c, e.label) \in Seq(Labels)
    BY <1>1, LabelsAbove
  <2>2. c.labels \in Seq(Labels)
    BY SelectionAssumption
  <2>3. path \in Seq(Labels \cup {e.label})
    BY <2>1
  <2> HIDE DEF path
  <2> QED BY <2>3
<1>3. Climb(c, rule, s, request.facts, e) =
        IF ends = {} THEN {Answer(Current(s), request.facts, "session_kept", None)}
        ELSE {Answer(chosen, request.facts, e.reason, s.route) : chosen \in found[first]}
  BY DEF Climb
<1>4. CASE ends = {}
  BY <1>3, <1>4, KeptFields, KeptAdequate
<1>5. CASE ends # {}
  <2>1. first \in DOMAIN path
    BY <1>2, <1>5, LeastNumber
  <2>2. PICK chosen \in Select(c, rule, path[first], request.facts, e.excluded) :
           answer = Answer(chosen, request.facts, e.reason, s.route)
    BY <1>3, <1>5, <2>1
  <2> HIDE DEF path, first, found, ends
  <2>3. CASE e.reason = "upstream_failures"
    <3>1. answer.reason = "upstream_failures"
      BY <2>2, <2>3 DEF Answer
    <3> QED BY <3>1 DEF Strict, Adequate
  <2>4. CASE e.reason # "upstream_failures"
    <3>1. e.excluded = {}
      BY <2>4 DEF Escalation
    <3> HIDE DEF e
    <3> QED BY <2>2, <3>1, FreeAnswers
  <2> QED BY <2>3, <2>4
<1> QED BY <1>4, <1>5

LEMMA EscalateAdequate ==
    ASSUME NEW c \in Catalogs, NEW s \in SessionState, Continues(c, s),
           NEW rule, NEW request \in Requests(c),
           Capable(s.route, request.facts) \/ Hopeless(c, request.facts),
           NEW answer \in Escalate(c, rule, s, request)
    PROVE  Strict(c, answer) /\ Adequate(c, s, answer)
<1> DEFINE kept == Answer(Current(s), request.facts, "session_kept", None)
           e == Escalation(c, s)
           climbs == Released(c, e.reason) /\ HysteresisAllows(c, s, request.turn)
<1>1. CASE ~climbs
  <2>1. PICK blocked : answer \in {kept, [kept EXCEPT !.blocked = blocked]}
    BY <1>1 DEF Escalate
  <2>2. /\ answer.model = s.route /\ answer.facts = request.facts
        /\ answer.reason = "session_kept"
    <3>1. CASE answer = kept
      BY <3>1, KeptFields
    <3>2. CASE answer = [kept EXCEPT !.blocked = blocked]
      BY <3>2, KeptFields
    <3> QED BY <2>1, <3>1, <3>2
  <2> QED BY <2>2, KeptAdequate
<1>2. CASE climbs
  <2>1. answer \in Climb(c, rule, s, request.facts, e)
    BY <1>2 DEF Escalate
  <2> QED BY <1>2, <2>1, ClimbAdequate
<1> QED BY <1>1, <1>2

\* Only what a session is kept for and what it climbs for may follow.
LEMMA EscalateReasons ==
    ASSUME NEW c \in Catalogs, NEW s \in SessionState, Continues(c, s),
           NEW rule, NEW request \in Requests(c),
           NEW answer \in Escalate(c, rule, s, request)
    PROVE  answer.reason \in EscalationReasons \cup {"session_kept"}
<1> DEFINE kept == Answer(Current(s), request.facts, "session_kept", None)
           e == Escalation(c, s)
<1>1. /\ kept.reason = "session_kept"
      /\ [kept EXCEPT !.blocked = ~Pins(c)].reason = "session_kept"
  BY DEF Answer
<1> HIDE DEF kept
<1>2. CASE ~Released(c, e.reason)
  BY <1>1, <1>2 DEF Escalate, kept
<1>3. CASE Released(c, e.reason) /\ ~HysteresisAllows(c, s, request.turn)
  BY <1>1, <1>3 DEF Escalate, kept
<1>4. CASE Released(c, e.reason) /\ HysteresisAllows(c, s, request.turn)
  <2>1. answer \in Climb(c, rule, s, request.facts, e)
    BY <1>4 DEF Escalate
  <2>2. \/ answer = kept
        \/ \E chosen : answer = Answer(chosen, request.facts, e.reason, s.route)
    BY <2>1 DEF Climb, kept
  <2>3. e.reason \in EscalationReasons
    BY <1>4, EscalationLabels DEF Released
  <2> HIDE DEF e
  <2> QED BY <1>1, <2>2, <2>3 DEF Answer
<1> QED BY <1>2, <1>3, <1>4

\* A hard requirement is looked at before anything else, so that an incapable
\* model is kept only where the selection has nothing capable to offer.
LEMMA RemainAdequate ==
    ASSUME NEW c \in Catalogs, NEW s \in SessionState, Continues(c, s),
           NEW rule, NEW request \in Requests(c),
           NEW answer \in Remain(c, rule, s, request)
    PROVE  Strict(c, answer) /\ Adequate(c, s, answer)
<1> DEFINE reason == HardReason(c, s.route, request.facts)
           found == Select(c, rule, s.label, request.facts, {s.route})
           helps(chosen) == /\ chosen.model # s.route
                            /\ Improves(chosen.model, s.route, reason)
<1>1. CASE Released(c, reason) /\ \A chosen \in found : helps(chosen)
  <2>1. PICK chosen \in found : answer = Answer(chosen, request.facts, reason, s.route)
    BY <1>1 DEF Remain
  <2>2. /\ reason \in HardReasons
        /\ ~Capable(s.route, request.facts) <=> reason = "capability_gap"
    BY <1>1 DEF Released, HardReason, HardReasons
  <2> HIDE DEF reason
  <2>3. /\ answer.model = chosen.model /\ answer.defaulted = chosen.defaulted
        /\ answer.facts = request.facts /\ answer.reason = reason
    BY <2>1 DEF Answer
  <2>4. Strict(c, answer)
    BY <2>2, <2>3 DEF Strict, HardReasons
  <2>5. CASE LeftToDefault(c, s.label)
    BY <2>5, <2>4 DEF Adequate
  <2>6. CASE ~LeftToDefault(c, s.label)
    <3>1. \A m \in Usable(c) \ {s.route} :
             Capable(m, request.facts) => Capable(chosen.model, request.facts)
      BY <2>6, SelectionCapable
    <3> QED BY <2>2, <2>3, <2>4, <3>1 DEF Adequate, HardReasons
  <2> QED BY <2>5, <2>6
<1>2. CASE ~(Released(c, reason) /\ \A chosen \in found : helps(chosen))
  <2>1. answer \in Escalate(c, rule, s, request)
    BY <1>2 DEF Remain
  <2>2. CASE Capable(s.route, request.facts) \/ Hopeless(c, request.facts)
    BY <2>1, <2>2, EscalateAdequate
  <2>3. CASE ~Capable(s.route, request.facts)
    <3>1. answer.reason \in EscalationReasons \cup {"session_kept"}
      BY <2>1, EscalateReasons
    <3>2. Strict(c, answer)
      BY <3>1 DEF Strict, EscalationReasons
    <3>3. SUFFICES ASSUME ~LeftToDefault(c, s.label),
                          Pins(c) => "capability_gap" \in c.breakOn
                   PROVE  FALSE
      BY <3>2 DEF Adequate
    <3>4. reason = "capability_gap"
      BY <2>3 DEF HardReason
    <3>5. "capability_gap" # None
      BY RoutingAssumption DEF Reasons, HardReasons
    <3>6. Released(c, reason)
      BY <3>3, <3>4, <3>5 DEF Released
    <3>7. ASSUME NEW chosen \in found PROVE chosen.model # s.route
      <4>1. chosen.model \notin {s.route}
        BY <3>3, SelectionAvoids
      <4> QED BY <4>1
    <3>8. \A chosen \in found : helps(chosen)
      <4> HIDE DEF found, reason
      <4> QED BY <3>4, <3>7 DEF Improves
    <3> QED BY <1>2, <3>6, <3>8
  <2> QED BY <2>2, <2>3
<1> QED BY <1>1, <1>2

\* What a strategy answers is strict and adequate.
LEMMA AnswersAdequate ==
    ASSUME NEW c \in Catalogs, NEW s \in SessionState \cup {None},
           NEW request \in Requests(c), NEW answer \in Outcomes(c, s, request)
    PROVE  Strict(c, answer) /\ Adequate(c, s, answer)
<1> DEFINE class == Classification(c, s, request)
<1>1. CASE ~Continues(c, s)
  <2>1. answer \in Initial(c, class, request)
    BY <1>1 DEF Outcomes
  <2> HIDE DEF class
  <2>2. CASE request.manual # None
    BY <2>1, <2>2, ManualExcepted DEF Initial
  <2>3. CASE request.manual = None
    <3>1. PICK chosen \in Select(c, class.rule, RequestLabel(c, class.label),
                                 request.facts, {}) :
             answer = Answer(chosen, request.facts, "first_turn", None)
      BY <2>1, <2>3 DEF Initial
    <3> QED BY <3>1, FreeAnswers
  <2> QED BY <2>2, <2>3
<1>2. CASE Continues(c, s)
  <2>1. answer \in Continuation(c, class, s, request)
    BY <1>2 DEF Outcomes
  <2>2. s \in SessionState
    BY <1>2 DEF Continues
  <2> HIDE DEF class
  <2>3. CASE request.manual \notin {None, s.route}
    BY <2>1, <2>3, ManualExcepted DEF Continuation
  <2>4. CASE request.manual \in {None, s.route} /\ c.mode = "fresh"
    <3>1. PICK chosen \in Select(c, class.rule, RequestLabel(c, class.label),
                                 request.facts, {}) :
             answer = Answer(chosen, request.facts, "per_turn_policy",
                             IF chosen.model = s.route THEN None ELSE s.route)
      BY <2>1, <2>4 DEF Continuation, Afresh
    <3> QED BY <3>1, FreeAnswers
  <2>5. CASE request.manual \in {None, s.route} /\ c.mode # "fresh"
    <3>1. answer \in Remain(c, class.rule, s, request)
      BY <2>1, <2>5 DEF Continuation
    <3> QED BY <1>2, <2>2, <3>1, RemainAdequate
  <2> QED BY <2>3, <2>4, <2>5
<1> QED BY <1>1, <1>2

\* Only a turn decides, and every decision is strict and adequate.
LEMMA DecisionsAdequate ==
    ASSUME IInv, [Next]_vars, decision' # decision
    PROVE  Strict(catalog, decision') /\ Adequate(catalog, session, decision')
<1>1. PICK request \in Requests(catalog) : Turn(request)
  BY DEF Next, RecordOutcome, Forget, Reload, Tick, vars
<1>2. PICK answer \in Outcomes(catalog, session, request) : decision' = answer
  BY <1>1 DEF Turn
<1>3. catalog \in Catalogs /\ session \in SessionState \cup {None}
  BY DEF IInv, TypeOK
<1> QED BY <1>2, <1>3, AnswersAdequate

-----------------------------------------------------------------------------
(* Theorems. *)

\* The state of the conversation stays in its type, for any catalogs that
\* validation accepts: every label and model a strategy reports exists.
THEOREM TypeCorrect == Spec => []TypeOK
<1>1. IInv => TypeOK
  BY DEF IInv
<1> QED BY <1>1, Invariance, PTL

\* Every decision names a model that is enabled and selected when it is made.
THEOREM DecisionsAreUsable == Spec => RoutesToUsableModel
<1>1. IInv /\ [Next]_vars =>
         [decision' # decision => decision'.model \in Usable(catalog)]_vars
  BY StepsHold DEF StepHolds
<1> QED BY <1>1, Invariance, PTL DEF Spec, RoutesToUsableModel

\* A pinned session that can be continued is moved by break_on or by hand only.
THEOREM PinsHold == Spec => PinHolds
<1>1. IInv /\ [Next]_vars =>
         [Moves /\ Pins(catalog) /\ Continues(catalog, session) =>
            decision'.reason \in catalog.breakOn \cup {"manual_override"}]_vars
  BY StepsHold DEF StepHolds
<1> QED BY <1>1, Invariance, PTL DEF Spec, PinHolds

\* Outcomes and cost move a session within the limit and the cool-down of the
\* catalog that is active, whatever the client says of its turns.
THEOREM SwitchingIsDamped == Spec => EscalationsDamped
<1>1. IInv /\ [Next]_vars =>
         [Len(escalations') > Len(escalations) =>
            /\ Len(escalations) < catalog.maxSwitches
            /\ escalations # <<>> =>
                  clock - escalations[Len(escalations)] >= catalog.cooldown]_vars
  BY StepsHold DEF StepHolds, LastEscalation
<1> QED BY <1>1, Invariance, PTL DEF Spec, EscalationsDamped

\* A model that is selected meets a stricter step of the relaxation order than no
\* usable model, whatever the label, the pool, the rule and the exclusions.
THEOREM ConstraintsDropLast == Spec => RelaxesLast
<1>1. IInv /\ [Next]_vars =>
         [decision' # decision /\ decision'.reason \in {"first_turn", "per_turn_policy"}
               /\ ~decision'.defaulted =>
            \A m \in Usable(catalog), i \in DOMAIN Relaxations :
               Meets(m, decision'.facts, Relaxations[i]) =>
                  \E j \in 1..i : Meets(decision'.model, decision'.facts,
                                        Relaxations[j])]_vars
  BY DecisionsAdequate DEF Strict
<1> QED BY <1>1, Invariance, PTL DEF Spec, RelaxesLast

\* A session that a pin does not hold gets a capable model when there is one, but
\* for a model that the context or the output limit makes it leave.
THEOREM CapableModelsServe == Spec => CapableWhenPossible
<1>1. IInv /\ [Next]_vars =>
         [(/\ decision' # decision
           /\ session # None /\ ~decision'.defaulted
           /\ Continues(catalog, session) => ~LeftToDefault(catalog, session.label)
           /\ Pins(catalog) => "capability_gap" \in catalog.breakOn
           /\ decision'.reason \notin {"manual_override", "upstream_failures"}) =>
            \/ Capable(decision'.model, decision'.facts)
            \/ \A m \in Usable(catalog) :
                  \/ ~Capable(m, decision'.facts)
                  \/ /\ decision'.reason \in {"context_pressure", "output_limit"}
                     /\ m = session.route]_vars
  BY DecisionsAdequate DEF Adequate
<1> QED BY <1>1, Invariance, PTL DEF Spec, CapableWhenPossible

-----------------------------------------------------------------------------
(* What is refused. *)

\* In a finite set some element has none before it, in any strict order.
LEMMA LeastOfOrder ==
    ASSUME NEW S, IsFiniteSet(S), S # {}, NEW R,
           \A a \in S : <<a, a>> \notin R,
           \A a, b, d \in S : <<a, b>> \in R /\ <<b, d>> \in R => <<a, d>> \in R
    PROVE  \E m \in S : \A n \in S : <<n, m>> \notin R
<1> DEFINE below == [m \in S |-> {n \in S : <<n, m>> \in R}]
           size == [m \in S |-> Cardinality(below[m])]
           sizes == {size[m] : m \in S}
<1>1. \A m \in S : below[m] \subseteq S /\ \A n \in S : n \in below[m] <=> <<n, m>> \in R
  OBVIOUS
<1> HIDE DEF below
<1>2. \A m \in S : IsFiniteSet(below[m]) /\ Cardinality(below[m]) \in Nat
  BY <1>1, FS_Subset, FS_CardinalityType
<1>3. \A m \in S : size[m] = Cardinality(below[m])
  OBVIOUS
<1> HIDE DEF size
<1>4. sizes \subseteq Nat
  BY <1>2, <1>3
<1>5. sizes # {}
  <2>1. PICK m \in S : TRUE
    OBVIOUS
  <2>2. size[m] \in sizes
    OBVIOUS
  <2> QED BY <2>2
<1>6. PICK x : x \in sizes /\ \A y \in sizes : x <= y
  <2> HIDE DEF sizes
  <2> QED BY <1>4, <1>5, LeastNumber
<1>7. PICK m \in S : x = size[m]
  BY <1>6
<1>8. ASSUME NEW n \in S, <<n, m>> \in R PROVE FALSE
  <2>1. below[n] \subseteq below[m] /\ n \in below[m] /\ n \notin below[n]
    BY <1>1, <1>8
  <2>2. /\ Cardinality(below[n]) <= Cardinality(below[m])
        /\ Cardinality(below[n]) # Cardinality(below[m])
    BY <1>2, <2>1, FS_Subset
  <2>3. Cardinality(below[m]) <= Cardinality(below[n])
    BY <1>3, <1>6, <1>7
  <2> QED BY <1>2, <2>2, <2>3
<1> QED BY <1>8

\* By three numbers, the last of them its own, somebody comes first.
LEMMA SomebodyLeast ==
    ASSUME NEW D, IsFiniteSet(D), D # {},
           NEW f \in [D -> Int], NEW g \in [D -> Int], NEW h \in [D -> Int],
           \A a, b \in D : h[a] = h[b] => a = b
    PROVE  \E m \in D : \A n \in D \ {m} :
              \/ f[m] < f[n]
              \/ f[m] = f[n] /\ g[m] < g[n]
              \/ f[m] = f[n] /\ g[m] = g[n] /\ h[m] < h[n]
<1> DEFINE before(a, b) == \/ f[a] < f[b]
                           \/ f[a] = f[b] /\ g[a] < g[b]
                           \/ f[a] = f[b] /\ g[a] = g[b] /\ h[a] < h[b]
           R == {x \in D \X D : before(x[1], x[2])}
<1>1. \A a, b \in D : <<a, b>> \in R <=> before(a, b)
  OBVIOUS
<1>2. \A a \in D : ~before(a, a)
  OBVIOUS
<1>3. \A a, b, d \in D : before(a, b) /\ before(b, d) => before(a, d)
  OBVIOUS
<1>4. \A a, b \in D : a = b \/ before(a, b) \/ before(b, a)
  OBVIOUS
<1>5. /\ \A a \in D : <<a, a>> \notin R
      /\ \A a, b, d \in D : <<a, b>> \in R /\ <<b, d>> \in R => <<a, d>> \in R
  <2> HIDE DEF R, before
  <2> QED BY <1>1, <1>2, <1>3
<1> HIDE DEF R
<1>6. PICK m \in D : \A n \in D : <<n, m>> \notin R
  BY <1>5, LeastOfOrder
<1> HIDE DEF before
<1>7. \A n \in D \ {m} : before(m, n)
  BY <1>1, <1>4, <1>6
<1> QED BY <1>7 DEF before

\* What a request costs is a number, and so is what candidates are sorted by.
LEMMA CostsAreNumbers ==
    ASSUME NEW facts \in Facts, NEW m \in Models
    PROVE  /\ EstimatedCost(m, facts) \in Nat
           /\ Profile[m].quality \in Int /\ Profile[m].priority \in Int
<1>1. /\ Profile[m].input \in Nat /\ Profile[m].output \in Nat
      /\ Profile[m].quality \in 0..10 /\ Profile[m].priority \in Int
  BY SelectionAssumption DEF Profiles
<1>2. facts.tokens \in Nat /\ facts.output \in Nat
  BY RoutingAssumption
<1> QED BY <1>1, <1>2 DEF EstimatedCost

LEMMA ScoresAreNumbers ==
    ASSUME NEW facts \in Facts, NEW rule \in Rules, NEW D, D \subseteq Models,
           IsFiniteSet(D), NEW m \in D
    PROVE  Score(rule, D, facts, m) \in Int
<1> DEFINE costs == {EstimatedCost(n, facts) : n \in D}
           highest == CHOOSE x \in costs : \A y \in costs : y <= x
           scale == IF highest = 0 THEN 1 ELSE highest
<1>1. \E x \in costs : \A y \in costs : y <= x
  <2> DEFINE R == {x \in D \X D : EstimatedCost(x[1], facts) > EstimatedCost(x[2], facts)}
  <2>1. \A a \in D : EstimatedCost(a, facts) \in Nat
    BY CostsAreNumbers
  <2>2. \A a, b \in D :
           <<a, b>> \in R <=> EstimatedCost(a, facts) > EstimatedCost(b, facts)
    OBVIOUS
  <2> HIDE DEF R
  <2>3. /\ \A a \in D : <<a, a>> \notin R
        /\ \A a, b, d \in D : <<a, b>> \in R /\ <<b, d>> \in R => <<a, d>> \in R
    BY <2>1, <2>2
  <2>4. PICK n \in D : \A k \in D : <<k, n>> \notin R
    BY <2>3, LeastOfOrder
  <2>5. \A k \in D : EstimatedCost(k, facts) <= EstimatedCost(n, facts)
    <3> SUFFICES ASSUME NEW k \in D
                 PROVE  EstimatedCost(k, facts) <= EstimatedCost(n, facts)
      OBVIOUS
    <3>1. ~(EstimatedCost(k, facts) > EstimatedCost(n, facts))
      BY <2>2, <2>4
    <3> QED BY <2>1, <3>1
  <2> QED BY <2>5
<1>2. highest \in Nat
  <2>1. highest \in costs
    BY <1>1
  <2> HIDE DEF highest
  <2>2. PICK n \in D : highest = EstimatedCost(n, facts)
    BY <2>1
  <2> QED BY <2>2, CostsAreNumbers
<1>3. scale \in Nat
  BY <1>2
<1>4. Score(rule, D, facts, m) =
        CASE rule = "cheapest_adequate" -> EstimatedCost(m, facts)
          [] rule = "quality_first" -> -Profile[m].quality
          [] rule = "balanced" ->
                40 * EstimatedCost(m, facts) - 6 * Profile[m].quality * scale
  BY DEF Score
<1>5. EstimatedCost(m, facts) \in Nat /\ Profile[m].quality \in Int
  BY CostsAreNumbers
<1> HIDE DEF scale
<1>6. 40 * EstimatedCost(m, facts) - 6 * Profile[m].quality * scale \in Int
  BY <1>3, <1>5
<1> QED BY <1>4, <1>5, <1>6 DEF Rules

\* A pool that is not empty has a first candidate.
LEMMA SomebodyFirst ==
    ASSUME NEW facts \in Facts, NEW rule \in Rules, NEW pool, IsPool(pool),
           DOMAIN pool \subseteq Models, DOMAIN pool # {}
    PROVE  FirstOf(rule, pool, facts) # {}
<1> PICK D : D = DOMAIN pool
  OBVIOUS
<1> DEFINE f == [m \in D |-> Score(rule, D, facts, m)]
           g == [m \in D |-> Profile[m].priority]
<1>1. IsFiniteSet(D) /\ D # {} /\ D \subseteq Models
  BY SelectionAssumption, FS_Subset
<1>2. f \in [D -> Int] /\ g \in [D -> Int]
  BY <1>1, ScoresAreNumbers, CostsAreNumbers
<1>3. pool \in [D -> Int] /\ \A a, b \in D : pool[a] = pool[b] => a = b
  BY DEF IsPool, IsInjective
<1> HIDE DEF f, g
<1>4. PICK m \in D : \A n \in D \ {m} :
         \/ f[m] < f[n]
         \/ f[m] = f[n] /\ g[m] < g[n]
         \/ f[m] = f[n] /\ g[m] = g[n] /\ pool[m] < pool[n]
  BY <1>1, <1>2, <1>3, SomebodyLeast
<1>5. \A n \in D \ {m} : Precedes(rule, pool, facts, m, n)
  BY <1>4 DEF Precedes, f, g
<1> QED BY <1>5 DEF FirstOf

\* The candidates of a label of the policy are a pool.
LEMMA CandidatesArePool ==
    ASSUME NEW c \in Catalogs, NEW label \in Range(c.labels), NEW facts, NEW excluded,
           NEW attempt
    PROVE  IsPool(Candidates(c, label, facts, excluded, attempt))
<1>1. \A pool, S : IsPool(pool) => IsPool(Restrict(pool, DOMAIN pool \cap S))
  BY DEF IsPool, IsInjective, Restrict
<1>2. IsPool(c.order) /\ IsPool(c.listed[label])
  BY SelectionAssumption
<1>3. Usable(c) \subseteq DOMAIN c.order /\ c.tagged[label] \subseteq DOMAIN c.order
  BY SelectionAssumption DEF Usable
<1>4. IsPool(WholePool(c))
  <2>1. Usable(c) = DOMAIN c.order \cap Usable(c)
    BY <1>3
  <2> QED BY <1>1, <1>2, <2>1 DEF WholePool
<1>5. IsPool(TierPool(c, label))
  <2>1. c.tagged[label] \cap Usable(c) = DOMAIN c.order \cap (c.tagged[label] \cap Usable(c))
    BY <1>3
  <2> QED BY <1>1, <1>2, <2>1 DEF TierPool
<1> DEFINE pool == IF attempt[2] THEN WholePool(c) ELSE TierPool(c, label)
           meets == {m \in DOMAIN pool \ excluded :
                        Meets(m, facts, Relaxations[attempt[1]])}
<1>6. IsPool(pool) /\ meets = DOMAIN pool \cap meets
  BY <1>4, <1>5
<1>7. Candidates(c, label, facts, excluded, attempt) = Restrict(pool, meets)
  BY DEF Candidates
<1> HIDE DEF pool, meets
<1> QED BY <1>1, <1>6, <1>7

\* A selection finds nothing only where the global default decides and there is
\* none, or where no model is left: the last relaxation takes any.
LEMMA SelectionFinds ==
    ASSUME NEW c \in Catalogs, NEW rule \in Rules, NEW label \in Known(c),
           NEW facts \in Facts, NEW excluded,
           Select(c, rule, label, facts, excluded) = {}
    PROVE  \/ LeftToDefault(c, label) /\ DefaultModel(c) = {}
           \/ Usable(c) \subseteq excluded
<1>1. CASE LeftToDefault(c, label)
  BY <1>1 DEF Select
<1>2. CASE ~LeftToDefault(c, label)
  <2> SUFFICES ASSUME NEW n \in Usable(c) \ excluded
               PROVE  FALSE
    BY <1>2
  <2> DEFINE pool(attempt) == Candidates(c, label, facts, excluded, attempt)
             tried == {attempt \in Attempts : DOMAIN pool(attempt) # {}}
             chosen(attempt, m) ==
                 [model |-> m, defaulted |-> FALSE,
                  label |-> IF attempt[2] THEN TierForProfile(c, m, label) ELSE label]
             rank(attempt) == 2 * attempt[1] + (IF attempt[2] THEN 1 ELSE 0)
  <2>1. label \in Range(c.labels)
    BY <1>2 DEF Known, LeftToDefault, IsGlobalDefault
  <2>2. <<4, TRUE>> \in tried
    <3>1. Meets(n, facts, Relaxations[4])
      BY DEF Meets, Relaxations
    <3>2. n \in DOMAIN pool(<<4, TRUE>>)
      BY <3>1 DEF WholePool, Candidates, Restrict
    <3>3. <<4, TRUE>> \in Attempts
      <4>1. 4 \in 1..4 /\ TRUE \in BOOLEAN
        OBVIOUS
      <4> QED BY <4>1, Zenon DEF Attempts
    <3> QED BY <3>2, <3>3
  <2>3. \A a \in Attempts : a = <<a[1], a[2]>> /\ a[1] \in 1..4 /\ a[2] \in BOOLEAN
    BY DEF Attempts
  <2>4. PICK a \in tried : \A b \in tried \ {a} : Sooner(a, b)
    <3> DEFINE ranks == {rank(b) : b \in tried}
    <3>1. ranks \subseteq Nat /\ ranks # {}
      BY <2>2, <2>3
    <3>2. PICK x \in ranks : \A y \in ranks : x <= y
      BY <3>1, LeastNumber
    <3>3. PICK a \in tried : x = rank(a)
      BY <3>2
    <3>4. ASSUME NEW b \in tried, b # a PROVE Sooner(a, b)
      <4>1. rank(a) <= rank(b)
        BY <3>2, <3>3
      <4>2. a[1] \in 1..4 /\ a[2] \in BOOLEAN /\ b[1] \in 1..4 /\ b[2] \in BOOLEAN
        BY <2>3
      <4>3. a[1] # b[1] \/ a[2] # b[2]
        BY <2>3, <3>4
      <4> QED BY <4>1, <4>2, <4>3 DEF Sooner
    <3> QED BY <3>4
  <2>5. PICK m : m \in FirstOf(rule, pool(a), facts)
    <3>1. IsPool(pool(a))
      BY <2>1, CandidatesArePool
    <3>2. DOMAIN pool(a) \subseteq Models
      BY CandidatesAreUsable, UsableModels
    <3>3. DOMAIN pool(a) # {}
      BY <2>4
    <3> HIDE DEF pool
    <3>4. FirstOf(rule, pool(a), facts) # {}
      BY <3>1, <3>2, <3>3, SomebodyFirst
    <3> QED BY <3>4
  <2>6. Select(c, rule, label, facts, excluded) =
          UNION {{chosen(b, k) : k \in FirstOf(rule, pool(b), facts)} :
                    b \in {b \in tried : \A d \in tried \ {b} : Sooner(b, d)}}
    BY <1>2 DEF Select
  <2>7. chosen(a, m) \in Select(c, rule, label, facts, excluded)
    <3> HIDE DEF chosen, tried, pool
    <3>1. chosen(a, m) \in {chosen(a, k) : k \in FirstOf(rule, pool(a), facts)}
      BY <2>5
    <3> QED BY <2>4, <2>6, <3>1
  <2> QED BY <2>7
<1> QED BY <1>1, <1>2

\* The label and the rule of a classification are ones of the policy.
LEMMA Classified ==
    ASSUME NEW c \in Catalogs, NEW s, NEW request \in Requests(c)
    PROVE  /\ Classification(c, s, request).rule \in Rules
           /\ RequestLabel(c, Classification(c, s, request).label) \in Range(c.labels)
<1> DEFINE answer == Evaluation(c, request.replies)
           choice == IF answer = None THEN c.fallback ELSE answer
           options == c.choices \cup {c.fallback}
<1>1. /\ c.choices \subseteq Choices /\ c.fallback \in Choices
      /\ \A x \in options : x.label \in Range(c.labels) \cup {None}
      /\ c.providers \in Seq(Providers)
  BY RoutingAssumption
<1>2. /\ c.selection \in Rules /\ c.labels \in Seq(Labels) /\ c.labels # <<>>
      /\ None \notin Labels \cup {DefaultLabel}
  BY SelectionAssumption
<1>3. /\ c.labels[1] \in Range(c.labels)
      /\ None \notin Range(c.labels) \cup {DefaultLabel}
  BY <1>2 DEF Range
<1>4. answer = None \/ answer \in c.choices
  <2> DEFINE answers == {i \in Asked(c) : request.replies[c.providers[i]] # None}
             preferred == {i \in answers : c.providers[i] = c.firstProvider}
             group == IF preferred = {} THEN answers ELSE preferred
             first == CHOOSE i \in group : \A j \in group : i <= j
  <2>1. answer = IF answers = {} THEN None ELSE request.replies[c.providers[first]]
    BY DEF Evaluation
  <2>2. answers # {} => group # {}
    OBVIOUS
  <2>3. /\ group \subseteq DOMAIN c.providers /\ group \subseteq Nat
        /\ \A i \in DOMAIN c.providers : c.providers[i] \in Providers
    BY <1>1 DEF Asked
  <2> HIDE DEF group
  <2>4. answers # {} => first \in group
    BY <2>2, <2>3, LeastNumber
  <2> HIDE DEF first
  <2>5. \A x \in Providers : request.replies[x] \in c.choices \cup {None}
    BY DEF Requests
  <2> QED BY <2>1, <2>3, <2>4, <2>5
<1>5. /\ choice \in Choices /\ choice.label \in Range(c.labels) \cup {None}
      /\ answer # None => answer.label \in Range(c.labels) \cup {None}
  BY <1>1, <1>4
<1>6. choice.selection \in Rules \cup {None}
  BY <1>5 DEF Choices
<1> DEFINE bypassed == request.manual # None \/ (s # None /\ c.mode = "cached")
           plain == [label |-> None, rule |-> c.selection]
           class == Classification(c, s, request)
<1>7. class = CASE c.kind = "policy" \/ bypassed -> plain
                [] c.kind = "decision" /\ ~bypassed ->
                      IF answer = None THEN plain
                      ELSE [plain EXCEPT !.label = answer.label]
                [] c.kind = "decision_matrix" /\ ~bypassed ->
                      [label |-> IF choice.label = None THEN c.labels[1] ELSE choice.label,
                       rule |-> IF choice.selection = None THEN c.selection
                                ELSE choice.selection]
  BY DEF Classification
<1> HIDE DEF answer, choice, bypassed, class
<1>8. class.rule \in Rules /\ class.label \in Range(c.labels) \cup {None}
  <2>1. CASE class = plain
    BY <1>2, <2>1
  <2>2. CASE class = [plain EXCEPT !.label = answer.label] /\ answer # None
    BY <1>2, <1>5, <2>2
  <2>3. CASE class = [label |-> IF choice.label = None THEN c.labels[1] ELSE choice.label,
                      rule |-> IF choice.selection = None THEN c.selection
                               ELSE choice.selection]
    BY <1>2, <1>3, <1>5, <1>6, <2>3
  <2>4. c.kind \in {"policy", "decision", "decision_matrix"}
    BY RoutingAssumption
  <2> HIDE DEF plain
  <2> QED BY <1>7, <2>1, <2>2, <2>3, <2>4
<1> QED BY <1>3, <1>8 DEF RequestLabel, class

\* No model is usable, or the policy has a label without models and there is no
\* global default: what the documents say of setup_incomplete.
Unconfigured(c) ==
    \/ Usable(c) = {}
    \/ /\ DefaultModel(c) = {}
       /\ \E label \in Range(c.labels) : LeftToDefault(c, label)

\* The only usable model is the session's, and the request lacks something in it,
\* or it failed too often.
OnlyModelLeft(c, s, request) ==
    /\ Continues(c, s) /\ Usable(c) = {s.route}
    /\ \/ HardReason(c, s.route, request.facts) # None
       \/ Escalation(c, s).reason = "upstream_failures"

\* The session is the global default's, which is gone, and has to leave its model.
DefaultGone(c, s, request) ==
    /\ Continues(c, s) /\ IsGlobalDefault(c, s.label) /\ DefaultModel(c) = {}
    /\ \/ HardReason(c, s.route, request.facts) # None
       \/ Escalation(c, s).reason # None

Explained(c, s, request) ==
    Unconfigured(c) \/ OnlyModelLeft(c, s, request) \/ DefaultGone(c, s, request)

\* A selection for a request finds a model in a policy that is configured.
LEMMA FreshRefused ==
    ASSUME NEW c \in Catalogs, NEW s, NEW request \in Requests(c),
           LET class == Classification(c, s, request)
           IN  Select(c, class.rule, RequestLabel(c, class.label), request.facts, {}) = {}
    PROVE  Unconfigured(c)
<1> PICK rule, label : /\ rule = Classification(c, s, request).rule
                       /\ label = RequestLabel(c, Classification(c, s, request).label)
  OBVIOUS
<1>1. rule \in Rules /\ label \in Range(c.labels) /\ request.facts \in Facts
  BY Classified DEF Requests
<1>2. Select(c, rule, label, request.facts, {}) = {} /\ label \in Known(c)
  BY <1>1 DEF Known
<1>3. \/ LeftToDefault(c, label) /\ DefaultModel(c) = {}
      \/ Usable(c) \subseteq {}
  BY <1>1, <1>2, SelectionFinds
<1> QED BY <1>1, <1>3 DEF Unconfigured

\* The labels an escalation looks at are the policy's, or the session's.
LEMMA LabelsDeclared ==
    ASSUME NEW c \in Catalogs, NEW label \in Known(c),
           NEW i \in DOMAIN Above(c, label)
    PROVE  Above(c, label)[i] \in Range(c.labels)
<1> DEFINE place == IF IsGlobalDefault(c, label) THEN 1 ELSE Place(c, label)
           next == SubSeq(c.labels, place + 1, Len(c.labels))
<1>1. c.labels \in Seq(Labels) /\ Len(c.labels) \in Nat \ {0}
  BY SelectionAssumption, FirstLabel
<1>2. place \in 1..Len(c.labels)
  BY <1>1, PlaceOf DEF Known, IsGlobalDefault
<1>3. CASE Above(c, label) = c.labels
  BY <1>1, <1>3 DEF Range
<1>4. CASE Above(c, label) = next
  <2> HIDE DEF place
  <2>1. /\ Len(next) = Len(c.labels) - place
        /\ \A j \in 1..Len(next) : next[j] = c.labels[place + j]
    BY <1>1, <1>2
  <2>2. i \in 1..Len(next)
    BY <1>1, <1>2, <1>4
  <2> HIDE DEF next
  <2>3. i \in Nat /\ place \in Nat /\ i <= Len(next) /\ i >= 1
    BY <1>1, <1>2, <2>1, <2>2
  <2>4. place + i \in 1..Len(c.labels)
    BY <1>1, <1>2, <2>1, <2>3
  <2>5. next[i] = c.labels[place + i] /\ place + i \in DOMAIN c.labels
    BY <1>1, <2>1, <2>2, <2>4
  <2> QED BY <1>4, <2>5 DEF Range
<1> QED BY <1>3, <1>4 DEF Above

LEMMA EscalationDeclared ==
    ASSUME NEW c \in Catalogs, NEW s, Continues(c, s)
    PROVE  \/ Escalation(c, s).label = s.label
           \/ Escalation(c, s).label \in Range(c.labels)
<1>1. s.label \in Known(c) /\ c.labels \in Seq(Labels) /\ Len(c.labels) \in Nat \ {0}
  BY SelectionAssumption, FirstLabel DEF Continues, Known
<1>2. Raised(c, s.label) = s.label \/ Raised(c, s.label) \in Range(c.labels)
  <2>1. Above(c, s.label) \in Seq(Labels)
    BY <1>1, LabelsAbove
  <2>2. Above(c, s.label) # <<>> => 1 \in DOMAIN Above(c, s.label)
    BY <2>1
  <2> QED BY <1>1, <2>2, LabelsDeclared DEF Raised
<1>3. ~IsGlobalDefault(c, s.label) /\ s.label # c.labels[1] =>
         Lowered(c, s.label) \in Range(c.labels)
  <2> SUFFICES ASSUME ~IsGlobalDefault(c, s.label), s.label # c.labels[1]
               PROVE  Lowered(c, s.label) \in Range(c.labels)
    OBVIOUS
  <2>1. s.label \in Range(c.labels)
    BY <1>1 DEF Known, IsGlobalDefault
  <2>2. Place(c, s.label) \in 1..Len(c.labels) /\ c.labels[Place(c, s.label)] = s.label
    BY <1>1, <2>1, PlaceOf
  <2>3. PICK place : place = Place(c, s.label)
    OBVIOUS
  <2>4. place # 1
    BY <2>2, <2>3
  <2>5. place - 1 \in 1..Len(c.labels)
    BY <1>1, <2>2, <2>3, <2>4
  <2>6. place - 1 \in DOMAIN c.labels
    BY <1>1, <2>5
  <2> QED BY <2>3, <2>6 DEF Lowered, Range
<1> QED BY <1>2, <1>3 DEF Escalation

\* A climb finds nothing for the same reasons.
LEMMA ClimbRefused ==
    ASSUME NEW c \in Catalogs, NEW s \in SessionState, Continues(c, s),
           NEW rule \in Rules, NEW request \in Requests(c),
           Escalation(c, s).reason # None,
           Climb(c, rule, s, request.facts, Escalation(c, s)) = {}
    PROVE  Explained(c, s, request)
<1> DEFINE e == Escalation(c, s)
           path == <<e.label>> \o Above(c, e.label)
           found == [i \in DOMAIN path |->
                        Select(c, rule, path[i], request.facts, e.excluded)]
           ends == {i \in DOMAIN path :
                       \A chosen \in found[i] : chosen.model # s.route}
           first == CHOOSE i \in ends : \A j \in ends : i <= j
<1>1. e.label \in Known(c) /\ (e.label = s.label \/ e.label \in Range(c.labels))
  BY EscalationLabels, EscalationDeclared
<1>2. Above(c, e.label) \in Seq(Labels)
  BY <1>1, LabelsAbove
<1>3. /\ DOMAIN path \subseteq Nat
      /\ \A i \in DOMAIN path : path[i] = s.label \/ path[i] \in Range(c.labels)
  <2> HIDE DEF e
  <2>1. /\ Len(path) = 1 + Len(Above(c, e.label))
        /\ DOMAIN path = 1..Len(path)
        /\ path[1] = e.label
        /\ \A i \in 1..Len(Above(c, e.label)) : path[i + 1] = Above(c, e.label)[i]
    BY <1>2
  <2>2. \A i \in DOMAIN Above(c, e.label) : Above(c, e.label)[i] \in Range(c.labels)
    BY <1>1, LabelsDeclared
  <2>3. ASSUME NEW i \in DOMAIN path, i # 1
        PROVE  path[i] \in Range(c.labels)
    <3>1. /\ Len(Above(c, e.label)) \in Nat
          /\ DOMAIN Above(c, e.label) = 1..Len(Above(c, e.label))
      BY <1>2
    <3> HIDE DEF path
    <3>2. i - 1 \in 1..Len(Above(c, e.label)) /\ (i - 1) + 1 = i
      BY <2>1, <2>3, <3>1
    <3> QED BY <2>1, <2>2, <3>1, <3>2
  <2> QED BY <1>1, <2>1, <2>3
<1>4. Climb(c, rule, s, request.facts, e) =
        IF ends = {} THEN {Answer(Current(s), request.facts, "session_kept", None)}
        ELSE {Answer(chosen, request.facts, e.reason, s.route) : chosen \in found[first]}
  BY DEF Climb
<1>5. ends # {} /\ found[first] = {}
  <2> HIDE DEF e, ends, found, first
  <2>1. ends # {}
    BY <1>4 DEF e
  <2> QED BY <1>4, <2>1 DEF e
<1>6. first \in DOMAIN path
  BY <1>3, <1>5, LeastNumber
<1> HIDE DEF path, first, ends, e
<1> PICK label, excluded : label = path[first] /\ excluded = e.excluded
  OBVIOUS
<1>7. Select(c, rule, label, request.facts, excluded) = {}
  BY <1>5, <1>6 DEF found
<1>8. label = s.label \/ label \in Range(c.labels)
  BY <1>3, <1>6
<1> HIDE DEF found
<1>9. label \in Known(c) /\ request.facts \in Facts
  BY <1>8 DEF Known, Continues, Requests
<1>10. \/ LeftToDefault(c, label) /\ DefaultModel(c) = {}
       \/ Usable(c) \subseteq excluded
  BY <1>7, <1>9, SelectionFinds
<1>11. CASE LeftToDefault(c, label) /\ DefaultModel(c) = {}
  <2>1. CASE label \in Range(c.labels)
    BY <1>11, <2>1 DEF Explained, Unconfigured
  <2>2. CASE label = s.label /\ label \notin Range(c.labels)
    <3>1. IsGlobalDefault(c, s.label)
      BY <1>9, <2>2 DEF Known, IsGlobalDefault
    <3> QED BY <1>11, <3>1 DEF Explained, DefaultGone
  <2> QED BY <1>8, <2>1, <2>2
<1>12. CASE Usable(c) \subseteq excluded
  <2>1. s.route \in Usable(c) /\ excluded = e.excluded
    BY DEF Continues
  <2>2. \/ e.excluded = {}
        \/ e.reason = "upstream_failures" /\ e.excluded = {s.route}
    BY DEF Escalation, e
  <2>3. Usable(c) = {s.route} /\ e.reason = "upstream_failures"
    BY <1>12, <2>1, <2>2
  <2> QED BY <2>3 DEF Explained, OnlyModelLeft, e
<1> QED BY <1>10, <1>11, <1>12

\* And so does a session that leaves its model for what the request needs.
LEMMA RemainRefused ==
    ASSUME NEW c \in Catalogs, NEW s \in SessionState, Continues(c, s),
           NEW rule \in Rules, NEW request \in Requests(c),
           Remain(c, rule, s, request) = {}
    PROVE  Explained(c, s, request)
<1> DEFINE reason == HardReason(c, s.route, request.facts)
           found == Select(c, rule, s.label, request.facts, {s.route})
           helps(chosen) == /\ chosen.model # s.route
                            /\ Improves(chosen.model, s.route, reason)
<1>1. CASE Released(c, reason) /\ \A chosen \in found : helps(chosen)
  <2>1. Remain(c, rule, s, request) =
           {Answer(chosen, request.facts, reason, s.route) : chosen \in found}
    BY <1>1 DEF Remain
  <2>2. found = {}
    <3> HIDE DEF found, reason
    <3> QED BY <2>1
  <2>3. reason # None
    BY <1>1 DEF Released
  <2>4. s.label \in Known(c) /\ request.facts \in Facts /\ s.route \in Usable(c)
    BY DEF Continues, Known, Requests
  <2>5. \/ LeftToDefault(c, s.label) /\ DefaultModel(c) = {}
        \/ Usable(c) \subseteq {s.route}
    BY <2>2, <2>4, SelectionFinds
  <2>6. CASE LeftToDefault(c, s.label) /\ DefaultModel(c) = {}
    <3>1. CASE s.label \in Range(c.labels)
      BY <2>6, <3>1 DEF Explained, Unconfigured
    <3>2. CASE s.label \notin Range(c.labels)
      <4>1. IsGlobalDefault(c, s.label)
        BY <2>4, <3>2 DEF Known, IsGlobalDefault
      <4> QED BY <2>3, <2>6, <4>1 DEF Explained, DefaultGone
    <3> QED BY <3>1, <3>2
  <2>7. CASE Usable(c) \subseteq {s.route}
    <3>1. Usable(c) = {s.route}
      BY <2>4, <2>7
    <3> QED BY <2>3, <3>1 DEF Explained, OnlyModelLeft
  <2> QED BY <2>5, <2>6, <2>7
<1>2. CASE ~(Released(c, reason) /\ \A chosen \in found : helps(chosen))
  <2>1. Escalate(c, rule, s, request) = {}
    BY <1>2 DEF Remain
  <2>2. /\ Released(c, Escalation(c, s).reason)
        /\ HysteresisAllows(c, s, request.turn)
        /\ Climb(c, rule, s, request.facts, Escalation(c, s)) = {}
    BY <2>1 DEF Escalate
  <2>3. Escalation(c, s).reason # None
    BY <2>2 DEF Released
  <2> QED BY <2>2, <2>3, ClimbRefused
<1> QED BY <1>1, <1>2

LEMMA RefusedExplained ==
    ASSUME NEW c \in Catalogs, NEW s \in SessionState \cup {None},
           NEW request \in Requests(c), request.manual = None,
           Outcomes(c, s, request) = {}
    PROVE  Explained(c, s, request)
<1> DEFINE class == Classification(c, s, request)
           selected == Select(c, class.rule, RequestLabel(c, class.label),
                              request.facts, {})
<1>1. CASE ~Continues(c, s)
  <2>1. {Answer(chosen, request.facts, "first_turn", None) : chosen \in selected} = {}
    BY <1>1 DEF Outcomes, Initial
  <2>2. selected = {}
    <3> HIDE DEF selected
    <3> QED BY <2>1
  <2> QED BY <2>2, FreshRefused DEF Explained
<1>2. CASE Continues(c, s)
  <2>1. Continuation(c, class, s, request) = {} /\ s \in SessionState
    BY <1>2 DEF Outcomes, Continues
  <2>2. CASE c.mode = "fresh"
    <3>1. {Answer(chosen, request.facts, "per_turn_policy",
                  IF chosen.model = s.route THEN None ELSE s.route) :
              chosen \in selected} = {}
      BY <2>1, <2>2 DEF Continuation, Afresh
    <3>2. selected = {}
      <4> HIDE DEF selected
      <4> QED BY <3>1
    <3> QED BY <3>2, FreshRefused DEF Explained
  <2>3. CASE c.mode # "fresh"
    <3>1. Remain(c, class.rule, s, request) = {}
      BY <2>1, <2>3 DEF Continuation
    <3>2. class.rule \in Rules
      BY Classified
    <3> HIDE DEF class
    <3> QED BY <1>2, <2>1, <3>1, <3>2, RemainRefused
  <2> QED BY <2>2, <2>3
<1> QED BY <1>1, <1>2

\* How far the finding about setup_incomplete reaches: a request that names no
\* model is refused where the documents say so, where the only usable model is the
\* session's and has to be left, or where the session is the global default's,
\* which is gone, and has to leave its model; in no other case (_select).
THEOREM RefusalsExplained ==
    Spec => [](\A request \in Requests(catalog) :
                  request.manual = None /\ Outcomes(catalog, session, request) = {} =>
                      Explained(catalog, session, request))
<1>1. IInv => \A request \in Requests(catalog) :
                 request.manual = None /\ Outcomes(catalog, session, request) = {} =>
                     Explained(catalog, session, request)
  BY RefusedExplained DEF IInv, TypeOK
<1> QED BY <1>1, Invariance, PTL


=============================================================================
