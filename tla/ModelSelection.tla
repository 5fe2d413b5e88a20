--------------------------- MODULE ModelSelection ---------------------------
(***************************************************************************)
(* How a strategy picks a model for a routing label: the selection half of *)
(* PolicyStrategy (jev_gateway/strategy/policy.py), over the catalog       *)
(* (jev_gateway/catalog.py).                                               *)
(*                                                                         *)
(* A selection is deterministic. It is written here as a set with at most  *)
(* one element: the empty set is the SetupIncompleteError that the code    *)
(* raises. A pool, a list in the code, is a function from its models to    *)
(* their places in that list.                                              *)
(***************************************************************************)
EXTENDS Integers, FiniteSets, Sequences, Functions

CONSTANTS
    Models,     \* canonical model ids
    Labels,     \* routing labels
    Needs,      \* what a request may need of a model: tools, vision, JSON mode
    Profile,    \* ModelProfile of each model
    Catalogs,   \* catalogs that a reload may activate, each with one policy
    Unlimited,  \* the None of context_window and max_output_tokens
    None        \* every other None

\* ModelProfile. Quality is in tenths; a price is per token, in any unit.
Profiles ==
    [can: SUBSET Needs, window: Nat \cup {Unlimited},
     ceiling: Nat \cup {Unlimited}, input: Nat, output: Nat,
     quality: 0..10, priority: Int]

\* The label a global default is reported under; a policy may also declare it.
DefaultLabel == "default"

Modes == {"sticky", "cached", "escalate", "adaptive", "fresh"}

Rules == {"cheapest_adequate", "quality_first", "balanced"}

\* A place in a list holds one model.
IsPool(pool) == pool \in [DOMAIN pool -> Nat] /\ IsInjective(pool)

\* Catalog.validate: labels are declared, unique and name models of the
\* catalog, selected models are models of the catalog.
ASSUME SelectionAssumption ==
    /\ IsFiniteSet(Models) /\ IsFiniteSet(Labels)
    /\ None \notin Models \cup Labels \cup {DefaultLabel} \cup Int
    /\ Unlimited \notin Nat
    /\ Profile \in [Models -> Profiles]
    /\ \A c \in Catalogs :
          /\ IsPool(c.order) /\ DOMAIN c.order \subseteq Models
          /\ c.enabled \subseteq DOMAIN c.order
          /\ c.selected \subseteq DOMAIN c.order
          /\ c.default \in DOMAIN c.order \cup {None}
          /\ c.labels \in Seq(Labels) /\ c.labels # <<>>
          /\ \A label \in Range(c.labels) :
                /\ IsPool(c.listed[label]) /\ DOMAIN c.listed[label] \subseteq DOMAIN c.order
                /\ c.tagged[label] \subseteq DOMAIN c.order
          /\ c.mode \in Modes /\ c.selection \in Rules

-----------------------------------------------------------------------------
(* What a request asks of a model. *)

\* ModelProfile.supports.
Capable(m, facts) == facts.needs \subseteq Profile[m].can

\* Conversation and requested output together.
RequiredContext(facts) == facts.tokens + facts.output

FitsContext(m, required) ==
    Profile[m].window = Unlimited \/ required <= Profile[m].window

FitsOutput(m, facts) ==
    Profile[m].ceiling = Unlimited \/ facts.output <= Profile[m].ceiling

EstimatedCost(m, facts) ==
    facts.tokens * Profile[m].input + facts.output * Profile[m].output

-----------------------------------------------------------------------------
(* Pools. *)

\* The candidates of a strategy: enabled models it has selected.
Usable(c) == c.enabled \cap c.selected

\* Variant: a label hands out its models whether they are enabled or not.
TierPoolAsListed(c, label) ==
    IF DOMAIN c.listed[label] # {} \/ c.explicit[label]
    THEN c.listed[label]
    ELSE Restrict(c.order, c.tagged[label])

\* The candidates of one label: the models it lists, or those with its tag.
TierPool(c, label) ==
    IF DOMAIN c.listed[label] # {} \/ c.explicit[label]
    THEN Restrict(c.listed[label], DOMAIN c.listed[label] \cap Usable(c))
    ELSE Restrict(c.order, c.tagged[label] \cap Usable(c))

WholePool(c) == Restrict(c.order, Usable(c))

\* No label of the policy: the global default stands for it.
IsGlobalDefault(c, label) ==
    label = DefaultLabel /\ DefaultLabel \notin Range(c.labels)

\* The label that a model is reported under: the first that lists it, or whose
\* tag it has.
TierForProfile(c, m, fallback) ==
    LET holds(label) == \/ m \in DOMAIN c.listed[label]
                        \/ DOMAIN c.listed[label] = {} /\ m \in c.tagged[label]
        found == {i \in DOMAIN c.labels : holds(c.labels[i])}
    IN  IF found = {} THEN fallback
        ELSE c.labels[CHOOSE i \in found : \A j \in found : i <= j]

\* The global default decides: the policy has no such label, or no model for it.
LeftToDefault(c, label) ==
    IsGlobalDefault(c, label) \/ DOMAIN TierPool(c, label) = {}

-----------------------------------------------------------------------------
(* Selection. *)

\* What the candidates are sorted by, with the common factors of balanced
\* multiplied out: 0.4 * cost / highest - 0.6 * quality.
Score(rule, members, facts, m) ==
    LET costs == {EstimatedCost(n, facts) : n \in members}
        highest == CHOOSE x \in costs : \A y \in costs : y <= x
        scale == IF highest = 0 THEN 1 ELSE highest
    IN  CASE rule = "cheapest_adequate" -> EstimatedCost(m, facts)
          [] rule = "quality_first" -> -Profile[m].quality
          [] rule = "balanced" ->
                40 * EstimatedCost(m, facts) - 6 * Profile[m].quality * scale

\* Score, then priority, then place in the list: sorted is stable.
Precedes(rule, pool, facts, a, b) ==
    LET score(m) == Score(rule, DOMAIN pool, facts, m)
        priority(m) == Profile[m].priority
    IN  \/ score(a) < score(b)
        \/ score(a) = score(b) /\ priority(a) < priority(b)
        \/ /\ score(a) = score(b) /\ priority(a) = priority(b)
           /\ pool[a] < pool[b]

\* The first candidate in that order.
FirstOf(rule, pool, facts) ==
    {m \in DOMAIN pool :
        \A n \in DOMAIN pool \ {m} : Precedes(rule, pool, facts, m, n)}

\* The constraints of _select, strictest first. Each is tried on the pool of
\* the label and then on every candidate of the strategy.
Relaxations ==
    << [capable |-> TRUE, context |-> TRUE, output |-> TRUE],
       [capable |-> TRUE, context |-> TRUE, output |-> FALSE],
       [capable |-> TRUE, context |-> FALSE, output |-> FALSE],
       [capable |-> FALSE, context |-> FALSE, output |-> FALSE] >>

Meets(m, facts, step) ==
    /\ step.capable => Capable(m, facts)
    /\ step.context => FitsContext(m, RequiredContext(facts))
    /\ step.output => FitsOutput(m, facts)

Attempts == (1..4) \X BOOLEAN

Sooner(a, b) ==
    \/ a[1] < b[1]
    \/ a[1] = b[1] /\ ~a[2] /\ b[2]

\* The candidates at one step, from the label's pool or, widened, from all.
\* excluded holds the model not to return to, if there is one.
Candidates(c, label, facts, excluded, attempt) ==
    LET pool == IF attempt[2] THEN WholePool(c) ELSE TierPool(c, label)
    IN  Restrict(pool, {m \in DOMAIN pool \ excluded :
                           Meets(m, facts, Relaxations[attempt[1]])})

\* _default_model, which looks at no constraint and excludes nothing.
DefaultModel(c) ==
    {[model |-> m, label |-> DefaultLabel, defaulted |-> TRUE] :
        m \in {c.default} \cap Usable(c)}

\* Variant: constraints are dropped before the pool is widened.
SelectInPoolFirst(c, rule, label, facts, excluded) ==
    IF LeftToDefault(c, label) THEN DefaultModel(c)
    ELSE LET tried == {attempt \in Attempts :
                          DOMAIN Candidates(c, label, facts, excluded, attempt) # {}}
             before(a, b) == \/ ~a[2] /\ b[2]
                             \/ a[2] = b[2] /\ a[1] < b[1]
         IN  UNION {{[model |-> m, defaulted |-> FALSE,
                      label |-> IF attempt[2] THEN TierForProfile(c, m, label)
                                ELSE label] :
                       m \in FirstOf(rule, Candidates(c, label, facts, excluded,
                                                      attempt), facts)} :
                    attempt \in {a \in tried : \A b \in tried \ {a} : before(a, b)}}

\* _select, with the label that _effective_tier then reports. After the last
\* relaxation the fallback of the code has nothing left to find.
Select(c, rule, label, facts, excluded) ==
    IF LeftToDefault(c, label) THEN DefaultModel(c)
    ELSE LET tried == {attempt \in Attempts :
                          DOMAIN Candidates(c, label, facts, excluded, attempt) # {}}
         IN  UNION {{[model |-> m, defaulted |-> FALSE,
                      label |-> IF attempt[2] THEN TierForProfile(c, m, label)
                                ELSE label] :
                       m \in FirstOf(rule, Candidates(c, label, facts, excluded,
                                                      attempt), facts)} :
                    attempt \in {a \in tried : \A b \in tried \ {a} : Sooner(a, b)}}

=============================================================================
