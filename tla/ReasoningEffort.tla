--------------------------- MODULE ReasoningEffort ---------------------------
(* The reasoning effort a request runs at: the policy a strategy inherits and  *)
(* overrides (catalog.reasoning_from_dict), the level the gateway derives from *)
(* the label a request was routed to, and what becomes of the level the client *)
(* asked for, on the ladder of the route (reasoning.py).                       *)
(*                                                                             *)
(* Levels are numbers, 0 for "none" upwards; the names are their order. A      *)
(* value that names no level, which a client may send, is Unknown.             *)
EXTENDS Naturals, SequencesExt

CONSTANTS
    Top,            \* the highest level
    Bases,          \* policies of the catalog
    Sections,       \* "reasoning" objects of a strategy
    Collections,    \* "labels" of a strategy: the effort of each label, or Unset
    Unset,          \* a field that is left out; None
    Unknown         \* a value that is no level

VARIABLES
    ladder,     \* capabilities.reasoning_effort of the selected model
    base,       \* the catalog's policy
    section,    \* what the strategy says of reasoning, or Unset
    replaced,   \* its labels, or Unset when it inherits the catalog's
    policy,     \* the strategy's policy once it is loaded, or Unset
    effort      \* what was chosen for the request, or Unset

vars == <<ladder, base, section, replaced, policy, effort>>

Levels == 0..Top
Modes == {"off", "preserve", "fill", "cap", "override"}

Init ==
    /\ ladder \in SUBSET Levels
    /\ base \in Bases
    /\ section \in Sections \cup {Unset}
    /\ replaced \in Collections \cup {Unset}
    /\ policy = Unset
    /\ effort = Unset

-----------------------------------------------------------------------------
(* Loading. *)

Given(value, default) == IF value = Unset THEN default ELSE value

\* left, with the entries of right in the place of its own.
Updated(left, right) ==
    [name \in DOMAIN left \cup DOMAIN right |->
        IF name \in DOMAIN right THEN right[name] ELSE left[name]]

NoEntries == [name \in {} |-> 0]

\* reasoning_from_dict: tiers are merged one by one, labels replaced together.
Inherited ==
    IF section = Unset THEN base
    ELSE [base EXCEPT
            !.mode = Given(section.mode, base.mode),
            !.by_tier = Updated(@, Given(section.by_tier, NoEntries)),
            !.by_label = Given(section.by_label, base.by_label),
            !.fallback = Given(section.fallback, base.fallback)]

Labels == Given(replaced, base.labels)

Fits == DOMAIN Inherited.by_label \subseteq DOMAIN Labels

\* policy_from_dict: a map of labels must fit them, unless it is inherited by a
\* strategy that replaces the labels.
Loads ==
    LET own == IF section = Unset THEN Unset ELSE section.by_label
    IN  Fits \/ (replaced # Unset /\ own = Unset)

\* An inherited map that does not fit is lost.
Load ==
    /\ policy = Unset
    /\ Loads
    /\ policy' = [Inherited EXCEPT
          !.labels = Labels,
          !.by_label = IF Fits THEN @ ELSE NoEntries]
    /\ UNCHANGED <<ladder, base, section, replaced, effort>>

-----------------------------------------------------------------------------
(* Choosing. *)

\* The first level of a walk over the ladder that the route accepts.
FirstAccepted(walk) == walk[SelectInSeq(walk, LAMBDA level : level \in ladder)]

\* Mutant: the walk goes down before it goes up.
ClampDown(wanted) ==
    FirstAccepted([i \in 1..(Top + 1) |->
        IF i <= wanted + 1 THEN wanted + 1 - i ELSE i - 1])

\* clamp_effort: up from the level wanted to the top, then down from it.
Clamp(wanted) ==
    FirstAccepted([i \in 1..(Top + 1) |->
        IF wanted + i - 1 <= Top THEN wanted + i - 1 ELSE Top + 1 - i])

Entry(map, name) == IF name \in DOMAIN map THEN map[name] ELSE Unset

\* _reasoning_choice with derive_effort: the label's own level counts as an
\* entry of by_label; an outcome that was defaulted has no label to go by.
Derived(label, defaulted) ==
    LET own == Given(Entry(policy.labels, label), Entry(policy.by_label, label))
    IN  IF defaulted THEN policy.fallback
        ELSE Given(own, Given(Entry(policy.by_tier, label), policy.fallback))

\* effort_for.
EffortFor(label, defaulted, requested) ==
    LET derived == Clamp(Derived(label, defaulted))
        kept == Clamp(requested)
        choice(level, source) == [level |-> level, source |-> source]
    IN  CASE policy.mode = "off" -> choice(Unset, "off")
          [] policy.mode # "off" /\ ladder = {} -> choice(Unset, "undeclared")
          [] OTHER ->
               IF requested = Unset
               THEN IF policy.mode = "preserve" THEN choice(Unset, "client")
                                                ELSE choice(derived, "derived")
               ELSE IF policy.mode = "override" THEN choice(derived, "derived")
               ELSE IF requested = Unknown THEN choice(Unset, "invalid_client")
               ELSE IF policy.mode = "cap" /\ derived < kept
                    THEN choice(derived, "capped")
               ELSE choice(kept, IF kept = requested THEN "client"
                                                     ELSE "clamped_client")

LeavesPayloadAlone(source) == source \in {"off", "undeclared"}

\* The decision of a request, and apply_reasoning_effort on its payload.
Choose(label, defaulted, requested) ==
    LET choice == EffortFor(label, defaulted, requested)
    IN  /\ policy # Unset /\ effort = Unset
        /\ label \in DOMAIN policy.labels
        /\ effort' = [label |-> label, defaulted |-> defaulted,
                      requested |-> requested, source |-> choice.source,
                      sent |-> IF LeavesPayloadAlone(choice.source) THEN requested
                               ELSE choice.level]
        /\ UNCHANGED <<ladder, base, section, replaced, policy>>

Next ==
    \/ Load
    \/ /\ policy # Unset
       /\ \E label \in DOMAIN policy.labels, defaulted \in BOOLEAN,
             requested \in Levels \cup {Unset, Unknown} :
             Choose(label, defaulted, requested)

\* The strategy cannot be loaded, or the request is decided.
Finished == (policy = Unset /\ ~Loads) \/ effort # Unset

-----------------------------------------------------------------------------
(* Properties. *)

TypeOK ==
    /\ policy # Unset =>
          /\ policy.mode \in Modes /\ policy.fallback \in Levels
          /\ DOMAIN policy.by_label \subseteq DOMAIN policy.labels
    /\ effort # Unset =>
          effort.sent \in Levels \cup {Unset, Unknown}

\* The level nearest to a wanted one: the least at or above it, or else the
\* greatest below it.
IsNearest(level, wanted) ==
    /\ level \in ladder
    /\ IF level >= wanted
       THEN \A other \in ladder : other >= wanted => level <= other
       ELSE \A other \in ladder : other < wanted /\ other <= level

\* Whether an object of the configuration decides the level of a label.
Says(map, label) == map # Unset /\ Entry(map, label) # Unset

\* What the configuration asks for: the label, then the strategy's map of
\* labels or the inherited one, then tiers, then the fallback.
Asked(label, defaulted) ==
    LET says(field) == section # Unset /\ section[field] # Unset
        fallback == IF says("fallback") THEN section.fallback ELSE base.fallback
        usable == replaced = Unset \/ DOMAIN base.by_label \subseteq DOMAIN replaced
        maps == << Given(replaced, base.labels),
                   IF says("by_label") THEN section.by_label
                   ELSE IF usable THEN base.by_label ELSE Unset,
                   IF says("by_tier") THEN section.by_tier ELSE Unset,
                   base.by_tier >>
        saying == {i \in DOMAIN maps : Says(maps[i], label)}
    IN  IF defaulted \/ saying = {} THEN fallback
        ELSE maps[CHOOSE i \in saying : \A j \in saying : i <= j][label]

\* What is sent is a level of the route: the nearest to what the configuration
\* asks for or to what the client asked for, as the mode says, and under "cap"
\* the lower one; a field the gateway has no opinion on goes through as it came,
\* and one that names no level is never passed on otherwise.
EffortFits ==
    effort # Unset =>
        LET mode == IF section = Unset THEN base.mode
                    ELSE Given(section.mode, base.mode)
            asked == Asked(effort.label, effort.defaulted)
            client == effort.requested
            sent == effort.sent
        IN  IF mode = "off" \/ ladder = {} THEN sent = client
            ELSE IF mode = "override" \/ (client = Unset /\ mode # "preserve")
                 THEN sent # Unset /\ IsNearest(sent, asked)
            ELSE IF client \in {Unset, Unknown} THEN sent = Unset
            ELSE /\ sent # Unset
                 /\ IsNearest(sent, client) \/ (mode = "cap" /\ IsNearest(sent, asked))
                 /\ mode = "cap" => \A level \in ladder :
                        IsNearest(level, client) \/ IsNearest(level, asked)
                            => sent <= level

=============================================================================
