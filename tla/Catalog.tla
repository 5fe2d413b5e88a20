------------------------------- MODULE Catalog -------------------------------
(* What models.json and the routing overlay mean: parsing and validation of a  *)
(* document, the overlay merged into it, and the migration of an overlay to    *)
(* whole workflows.                                                            *)
(*                                                                             *)
(* A document is a record. Where the code checks the fields of an entry one by *)
(* one, the entry has a field "valid" that stands for their outcome; what      *)
(* relates entries to each other (references, labels, pools, tags, keys) is    *)
(* kept. A model's id is provider/upstream_model, a tag is a pair of strategy  *)
(* and label, labels are numbers in the order they are declared. What cannot   *)
(* be parsed is Broken, the exception the code raises.                         *)
EXTENDS Naturals, FiniteSets, FiniteSetsExt, Functions, TLC

CONSTANTS
    None,           \* a field that is absent
    External        \* the process environment: references to values or None

\* The ValueError or TypeError of a parser, which is like nothing it parses.
Broken == [error |-> TRUE]

\* A mapping with the entry x set to y.
With(f, x, y) == [z \in DOMAIN f \cup {x} |-> IF z = x THEN y ELSE f[z]]

-----------------------------------------------------------------------------
(* Credentials. *)

\* credential_snapshot: credentials.json before .env before the environment.
Resolve(secrets, ref) ==
    IF secrets[ref].file # None THEN secrets[ref].file
    ELSE IF secrets[ref].env # None THEN secrets[ref].env
    ELSE External[ref]

\* _resolve_api_key with allow_missing_credentials: an absent key is empty.
OptionalKey(secrets, ref) == IF ref = None THEN None ELSE Resolve(secrets, ref)

\* Who refers to which credential: the gateway, a provider's key or one of its
\* parameters, a decision provider.
Uses(document) ==
    {<<<<"gateway">>, document.gateway.key>>}
    \cup {<<<<"llm", p>>, document.providers[p].key>> :
            p \in DOMAIN document.providers}
    \cup (UNION {{<<<<"llm", p, b>>, document.providers[p].bindings[b]>> :
                      b \in DOMAIN document.providers[p].bindings} :
                  p \in DOMAIN document.providers})
    \cup {<<<<"decision", d>>, document.decision.providers[d].key>> :
            d \in DOMAIN document.decision.providers}

\* _references, of anybody, and with an owner that does not count.
Used(document, ref) == \E use \in Uses(document) : use[2] = ref

Shared(document, ref, owner) ==
    \E use \in Uses(document) : use[2] = ref /\ use[1] # owner

-----------------------------------------------------------------------------
(* Strategies. A route has the models it lists or a tag, or neither; a         *)
(* definition has the labels its rules and its fallback select.                *)

TagOf(strategy, label, route) ==
    IF route.tag # None THEN route.tag ELSE <<strategy, label>>

\* The pool of a label before the strategy's selection restricts it.
Members(strategy, label, route, models) ==
    IF route.models # None THEN route.models
    ELSE {m \in DOMAIN models : TagOf(strategy, label, route) \in models[m].tags}

\* Catalog.for_tier and PolicyStrategy._tier_pool.
Pool(catalog, strategy, label) ==
    LET definition == catalog.strategies[strategy]
    IN  {m \in Members(strategy, label, definition.labels[label],
                       catalog.models) :
            definition.selected = None \/ m \in definition.selected}

\* The labels a decision may end in: those of rules and fallback, and the first
\* one, which an unmatched answer selects.
Reached(definition) ==
    {label \in DOMAIN definition.labels :
        label \in definition.choices \/ label = Min(DOMAIN definition.labels)}

\* _labels_from_dict: an empty pool needs an explicit selection.
LabelsParse(labels, selected) ==
    /\ DOMAIN labels # {}
    /\ \A label \in DOMAIN labels :
          /\ labels[label].models = None \/ labels[label].tag = None
          /\ labels[label].models = {} => selected # None

\* policy_from_dict: what a body leaves out it inherits, and an inherited pool
\* stays the one of the default strategy's tags.
PolicyFromDict(body, base, inherited) ==
    LET selected == IF body.selected = None /\ base # None THEN base.selected
                    ELSE body.selected
        labels == [label \in DOMAIN base.labels |->
                      LET route == base.labels[label]
                      IN  IF route.models = None /\ route.tag = None
                          THEN [route EXCEPT !.tag = <<inherited, label>>]
                          ELSE route]
    IN  IF body.labels # None
        THEN IF LabelsParse(body.labels, selected)
             THEN [body EXCEPT !.selected = selected] ELSE Broken
        ELSE IF base = None THEN Broken
        ELSE [body EXCEPT !.labels = labels, !.selected = selected]

\* strategies_from_document: compact strategies need a top-level policy.
StrategiesFromDocument(document) ==
    LET parsed == [s \in DOMAIN document.strategies |->
                      PolicyFromDict(document.strategies[s], document.policy,
                                     document.default)]
    IN  IF \/ DOMAIN parsed = {}
           \/ document.compact /\ document.policy = None
           \/ document.policy # None
              /\ ~LabelsParse(document.policy.labels, document.policy.selected)
           \/ Broken \in {parsed[s] : s \in DOMAIN parsed}
           \/ \E s \in DOMAIN document.strategies : ~document.strategies[s].valid
        THEN Broken ELSE parsed

\* _validate_policy, once the models are known.
PolicyIsValid(definition, models) ==
    /\ definition.selected # None => definition.selected \subseteq DOMAIN models
    /\ \A label \in DOMAIN definition.labels :
          LET listed == definition.labels[label].models
          IN  listed # None => listed \subseteq DOMAIN models

-----------------------------------------------------------------------------
(* The catalog. *)

\* storage_from_dict and model_metadata: numbers, limits, prices and the
\* provenance of each, checked one by one.
StorageParses(storage) == storage.valid

ModelParses(model) == model.valid

\* provider_from_dict with resolved completion arguments.
ProviderFromDict(provider, secrets) ==
    [key |-> OptionalKey(secrets, provider.key),
     bindings |-> [b \in DOMAIN provider.bindings |->
                      Resolve(secrets, provider.bindings[b])]]

\* profile_from_dict.
ProfileFromDict(model) ==
    [provider |-> model.provider, enabled |-> model.enabled, tags |-> model.tags]

\* gateway_from_dict: the key of the gateway itself must be there.
GatewayParses(gateway, secrets) ==
    /\ gateway.valid
    /\ gateway.key # None => Resolve(secrets, gateway.key) # None

\* decision_from_dict.
DecisionParses(decision) ==
    /\ decision.valid
    /\ decision.default # None => decision.default \in DOMAIN decision.providers
    /\ decision.enabled => DOMAIN decision.providers # {}

DecisionFromDict(decision, secrets) ==
    [enabled |-> decision.enabled, default |-> decision.default,
     keys |-> [d \in DOMAIN decision.providers |->
                 Resolve(secrets, decision.providers[d].key)]]

\* _build_catalog and Catalog.validate.
References(document, strategies) ==
    /\ \A m \in DOMAIN document.models :
          document.models[m].provider \in DOMAIN document.providers
    /\ \A s \in DOMAIN strategies :
          /\ strategies[s].decision # None =>
                strategies[s].decision \in DOMAIN document.decision.providers
          /\ PolicyIsValid(strategies[s], document.models)
    /\ document.default \in DOMAIN strategies
    /\ document.defaultModel # None => document.defaultModel \in DOMAIN document.models

\* catalog_from_document.
CatalogFromDocument(document, secrets) ==
    LET strategies == StrategiesFromDocument(document)
    IN  IF \/ strategies = Broken
           \/ \E p \in DOMAIN document.providers : ~document.providers[p].valid
           \/ \E m \in DOMAIN document.models : ~ModelParses(document.models[m])
           \/ ~GatewayParses(document.gateway, secrets)
           \/ ~StorageParses(document.storage)
           \/ ~DecisionParses(document.decision)
        THEN Broken
        ELSE IF ~References(document, strategies) THEN Broken
        ELSE [providers |-> [p \in DOMAIN document.providers |->
                                ProviderFromDict(document.providers[p], secrets)],
              models |-> [m \in DOMAIN document.models |->
                             ProfileFromDict(document.models[m])],
              strategies |-> strategies,
              default |-> document.default,
              gateway |-> OptionalKey(secrets, document.gateway.key),
              decision |-> DecisionFromDict(document.decision, secrets),
              storage |-> document.storage,
              defaultModel |-> document.defaultModel]

\* StrategyRegistry.from_catalog: the constructor of a matrix checks the labels
\* its rules select, which no parser does.
RegistryBuilds(catalog) ==
    \A s \in DOMAIN catalog.strategies :
        LET definition == catalog.strategies[s]
        IN  /\ definition.kind \in {"auto", "policy", "decision", "decision_matrix"}
            /\ definition.kind = "decision_matrix" =>
                  /\ definition.choices # None
                  /\ definition.choices \subseteq DOMAIN definition.labels

-----------------------------------------------------------------------------
(* The overlay. Version 1 changes rules and tags in one strategy, version 2    *)
(* holds whole workflows; version 0 is a missing file and version 3 one this   *)
(* gateway cannot read.                                                        *)

NoOverlay == [version |-> 0, strategy |-> None, choices |-> None,
              workflows |-> <<>>, deleted |-> {}, tags |-> <<>>]

\* _validate_v2 of one entry; "valid" covers names, kinds and the shape of
\* questions and rules.
WorkflowIsShaped(body) ==
    /\ body.valid /\ body.kind = "decision_matrix"
    /\ body.selected # None /\ body.labels # None /\ body.choices # None
    /\ LabelsParse(body.labels, body.selected)

\* validate_overlay_shape.
OverlayIsShaped(overlay) ==
    CASE overlay.version = 0 -> TRUE
      [] overlay.version = 1 -> TRUE
      [] overlay.version = 2 ->
            /\ \A s \in DOMAIN overlay.workflows :
                  WorkflowIsShaped(overlay.workflows[s])
            /\ overlay.deleted \cap DOMAIN overlay.workflows = {}
      [] OTHER -> FALSE

\* read_overlay: a file that cannot be read counts as none, with an error.
ReadOverlay(overlay) == IF overlay.version = 3 THEN NoOverlay ELSE overlay

Override(models, tags) ==
    [m \in DOMAIN models |->
        IF m \in DOMAIN tags THEN [models[m] EXCEPT !.tags = tags[m]]
        ELSE models[m]]

\* Version 1 of merge_overlay.
MergeRules(document, overlay) ==
    LET s == overlay.strategy
    IN  IF \/ s \notin DOMAIN document.strategies
           \/ overlay.choices # None /\ document.strategies[s].choices = None
           \/ ~(DOMAIN overlay.tags \subseteq DOMAIN document.models)
        THEN Broken
        ELSE [document EXCEPT
                 !.strategies[s].choices =
                     IF overlay.choices = None THEN @ ELSE overlay.choices,
                 !.models = Override(@, overlay.tags)]

\* A workflow that merge_overlay accepts.
WorkflowFits(body, document) ==
    /\ body.selected \subseteq DOMAIN document.models
    /\ body.decision # None => body.decision \in DOMAIN document.decision.providers
    /\ \A label \in DOMAIN body.labels :
          LET listed == body.labels[label].models
          IN  listed # None => listed \subseteq body.selected

\* Version 2 of merge_overlay: the document's strategies are written out with
\* what they inherit, without the deleted ones, under the workflows.
MergeWorkflows(document, overlay) ==
    LET parsed == StrategiesFromDocument(document)
        kept == DOMAIN parsed \ overlay.deleted
    IN  IF parsed = Broken THEN Broken
        ELSE IF \/ ~(overlay.deleted \subseteq DOMAIN parsed \ {document.default})
                \/ \E s \in DOMAIN overlay.workflows :
                      ~WorkflowFits(overlay.workflows[s], document)
                \/ ~(DOMAIN overlay.tags \subseteq DOMAIN document.models)
        THEN Broken
        ELSE [document EXCEPT
                 !.strategies = [s \in kept \cup DOMAIN overlay.workflows |->
                                    IF s \in DOMAIN overlay.workflows
                                    THEN overlay.workflows[s] ELSE parsed[s]],
                 !.compact = FALSE,
                 !.models = Override(@, overlay.tags)]

\* merge_overlay.
MergeOverlay(document, overlay) ==
    IF ~OverlayIsShaped(overlay) THEN Broken
    ELSE CASE overlay.version = 0 -> document
           [] overlay.version = 1 -> MergeRules(document, overlay)
           [] overlay.version = 2 -> MergeWorkflows(document, overlay)

\* The catalog of a document under an overlay, as every writer validates it.
Effective(document, overlay, secrets) ==
    LET merged == MergeOverlay(document, overlay)
    IN  IF merged = Broken THEN Broken
        ELSE CatalogFromDocument(merged, secrets)

\* What load_gateway_config and reload read: an overlay that does not apply is
\* left out.
Load(document, overlay, secrets) ==
    LET catalog == Effective(document, ReadOverlay(overlay), secrets)
    IN  IF catalog # Broken THEN catalog
        ELSE CatalogFromDocument(document, secrets)

-----------------------------------------------------------------------------
(* Workflows. *)

\* referenced_models: the members of the labels a decision may end in, and the
\* global default if one of them is empty.
\* Mutant: only the first label's members are kept.
ReferencedByFirst(strategy, definition, catalog) ==
    LET first == Min(DOMAIN definition.labels)
    IN  IF definition.selected # None THEN definition.selected
        ELSE Members(strategy, first, definition.labels[first], catalog.models)

ReferencedModels(strategy, definition, catalog) ==
    LET members == [label \in Reached(definition) |->
                       Members(strategy, label, definition.labels[label],
                               catalog.models)]
        default == IF /\ catalog.defaultModel # None
                      /\ \E label \in DOMAIN members : members[label] = {}
                   THEN {catalog.defaultModel} ELSE {}
    IN  IF definition.selected # None THEN definition.selected
        ELSE (UNION {members[label] : label \in DOMAIN members}) \cup default

\* A strategy written out as a workflow, its pools cut to what is selected.
RouteWithin(route, selected) ==
    IF route.models = None THEN route ELSE [route EXCEPT !.models = @ \cap selected]

Frozen(strategy, definition, catalog) ==
    LET selected == ReferencedModels(strategy, definition, catalog)
    IN  [definition EXCEPT
            !.selected = selected,
            !.labels = [label \in DOMAIN @ |-> RouteWithin(@[label], selected)]]

\* migrate_overlay: every matrix becomes a workflow.
MigrateOverlay(overlay, catalog) ==
    LET matrices == {s \in DOMAIN catalog.strategies :
                        catalog.strategies[s].kind = "decision_matrix"}
    IN  IF overlay.version = 2 THEN overlay
        ELSE [version |-> 2, strategy |-> None, choices |-> None,
              workflows |-> [s \in matrices |->
                                Frozen(s, catalog.strategies[s], catalog)],
              deleted |-> {}, tags |-> overlay.tags]

\* empty_workflow: one label without models.
EmptyWorkflow ==
    [kind |-> "decision_matrix", labels |-> (1 :> [models |-> {}, tag |-> None]),
     selected |-> {}, choices |-> {1}, decision |-> None, valid |-> TRUE]

\* reconcile_model_references, when models are removed.
RouteWithout(route, removed) ==
    IF route.models = None THEN route ELSE [route EXCEPT !.models = @ \ removed]

WorkflowWithout(body, removed) ==
    [body EXCEPT
        !.selected = @ \ removed,
        !.labels = [label \in DOMAIN @ |-> RouteWithout(@[label], removed)]]

Reconcile(overlay, removed) ==
    [overlay EXCEPT
        !.tags = Restrict(@, DOMAIN @ \ removed),
        !.workflows = [s \in DOMAIN @ |-> WorkflowWithout(@[s], removed)]]

=============================================================================
