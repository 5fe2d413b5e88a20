------------------------------ MODULE Documents ------------------------------
(* The configuration of an installation over time: the files models.json,      *)
(* routing-overrides.json, routing-canvas-layout.json and the two credential   *)
(* files, the gateway that runs on them, the dashboard that edits them and     *)
(* activates what it wrote, the command line that edits them without telling   *)
(* the gateway, and the operator's editor, which checks nothing.               *)
(*                                                                             *)
(* Every handler holds the configuration lock from its first read to its last  *)
(* write and writes all or nothing, which ConfigTransaction is about: here it  *)
(* is one step. A request the handler refuses changes nothing and is no step.  *)
EXTENDS Catalog, SequencesExt

CONSTANTS
    Legacy,         \* the strategy of a layout without names, task_aware
    GatewayRef,     \* JEV_GATEWAY_API_KEY
    PresetKey,      \* provider presets: id to credential reference
    First,          \* the files at first: [document, overlay, layout, secrets]
    Bodies,         \* workflow bodies the dashboard sends
    Rules,          \* [choices, tags] of version 1 requests
    Commands,       \* sequences of provider operations the dashboard sends
    Additions,      \* providers the command line adds
    Secrets,        \* credential values
    Ids,            \* ids of models
    Nodes,          \* sets of models a layout places
    Names,          \* strategy names
    HandEdits,      \* contents an operator may leave in each file, as sets
    MaxEdits        \* bound: writes of one behaviour

\* The routes of a policy, and the body of a strategy: only a decision matrix has
\* rules that select labels.
HasRoutes(labels) ==
    \A l \in DOMAIN labels :
        /\ DOMAIN labels[l] = {"models", "tag"}
        /\ labels[l].models # None => labels[l].models \subseteq Ids

IsBody(body) ==
    /\ DOMAIN body = {"kind", "labels", "selected", "choices", "decision", "valid"}
    /\ body.kind # "decision_matrix" => body.choices = None
    /\ body.labels # None => HasRoutes(body.labels)

\* The sections of models.json, and the reference of the gateway's own key.
IsDocument(d) ==
    /\ DOMAIN d = {"providers", "models", "policy", "strategies", "compact",
                   "default", "gateway", "decision", "storage", "defaultModel"}
    /\ DOMAIN d.gateway = {"valid", "key"}
    /\ d.gateway.key \in DOMAIN External \cup {None}
    /\ \A s \in DOMAIN d.strategies : IsBody(d.strategies[s])
    /\ d.policy # None => HasRoutes(d.policy.labels)

\* The fields of an overlay; a missing file has none of the changes.
IsOverlay(o) ==
    /\ DOMAIN o = DOMAIN NoOverlay
    /\ OverlayIsShaped(ReadOverlay(o))
    /\ o.version = 0 => o = NoOverlay

\* A layout of one strategy is the one that has no name.
IsLayout(saved) ==
    \/ saved = Broken
    \/ /\ DOMAIN saved = {"version", "nodes"}
       /\ saved.version \in {1, 2}
       /\ saved.version = 1 => DOMAIN saved.nodes \subseteq {Legacy}

SecretFiles ==
    [DOMAIN External -> [file : Secrets \cup {None}, env : Secrets \cup {None}]]

\* What the dashboard may ask of providers and models.
IsOperation(operation) ==
    LET Update(action, value) ==
            /\ action \in {"keep", "set", "clear"}
            /\ action = "set" => value \in Secrets
    IN  /\ operation.kind \in {"upsert_llm", "upsert_decision", "delete_llm",
                               "delete_decision", "import", "update_model",
                               "default_model", "decision_enabled"}
        /\ operation.kind \in {"upsert_llm", "upsert_decision"} =>
              Update(operation.action, operation.value)
        /\ operation.kind = "upsert_llm" /\ operation.parameter # None =>
              Update(operation.parameterAction, operation.value)

\* The first files are ones a gateway starts from. Those an operator leaves are
\* JSON of the right shape or cannot be read at all, whatever they say.
ASSUME FilesAssumption ==
    /\ MaxEdits \in Nat /\ GatewayRef \in DOMAIN External
    /\ \A S \in SUBSET Ids : S # None
    /\ IsDocument(First.document) /\ IsOverlay(First.overlay)
    /\ IsLayout(First.layout) /\ First.secrets \in SecretFiles
    /\ LET catalog == Effective(First.document, First.overlay, First.secrets)
       IN  catalog # Broken /\ RegistryBuilds(catalog)
    /\ \A d \in HandEdits.document : IsDocument(d)
    /\ \A o \in HandEdits.overlay : IsOverlay(o)
    /\ \A saved \in HandEdits.layout : IsLayout(saved)
    /\ HandEdits.secrets \subseteq SecretFiles

\* Requests are sequences of operations, and credentials have values.
ASSUME RequestsAssumption ==
    /\ \A operations \in Commands :
          /\ Len(operations) \in Nat /\ DOMAIN operations = 1..Len(operations)
          /\ \A i \in DOMAIN operations : IsOperation(operations[i])
    /\ \A addition \in Additions : addition.value \in Secrets \cup {None}

VARIABLES
    document,       \* models.json
    overlay,        \* routing-overrides.json
    layout,         \* routing-canvas-layout.json, Broken if unreadable
    secrets,        \* reference to [file: credentials.json, env: .env]
    running,        \* engine.catalog, Off without a gateway
    key,            \* gateway_api_key, as apply_settings last set it
    stale,          \* what of the gateway is older than the files
    byHand,         \* somebody edited a file by hand
    edits           \* writes so far

files == <<document, overlay, layout, secrets>>
vars == <<document, overlay, layout, secrets, running, key, stale, byHand, edits>>

\* No gateway, and so no catalog.
Off == [running |-> FALSE]

-----------------------------------------------------------------------------
(* The gateway. *)

\* Mutant: a catalog is activated without its settings.
LoadedWithoutSettings(catalog) ==
    /\ running' = catalog
    /\ key' = IF running = Off THEN catalog.gateway ELSE key
    /\ stale' = {}

Loaded(catalog) ==
    /\ running' = catalog
    /\ key' = catalog.gateway
    /\ stale' = {}

\* load_gateway_config: the registry is built from what was loaded, overlay or
\* not.
Start ==
    LET catalog == Load(document, overlay, secrets)
    IN  /\ running = Off
        /\ catalog # Broken
        /\ RegistryBuilds(catalog)
        /\ Loaded(catalog)
        /\ UNCHANGED <<document, overlay, layout, secrets, byHand, edits>>

\* Mutant: the key outlives the gateway.
StopKeepingKey ==
    /\ running # Off
    /\ running' = Off /\ stale' = {}
    /\ UNCHANGED <<document, overlay, layout, secrets, key, byHand, edits>>

Stop ==
    /\ running # Off
    /\ running' = Off /\ key' = None /\ stale' = {}
    /\ UNCHANGED <<document, overlay, layout, secrets, byHand, edits>>

\* reload_locked: the storage settings of a process are for its life.
Reload ==
    LET catalog == Load(document, overlay, secrets)
    IN  /\ running # Off
        /\ catalog # Broken
        /\ RegistryBuilds(catalog)
        /\ catalog.storage = running.storage
        /\ Loaded(catalog)
        /\ UNCHANGED <<document, overlay, layout, secrets, byHand, edits>>

-----------------------------------------------------------------------------
(* Routing: the dashboard's edits of the overlay. *)

Budget == edits < MaxEdits /\ edits' = edits + 1

\* require_config_write: writes need a gateway key, the one in force.
WriteAllowed == running # Off /\ key # None /\ Budget

OverlayReadable == overlay.version # 3

\* strategy_definition: what the dashboard may edit is what runs.
Editable(s) ==
    /\ s \in DOMAIN running.strategies
    /\ running.strategies[s].kind = "decision_matrix"

\* workflow_state_from_disk.
WorkflowState ==
    LET catalog == Effective(document, overlay, secrets)
    IN  IF catalog = Broken THEN Broken ELSE MigrateOverlay(overlay, catalog)

\* What a writer may activate: a valid catalog whose strategies can be built and
\* whose storage is the one in use.
\* Mutant: the strategies are built only when the catalog is activated.
PreparedUnbuilt(catalog) ==
    /\ catalog # Broken
    /\ catalog.storage = running.storage

Prepared(catalog) ==
    /\ catalog # Broken
    /\ RegistryBuilds(catalog)
    /\ catalog.storage = running.storage

\* without_strategy_layout.
WithoutStrategy(saved, s) ==
    [version |-> 2, nodes |-> Restrict(saved.nodes, DOMAIN saved.nodes \ {s})]

\* prepare_overlay and apply_routing_document: the engine gets the catalog, the
\* gateway's own settings stay those of the last load.
ApplyRouting(candidate, cleared) ==
    LET catalog == Effective(document, candidate, secrets)
    IN  /\ Prepared(catalog)
        /\ cleared # None => layout # Broken
        /\ overlay' = candidate
        /\ layout' = IF cleared = None THEN layout
                     ELSE WithoutStrategy(layout, cleared)
        /\ running' = catalog
        /\ stale' = stale \ {"catalog"}
        /\ UNCHANGED <<document, secrets, key, byHand>>

\* PUT /v1/routing/configuration with a workflow.
PutWorkflow(s, body) ==
    /\ WriteAllowed /\ OverlayReadable
    /\ Editable(s)
    /\ WorkflowState # Broken
    /\ ApplyRouting([WorkflowState EXCEPT !.workflows = With(@, s, body)], None)

\* The same request as version 1 while the overlay is of version 1: it replaces
\* the whole overlay.
PutRules(s, rules) ==
    /\ WriteAllowed /\ OverlayReadable
    /\ overlay.version # 2
    /\ s \in DOMAIN running.strategies
    /\ ApplyRouting([NoOverlay EXCEPT !.version = 1, !.strategy = s,
                                      !.choices = rules.choices,
                                      !.tags = rules.tags], None)

\* And after the migration: rules go into the workflow, tags are refused.
PutWorkflowRules(s, rules) ==
    LET state == WorkflowState
        entry == IF s \in DOMAIN state.workflows THEN state.workflows[s]
                 ELSE [running.strategies[s] EXCEPT
                          !.selected = ReferencedModels(s, running.strategies[s],
                                                        running)]
    IN  /\ WriteAllowed
        /\ overlay.version = 2
        /\ Editable(s)
        /\ rules.tags = <<>> /\ rules.choices # None
        /\ state # Broken
        /\ ApplyRouting([state EXCEPT
              !.workflows = With(@, s, [entry EXCEPT !.choices = rules.choices])],
              None)

\* POST /v1/routing/strategies.
CreateStrategy(s) ==
    LET state == WorkflowState
    IN  /\ WriteAllowed /\ OverlayReadable
        /\ s \notin DOMAIN running.strategies
        /\ state # Broken
        /\ s \notin DOMAIN state.workflows
        /\ s \in DOMAIN document.strategies => s \in state.deleted
        /\ ApplyRouting([state EXCEPT !.deleted = @ \ {s},
                                     !.workflows = With(@, s, EmptyWorkflow)], s)

\* DELETE /v1/routing/strategies/{name}: a strategy of models.json leaves a
\* record of its deletion.
DeleteStrategy(s) ==
    LET state == WorkflowState
    IN  /\ WriteAllowed /\ OverlayReadable
        /\ Editable(s) /\ s # running.default
        /\ state # Broken
        /\ s \in DOMAIN document.strategies => s \notin state.deleted
        /\ ApplyRouting(
              [state EXCEPT
                  !.workflows = Restrict(@, DOMAIN @ \ {s}),
                  !.deleted = IF s \in DOMAIN document.strategies
                              THEN @ \cup {s} ELSE @], s)

\* DELETE /v1/routing/configuration of one strategy: back to what models.json
\* says, written out as a workflow.
ResetStrategy(s) ==
    LET state == WorkflowState
        others == [state EXCEPT !.workflows = Restrict(@, DOMAIN @ \ {s})]
        baseline == Effective(document, others, secrets)
        restored == MigrateOverlay(NoOverlay, baseline).workflows
    IN  /\ WriteAllowed /\ OverlayReadable
        /\ Editable(s)
        /\ state # Broken
        /\ s \in DOMAIN document.strategies =>
              baseline # Broken /\ s \in DOMAIN restored
        /\ ApplyRouting(
              [state EXCEPT !.workflows =
                  With(@, s, IF s \in DOMAIN document.strategies THEN restored[s]
                             ELSE EmptyWorkflow)], None)

\* The same without a selector: an overlay that is not of workflows is removed.
ResetRouting ==
    LET catalog == CatalogFromDocument(document, secrets)
    IN  /\ WriteAllowed /\ OverlayReadable
        /\ overlay.version # 2
        /\ Prepared(catalog)
        /\ overlay' = NoOverlay
        /\ running' = catalog
        /\ stale' = stale \ {"catalog"}
        /\ UNCHANGED <<document, layout, secrets, key, byHand>>

\* write_layout: a layout of one strategy becomes one of several when a strategy
\* is named, and stays so.
WriteLayout(selector, nodes) ==
    LET s == IF selector = None THEN Legacy ELSE selector
    IN  /\ WriteAllowed
        /\ layout # Broken
        /\ selector # None => selector \in DOMAIN running.strategies
        /\ layout' = [version |-> IF selector = None THEN layout.version ELSE 2,
                      nodes |-> With(layout.nodes, s, nodes)]
        /\ UNCHANGED <<document, overlay, secrets, running, key, stale, byHand>>

-----------------------------------------------------------------------------
(* Providers and models: operations on a candidate, its document and its        *)
(* secrets, with the credentials it changed and who asked for it.               *)

\* credential_update and env_update: a cleared credential leaves both files.
WithSecret(values, ref, action, value) ==
    CASE action = "keep" -> values
      [] action = "set" -> [values EXCEPT ![ref].file = value]
      [] action = "clear" -> [values EXCEPT ![ref] = [file |-> None, env |-> None]]

\* A change of a credential that another entry uses is refused.
ChangeSecret(candidate, ref, owner, action, value) ==
    IF action = "keep" THEN candidate
    ELSE IF ref = None THEN Broken
    ELSE IF Shared(candidate.document, ref, owner) THEN Broken
    ELSE [candidate EXCEPT !.secrets = WithSecret(@, ref, action, value),
                           !.changes = @ \cup {<<ref, owner>>}]

\* upsert of an LLM provider: its key, its entry, then the credentials its
\* parameters are bound to.
UpsertProvider(candidate, operation) ==
    LET p == operation.id
        known == p \in DOMAIN candidate.document.providers
        old == candidate.document.providers[p]
        entry == [operation.entry EXCEPT
                     !.bindings = IF @ # None THEN @
                                  ELSE IF known THEN old.bindings ELSE <<>>]
        ref == IF entry.key = None /\ operation.action = "clear" /\ known
               THEN old.key ELSE entry.key
        keyed == ChangeSecret(candidate, ref, <<"llm", p>>, operation.action,
                              operation.value)
        saved == [keyed EXCEPT !.document.providers = With(@, p, entry)]
    IN  IF keyed = Broken THEN Broken
        ELSE IF operation.parameter = None THEN saved
        ELSE IF operation.parameter \notin DOMAIN entry.bindings THEN Broken
        ELSE ChangeSecret(saved, entry.bindings[operation.parameter],
                          <<"llm", p, operation.parameter>>,
                          operation.parameterAction, operation.value)

\* upsert of a decision provider.
UpsertDecision(candidate, operation) ==
    LET d == operation.id
        keyed == ChangeSecret(candidate, operation.entry.key, <<"decision", d>>,
                              operation.action, operation.value)
    IN  IF keyed = Broken THEN Broken
        ELSE [keyed EXCEPT !.document.decision.providers =
                              With(@, d, operation.entry)]

DeleteProvider(candidate, operation) ==
    LET models == candidate.document.models
    IN  IF \/ operation.id \notin DOMAIN candidate.document.providers
           \/ \E m \in DOMAIN models : models[m].provider = operation.id
        THEN Broken
        ELSE [candidate EXCEPT !.document.providers =
                                  Restrict(@, DOMAIN @ \ {operation.id})]

DeleteDecision(candidate, operation) ==
    IF operation.id \notin DOMAIN candidate.document.decision.providers THEN Broken
    ELSE [candidate EXCEPT !.document.decision.providers =
                              Restrict(@, DOMAIN @ \ {operation.id})]

\* import: models that are already there are skipped.
ImportModel(candidate, operation) ==
    IF operation.entry.provider \notin DOMAIN candidate.document.providers
    THEN Broken
    ELSE [candidate EXCEPT !.document.models =
                              @ @@ (operation.id :> operation.entry)]

\* update_model: a field the overlay owns keeps the baseline's value, whatever
\* the request says, and so does one it leaves out.
UpdateModel(candidate, operation) ==
    LET models == candidate.document.models
        m == operation.id
        kept == operation.tags = None \/ m \in DOMAIN overlay.tags
    IN  IF m \notin DOMAIN models THEN Broken
        ELSE [candidate EXCEPT !.document.models[m] =
                 [@ EXCEPT !.enabled = operation.enabled,
                           !.tags = IF kept THEN @ ELSE operation.tags]]

Perform(candidate, operation) ==
    IF candidate = Broken THEN Broken
    ELSE CASE operation.kind = "upsert_llm" -> UpsertProvider(candidate, operation)
           [] operation.kind = "upsert_decision" ->
                 UpsertDecision(candidate, operation)
           [] operation.kind = "delete_llm" -> DeleteProvider(candidate, operation)
           [] operation.kind = "delete_decision" ->
                 DeleteDecision(candidate, operation)
           [] operation.kind = "import" -> ImportModel(candidate, operation)
           [] operation.kind = "update_model" -> UpdateModel(candidate, operation)
           [] operation.kind = "default_model" ->
                 [candidate EXCEPT !.document.defaultModel = operation.model]
           [] operation.kind = "decision_enabled" ->
                 [candidate EXCEPT !.document.decision.enabled = operation.enabled]

Candidate(operations) ==
    FoldLeft(Perform, [document |-> document, secrets |-> secrets, changes |-> {}],
             operations)

\* What the operations of one request add up to: nobody else may have come to
\* use a credential they changed, a model made the default must be enabled, and
\* decisions are enabled only with a key for one of their providers.
\* Mutant: who uses a credential is asked only when it changes.
CommandHoldsAtOnce(candidate, operations, catalog) ==
    \A i \in DOMAIN operations :
        /\ operations[i].kind = "default_model" /\ operations[i].model # None =>
              /\ operations[i].model \in DOMAIN catalog.models
              /\ catalog.models[operations[i].model].enabled
        /\ (/\ operations[i].kind = "decision_enabled" /\ operations[i].enabled
            /\ catalog.decision.enabled) =>
              \E d \in DOMAIN catalog.decision.keys :
                  catalog.decision.keys[d] # None

CommandHolds(candidate, operations, catalog) ==
    /\ \A change \in candidate.changes :
          ~Shared(candidate.document, change[1], change[2])
    /\ \A i \in DOMAIN operations :
          /\ operations[i].kind = "default_model" /\ operations[i].model # None =>
                /\ operations[i].model \in DOMAIN catalog.models
                /\ catalog.models[operations[i].model].enabled
          /\ (/\ operations[i].kind = "decision_enabled" /\ operations[i].enabled
              /\ catalog.decision.enabled) =>
                \E d \in DOMAIN catalog.decision.keys :
                    catalog.decision.keys[d] # None

\* PUT /v1/provider-configuration: ProviderConfiguration.command with apply.
Command(operations) ==
    LET candidate == Candidate(operations)
        catalog == Effective(candidate.document, overlay, candidate.secrets)
    IN  /\ WriteAllowed /\ OverlayReadable
        /\ candidate # Broken
        /\ CatalogFromDocument(candidate.document, candidate.secrets) # Broken
        /\ Prepared(catalog)
        /\ CommandHolds(candidate, operations, catalog)
        /\ document' = candidate.document
        /\ secrets' = candidate.secrets
        /\ Loaded(catalog)
        /\ UNCHANGED <<overlay, layout, byHand>>

-----------------------------------------------------------------------------
(* The key of the gateway. *)

\* gateway_credential: a reference of its own, and a value in credentials.json.
GatewayKeyRef ==
    IF document.gateway.key = None THEN GatewayRef ELSE document.gateway.key

WithGatewayKey ==
    [document EXCEPT !.gateway.key = GatewayKeyRef]

SetGatewayKey(value) ==
    LET saved == WithSecret(secrets, GatewayKeyRef, "set", value)
        catalog == Effective(WithGatewayKey, overlay, saved)
    IN  /\ OverlayReadable
        /\ ~Shared(document, GatewayKeyRef, <<"gateway">>)
        /\ CatalogFromDocument(WithGatewayKey, saved) # Broken
        /\ catalog # Broken /\ RegistryBuilds(catalog)
        /\ document' = WithGatewayKey
        /\ secrets' = saved
        /\ UNCHANGED <<overlay, layout, byHand>>

\* PUT /v1/gateway-credential: with the key, or from the machine itself while
\* there is none.
GatewayCredential(value) ==
    /\ running # Off /\ Budget
    /\ SetGatewayKey(value)
    /\ Effective(WithGatewayKey, overlay, secrets').storage = running.storage
    /\ Loaded(Effective(WithGatewayKey, overlay, secrets'))

\* ManagementSetup._catalog: a reference whose key is lost does not count.
SetupCatalog ==
    Effective(IF GatewayParses(document.gateway, secrets) THEN document
              ELSE [document EXCEPT !.gateway.key = None], overlay, secrets)

\* ManagementSetup.configure: the first key, under a name nothing else uses.
SetupAllowed ==
    /\ OverlayReadable
    /\ SetupCatalog # Broken
    /\ SetupCatalog.gateway = None
    /\ document.gateway.key = None =>
          /\ Resolve(secrets, GatewayRef) = None
          /\ ~Used(document, GatewayRef)

\* POST /v1/setup while the gateway has no key.
SetupKey(value) == key = None /\ SetupAllowed /\ GatewayCredential(value)

-----------------------------------------------------------------------------
(* The command line: it writes the files, and a gateway that runs does not      *)
(* learn of it.                                                                *)

Untold ==
    /\ stale' = IF running = Off THEN {} ELSE {"catalog", "settings"}
    /\ UNCHANGED <<running, key>>

\* jev setup.
CommandLineSetup(value) ==
    /\ SetupAllowed /\ Budget
    /\ SetGatewayKey(value)
    /\ Untold

\* add_provider.
AddProvider(addition) ==
    LET candidate ==
            [document EXCEPT
                !.providers = With(@, addition.id, addition.entry),
                !.models = addition.models @@ @]
        saved == IF addition.value = None THEN secrets
                 ELSE WithSecret(secrets, addition.entry.key, "set", addition.value)
        catalog == Effective(candidate, overlay, saved)
    IN  /\ Budget /\ OverlayReadable
        /\ addition.id \notin DOMAIN document.providers
        /\ addition.value # None =>
              /\ addition.entry.key # None
              /\ ~Used(document, addition.entry.key)
        /\ DOMAIN addition.models \cap DOMAIN document.models = {}
        /\ CatalogFromDocument(candidate, saved) # Broken
        /\ catalog # Broken /\ RegistryBuilds(catalog)
        /\ document' = candidate
        /\ secrets' = saved
        /\ Untold
        /\ UNCHANGED <<overlay, layout, byHand>>

\* remove_provider with --force: its models leave the workflows, the tags and
\* the layouts with it.
RemoveProvider(p) ==
    LET owned == {m \in DOMAIN document.models : document.models[m].provider = p}
        candidate == [document EXCEPT
                         !.providers = Restrict(@, DOMAIN @ \ {p}),
                         !.models = Restrict(@, DOMAIN @ \ owned)]
        reconciled == Reconcile(overlay, owned)
        catalog == Effective(candidate, reconciled, secrets)
    IN  /\ Budget /\ OverlayReadable
        /\ p \in DOMAIN document.providers
        /\ document.defaultModel \notin owned
        /\ layout # Broken
        /\ CatalogFromDocument(candidate, secrets) # Broken
        /\ catalog # Broken /\ RegistryBuilds(catalog)
        /\ document' = candidate
        /\ overlay' = reconciled
        /\ layout' = [layout EXCEPT !.nodes =
                         [s \in DOMAIN @ |-> @[s] \ owned]]
        /\ Untold
        /\ UNCHANGED <<secrets, byHand>>

\* provider_secret_name: an id that is not configured may name a preset.
SecretName(p) ==
    IF p \in DOMAIN document.providers THEN document.providers[p].key
    ELSE IF p \in DOMAIN PresetKey THEN PresetKey[p] ELSE None

\* login and logout.
SaveSecret(p, action, value) ==
    /\ Budget
    /\ SecretName(p) # None
    /\ ~Shared(document, SecretName(p), <<"llm", p>>)
    /\ secrets' = WithSecret(secrets, SecretName(p), action, value)
    /\ Untold
    /\ UNCHANGED <<document, overlay, layout, byHand>>

Login(p, value) == SaveSecret(p, "set", value)
Logout(p) == SaveSecret(p, "clear", None)

\* The operator's editor: one of the files, and nothing is checked.
HandEdit ==
    /\ Budget
    /\ \/ document' \in HandEdits.document /\ UNCHANGED <<overlay, layout, secrets>>
       \/ overlay' \in HandEdits.overlay /\ UNCHANGED <<document, layout, secrets>>
       \/ layout' \in HandEdits.layout /\ UNCHANGED <<document, overlay, secrets>>
       \/ secrets' \in HandEdits.secrets /\ UNCHANGED <<document, overlay, layout>>
    /\ byHand' = TRUE
    /\ Untold

-----------------------------------------------------------------------------
Init ==
    /\ document = First.document /\ overlay = First.overlay
    /\ layout = First.layout /\ secrets = First.secrets
    /\ running = Off /\ key = None /\ stale = {}
    /\ byHand = FALSE /\ edits = 0

RoutingEdit ==
    \/ \E s \in Names :
          \/ \E body \in Bodies : PutWorkflow(s, body)
          \/ \E rules \in Rules : PutRules(s, rules) \/ PutWorkflowRules(s, rules)
          \/ CreateStrategy(s) \/ DeleteStrategy(s) \/ ResetStrategy(s)
    \/ ResetRouting

Next ==
    \/ Start \/ Stop \/ Reload
    \/ RoutingEdit
    \/ \E s \in Names \cup {None}, n \in Nodes : WriteLayout(s, n)
    \/ \E operations \in Commands : Command(operations)
    \/ \E value \in Secrets :
          \/ GatewayCredential(value) \/ SetupKey(value) \/ CommandLineSetup(value)
          \/ \E p \in DOMAIN document.providers \cup DOMAIN PresetKey : Login(p, value)
    \/ \E p \in DOMAIN document.providers \cup DOMAIN PresetKey : Logout(p)
    \/ \E p \in DOMAIN document.providers : RemoveProvider(p)
    \/ \E addition \in Additions : AddProvider(addition)
    \/ HandEdit

Spec == Init /\ [][Next]_vars

-----------------------------------------------------------------------------
(* Properties. *)

\* What each part of the state may be.
TypeOK ==
    /\ OverlayIsShaped(ReadOverlay(overlay))
    /\ layout # Broken => layout.version \in {1, 2}
    /\ layout # Broken /\ layout.version = 1 => DOMAIN layout.nodes \subseteq {Legacy}
    /\ \A ref \in DOMAIN secrets :
          {secrets[ref].file, secrets[ref].env} \subseteq Secrets \cup {None}
    /\ stale \subseteq {"catalog", "settings"}
    /\ running = Off => key = None /\ stale = {}
    /\ edits \in 0..MaxEdits

\* A gateway that learned of every change runs what it would run after a
\* restart, and enforces the key of that configuration.
RunsWhatLoads ==
    /\ running # Off /\ "catalog" \notin stale =>
          running = Load(document, overlay, secrets)
    /\ running # Off /\ stale = {} => key = running.gateway

\* As long as nobody edits the files by hand, whatever the dashboard and the
\* command line write can be started from, with the overlay in force.
AlwaysLoads ==
    ~byHand =>
        LET catalog == Effective(document, overlay, secrets)
        IN  catalog # Broken /\ RegistryBuilds(catalog)

\* The models.json an overlay does not fit keeps the gateway in service: "An
\* obsolete overlay must not keep an otherwise valid baseline offline."
BaselineServes ==
    LET baseline == CatalogFromDocument(document, secrets)
    IN  baseline # Broken /\ RegistryBuilds(baseline) =>
            RegistryBuilds(Load(document, overlay, secrets))

\* The models a strategy may use at all. Its selection bounds the pools, and
\* beyond them the wider search, the global default, the last fallback and the
\* model a session stays with.
Allowed(catalog, s) ==
    LET selected == catalog.strategies[s].selected
    IN  IF selected = None THEN DOMAIN catalog.models ELSE selected

\* How a strategy routes: its rules, the pool of every label and what is beyond.
Routes(catalog, s) ==
    LET definition == catalog.strategies[s]
    IN  [kind |-> definition.kind, choices |-> definition.choices,
         decision |-> definition.decision,
         pools |-> [label \in DOMAIN definition.labels |-> Pool(catalog, s, label)],
         allowed |-> Allowed(catalog, s)]

\* The models the rules of a strategy lead to by themselves: the pools of the
\* labels they reach, and the global default if one of these is empty.
LedTo(catalog, s) ==
    LET pools == Routes(catalog, s).pools
        reached == Reached(catalog.strategies[s])
    IN  (UNION {pools[label] : label \in reached})
        \cup {m \in {catalog.defaultModel} \ {None} :
                 \E label \in reached : pools[label] = {}}

\* Written out as a workflow, a strategy that had selected nothing goes no
\* further than its rules lead.
RoutesNarrowed(s) ==
    LET led == LedTo(running, s)
    IN  Routes(running', s) =
            [Routes(running, s) EXCEPT
                !.allowed = led,
                !.pools = [label \in DOMAIN @ |-> @[label] \cap led]]

\* The first edit in terms of workflows writes every matrix out as one.
LeftAlone(s) ==
    IF /\ overlay.version # 2
       /\ running.strategies[s].kind = "decision_matrix"
       /\ running.strategies[s].selected = None
    THEN RoutesNarrowed(s)
    ELSE Routes(running', s) = Routes(running, s)

LayoutOf(saved, s) == IF s \in DOMAIN saved.nodes THEN saved.nodes[s] ELSE {}

EditsStrategy(s) ==
    \/ \E body \in Bodies : PutWorkflow(s, body)
    \/ \E rules \in Rules : PutWorkflowRules(s, rules)
    \/ CreateStrategy(s) \/ DeleteStrategy(s) \/ ResetStrategy(s)

\* An edit, creation, deletion or reset of one strategy leaves every other one
\* where it was: it exists, it keeps its layout, the models and the default it
\* shares with others stay, and it routes as before. The first such edit only
\* confines the others to the models their rules lead to; no pool a decision may
\* end in changes. A request of version 1 replaces the whole overlay instead: the
\* other strategies are those of models.json.
WritesStayLocal ==
    [][ \A s \in Names :
          /\ "catalog" \notin stale /\ EditsStrategy(s) =>
                /\ running'.models = running.models
                /\ running'.defaultModel = running.defaultModel
                /\ running'.decision = running.decision
                /\ \A other \in (DOMAIN running.strategies
                                   \cup DOMAIN running'.strategies) \ {s} :
                      /\ other \in DOMAIN running.strategies
                      /\ other \in DOMAIN running'.strategies
                      /\ LeftAlone(other)
                      /\ layout # Broken =>
                            LayoutOf(layout', other) = LayoutOf(layout, other)
          /\ (\E rules \in Rules : PutRules(s, rules)) =>
                /\ DOMAIN running'.strategies = DOMAIN document.strategies
                /\ \A other \in DOMAIN document.strategies \ {s} :
                      running'.strategies[other] =
                          PolicyFromDict(document.strategies[other],
                                         document.policy, document.default)
                /\ layout' = layout
      ]_vars

\* The entry an owner belongs to: a provider owns its key and its parameters.
Entry(owner) == IF Len(owner) = 1 THEN owner ELSE <<owner[1], owner[2]>>

\* No command changes a credential that, when the command is done, two entries
\* use: "Credential reference is shared; update each reference explicitly."
CredentialsIsolated ==
    [][ ~HandEdit =>
        \A ref \in DOMAIN secrets :
            secrets'[ref] # secrets[ref] =>
                Cardinality({Entry(use[1]) :
                    use \in {u \in Uses(document') : u[2] = ref}}) <= 1 ]_vars

=============================================================================
