# A TLA+ model of jev-gateway

jev-gateway is an OpenAI-compatible HTTP gateway. It routes each chat request to
a model by a strategy, calls the provider, streams the answer back, remembers
the conversation, records what it decided, and lets an operator change its
configuration from a dashboard and from a command line while it runs.

These modules model the parts where several threads, processes or failures meet.
Each is translated from the Python source; `PROJECT.json` maps every definition
to its lines.

## Inventory

| Part | State | Operations | What makes it correct |
|---|---|---|---|
| Session store (`sessions.py`) | sessions and pending intakes, each bounded by `max_sessions`; TTL | intake, copy, mutate with or without a factory, prune, reconfigure | bounded; expired sessions are not continued; an update is applied to the canonical session, not to a copy |
| Routing engine (`decision.py`) | active catalog, strategies, configuration hash, decision log | decide, record outcome, reload, publish a configuration | a decision is based on the session it replaces; late outcomes do no harm |
| Chat completion (`gateway.py`) | `reload_lock`; per request: activity token, stream flags, worker thread | admit and route, call the provider, stream, clean up | one outcome per attempt; success means delivered; resources released |
| Activity registry (`activity.py`) | requests in flight, a completeness flag | begin, mark, finish, snapshot | lists exactly what is in flight, or says that it cannot |
| Configuration transaction (`config_transaction.py`) | a file lock, a recovery file, the files | lock, replace, activate, roll back | all or nothing, whatever fails; never blocks without a reason |
| Provider configuration, overlay and strategy endpoints, CLI (`provider_config.py`, `gateway.py`, `routing_overlay.py`, `cli/`) | the files, keyed revisions, the running configuration | snapshot, command with a revision, overlay edit and reset, strategy creation, credentials | no lost update; the gateway runs what the files say |
| Evidence recorder (`records.py`) | a bounded queue, a writer thread, an SQLite database, a permanent error | submit, wait, run, prune, close | order kept; callers answered; rows of one request stay together; bounded |
| Continuations (`provider/base.py`, `records.py`) | per-session history, a loading flag, pending saves | hydrate, save, prune | nothing lost between load and save; nobody waits for ever |
| Strategies (`strategy/`) | none; they read a copy of the session | initial, continuation, escalation, hysteresis | only allowed switches; a capable model when there is one |
| Decision providers (`strategy/decision_provider/`) | none | ask providers in order | first usable answer; a fallback when none answers |
| Reasoning effort (`reasoning.py`) | none | inherit, derive, clamp on a ladder | the level of the route nearest to what was asked for |
| Metadata cache (`model_metadata.py`) | cached sources, last attempts, a fetch lock | look up, refresh | no entry past its lifetime; a stale answer says so |
| Process management (`cli/process.py`) | a PID file with a launch token | start, stop, restart, update, uninstall | what a command reports is so; no gateway runs unrecorded |
| Catalog and overlay (`catalog.py`, `routing_overlay.py`) | documents | parse, validate, merge, migrate, reconcile | what is written can be loaded; an edit of one strategy leaves the others alone |
| Credentials (`credentials.py`) | `credentials.json`, `.env`, the environment | resolve, set, clear | a shared credential is not changed through one of its users |
| Canvas layout (`canvas_layout.py`) | saved nodes of each strategy | write, drop | follows the strategies |
| Monitoring lists (`dashboard.py`, `records.py`) | none; signed cursors | page through sessions and requests, in memory and retained | what stays in its place is shown once |
| Discovery, dashboard summaries, logging, front end, scripts | files, pages | reading, display | see `PROJECT.json`, "components", for each one and its status |

Who talks to whom:

- A chat request runs in a worker thread of the web server. It holds
  `reload_lock` while it records its intake, routes and re-reads the session, and
  releases it before it calls the provider. Outcomes are recorded without it.
- Everything that changes the configuration inside the gateway takes
  `reload_lock`, then the file lock; the CLI, another process, takes the file lock
  only. Activation replaces the engine's catalog and, for provider commands and
  reloads, the gateway settings, the store's limits among them.
- Requests and activations submit records to the recorder's queue without
  waiting. Dashboard reads and `flush()` wait for the writer thread.
- A stream is read by worker threads, one `next()` at a time, and delivered by
  the event loop, which cleans up when it stops for whatever reason.

What is hard here: outcomes that arrive after their session changed; two clocks;
eviction, expiry and reloads between the steps of a decision; partial writes,
failed restorations and crashes around a recovery file; stale revisions; a queue
that is full or whose reader failed; cancellation while a thread is inside the
provider's iterator. `PROJECT.json`, "hazards", lists them line by line with the
property that would notice each going wrong.

## Modules

| Module | What it is |
|---|---|
| `SessionStore` | the session store and the two writers that feed it |
| `AtomicConfiguration` | abstract: what an update of the configuration promises |
| `ConfigTransaction` | the lock, journal, rollback and activation that implement it |
| `DurableLog` | abstract: what the recorder promises |
| `RecordWriter` | the queue, the writer thread, close and pruning that implement it |
| `StreamDelivery` | one upstream call and the delivery of its answer, with the activity registry |
| `ModelSelection` | pure: how a strategy picks a model for a label |
| `PolicyRouting` | the turns of one conversation, with the strategies that route them |
| `Catalog` | pure: how documents, overlay and credentials become a catalog, or do not |
| `Documents` | the files as documents, every edit of them, and the gateway that loads them |
| `Continuations` | the history the adapters share between requests of a conversation |
| `MetadataCache` | concurrent lookups of public documents about models |
| `GatewayProcess` | the commands around the gateway's process and its PID file |
| `ReasoningEffort` | the effort of a request, against a reference definition |
| `SessionPages` | a client that pages through the monitoring lists while the gateway goes on |
| `Services` | the last five, one at a time, for one run |
| `SessionStoreProofs`, `ConfigTransactionProofs`, `RecordWriterProofs`, `StreamDeliveryProofs`, `PolicyRoutingProofs`, `DocumentsProofs`, `ServicesProofs`, `ContinuationsProofs` | theorems, with proofs for TLAPS |
| `MC...` | values of the constants for TLC |

### SessionStore

The variables are the attributes of `MemorySessionStore`; a session keeps the
fields that eviction, expiry, switching and escalation read (`SessionState`), and
`slot` stands for the place of its key in the dict, which decides ties of `sorted`
in `_evict`. Each store method runs under the store's lock and is one step. A
request goes through `Intake`, `Snapshot`, `Decide`, `Persist`, `Fetch` under
`reloadLock` and then `RecordOutcome` without it; between its steps fall other
requests' outcomes, dashboard reads (`Inspect`, `DropExpired`), and time (`Tick`).
`Configure`, which the code calls under `reload_lock`, falls between requests.
What the strategy answers is left free, except that it reports the model of the
copy it read as the one it left: that is what every strategy of the repository
does. `ClockLag` is the difference between the engine's clock and the store's.

### ConfigTransaction

A file holds the update it was last written by. A writer is a dashboard
(`Clients`: snapshot, then a command with the snapshot's revision), a creation or
deletion of a strategy, an edit or reset of the overlay (one file, no recovery
file), or a CLI process. Every system call is an action with a failing
counterpart, and since `atomic_bytes` renames before it syncs the directory, a
write that fails may have happened. The gateway and the CLI crash anywhere; the
kernel drops their lock. `Repair` is the operator, who restores what the recovery
file holds: no code does it. The lock is one, though it is a nest of `reload_lock`, an
`RLock` and a file lock, always taken in this order: what `LockIsReleased` says is that
no failing step keeps it. `runtime` is the configuration that was activated last; when
that was a strategy or an overlay edit, only its catalog is, and `Documents` has what
of the settings is older (`stale`). `Load` activates both parts in one step. A revision is an HMAC of the files under a key of
the process, so `seen` holds the files themselves and is emptied by a crash.

`Effective` is the refinement mapping: what a file held before an update that is
still under way or was left half done, taken from the recovery file, or, for an
overlay edit, from the memory of its writer. `AppliesAtomically` says that with it
the module implements `AtomicConfiguration`: an update takes effect in one step
(the removal of the recovery file) or not at all, and a dashboard replaces
nothing but the configuration it was shown. An overlay edit has no recovery file:
a crash puts it into effect, which the abstract `Restart` allows.

### RecordWriter

Producers submit under the store's lock (`SubmitOrDrop`, `Call`); `Take`, `Run`,
`RunFails`, `Skip` and `End` are the writer thread; `Close`, `PutStop` and `Join`
are `close()`. The queue is bounded, a failure is permanent, every
`PruneInterval`-th write prunes in its own transaction. `Restart` ends the
process anywhere: what is committed stays (WAL, `synchronous=FULL`), the queue and
the count of writes do not. A pruning keeps the requests that were inserted last; the
code orders by `received_at` and then by `rowid`, which differs for requests that
arrive together or around a clock that is set back. `INSERT OR REPLACE` of a row that is there, and an
interpreter's own exit inside a job, are left out. `accepted` and `last` are history variables: with
them the module implements `DurableLog` (`KeepsOrder`).

### StreamDelivery

`pc` follows the route function and then the task of the event loop, `worker` the
thread that is queued for, or inside, `next_stream_body`. `Stop` is a disconnect, a
failed send or a cancellation, at any moment. `CloseBody` waits for
`stream_body_lock`. A generator that was never started runs none of its code when
it is closed, so its `finally` clause does not record an outcome. `delivered` is
as the code has it: the next ASGI layer took the frame. An exception that is no
`Exception` (`gateway.py:1821`) has no step of its own: it takes the request out of
the registry and goes on, records no outcome, and comes with the end of the process.

### ModelSelection and PolicyRouting

A selection is deterministic; `ModelSelection` writes it as a set of at most one
answer, the empty set being the `SetupIncompleteError` the code raises. So the
nested loops of `_select` become the first of eight attempts that has a candidate,
and `sorted` becomes the candidate that precedes all others. Costs and qualities
are integers, without the rounding to six digits.

`PolicyRouting` runs these operators over the session: a `Turn` is
`RoutingEngine.decide`, one step because decisions hold `reload_lock` (what falls
inside it is the subject of `SessionStore`); `RecordOutcome`, `Forget` (expiry or
eviction), `Reload` and `Tick` fall between turns. A client that names another
strategy per request has the effect of a reload: the session is shared. A request
carries its facts, the model it names, if any, its turn index, which the client
controls, and the reply each decision provider would give. The rules of a matrix
and the texts around them are reduced to the label and ordering rule they choose.
A session whose `defaulted` was never recorded cannot occur in one process.

`CapableWhenPossible` excepts one model, and the proof found why: when the context
or the output limit moves a session, its model is excluded from the selection, and
`_improves` compares windows and ceilings only. If that model was the only capable
one, the last relaxation finds a wider model that lacks what the request needs, and
the session moves there. The instance has such a pair of models (`small` writes
longer answers than `middle`, which sees pictures), so the exception is met.

### Catalog and Documents

`Catalog` says what a document means: `CatalogFromDocument` is the catalog or
`Broken`, with the checks of `catalog.py` that decide which of the two, and the
strategies as far as they route (labels, pools of models, matrix rules, mode);
`RegistryBuilds` is the registry's additional demand. `MergeOverlay`,
`MigrateOverlay` and `Reconcile` are the functions of `routing_overlay.py`, for
overlays of both versions, and `Resolve` is the precedence of the three places a
credential may be in. Prices, limits, transports and metadata are reduced to
whether they parse.

The variables of `Documents` are the four files and what the gateway runs. Each
action is one endpoint, dashboard command or command of the CLI from its checks to
the activation, in one step: what may happen inside it is the subject of
`ConfigTransaction`. `HandEdit` is an operator with an editor, and the hand-edited
files include unreadable ones, an overlay that fits no baseline, and credentials
that disappear. `stale` says what of the gateway is older than the files because
somebody else wrote them: the CLI and the editor do not tell the gateway. Without a
gateway `running` is `Off`; `Ids` are the model ids a document may name. What
documents, overlays, layouts and requests look like (`IsDocument`, `IsOverlay`,
`IsLayout`, `IsOperation`) is assumed of the constants that stand for them, and
nothing more: a document need not parse.

The two modules leave `ConfigTransaction`'s view of a file, the update that wrote
it, as it is: one says that updates are all or nothing, the other what they write.

### Continuations

One conversation, the object the store holds for it, and its `adapter_state`. The
first request that needs the history loads it through the recorder's queue while
others wait on the condition; a response that finishes during the load parks its
record in `pending`. `Recreate` is an expiry or eviction between a request's
decision and its end, after which a new object hydrates while the old one is still
saved to. `RunFails` is a failed writer, `PruneSession` the write of another
conversation that removes this one from disk. `told`, `accepted` and `known` are
histories: what was saved, what the recorder has taken and not lost, and what
each object was ever given. `RemembersTurns` says in two definitions what the
code computes: `Newest`, that a list has the newest of some turns in their order and
leaves one out only when it is full; and `Pairs`, that replayed messages and
records are paired in order, each with its equal, newest with newest, and as many
as possible. The code counts occurrences from the end instead (`Matched`).

### MetadataCache

A reader is one call of `_source`. It reads the clock before the lock, so an entry
may be younger than the lookup that answers with it. The source answers with its
document or with "not modified" for the validator of the entry; `published`
changes at any time. An answer has the entry and whether it is called stale.
A source does not return to a version it has left: the code keeps the old
validator when a response carries none, and would then call the wrong document
unmodified.

### GatewayProcess

Each read of the PID file, each look at the process and each signal is a step, and
between them processes end, PIDs are given out again (`ForeignStarts`, token 0) and
other commands run. A child that exited is a zombie, and keeps its PID, while the
command that launched it lives. `Crash` is a command broken off. A signalled
gateway may take any time, so `Timeout` is always possible. `jev start --foreground`
launches a gateway without a PID file and without a token in its command line
(`cli/main.py:208`): to everything modelled here it is one more foreign process, and
`GatewaysAreRecorded` is about gateways in the background. Writing the PID file and
putting it in place is one step, and a `SIGKILL` is obeyed at once. `raced` and
`abandoned` are histories that say where the code makes no promise (below).

### ReasoningEffort

Levels are numbers in the order of `EFFORT_LADDER`. The code walks over maps and
ladders; the property is written without them: `Asked` is the first of four maps
that says anything of a label, and `IsNearest` says of two levels which is the
better one.

### SessionPages

The monitoring lists are read by cursor: a page has the entries below the key the
previous page ended with. `Entries` is what a list has to offer, `Below`, `First`
and `LastKey` are the cursor, and keys are compared as the code compares them:
whether there is a recorded request, then time, then a tie-break. A page takes two
steps, `Look` and `Read`, because memory and database, or two jobs of the
recorder, are read one after the other; either may find the recorder unavailable.
Between any two steps requests are recorded and pruned, sessions change and go, and
the process restarts, which invalidates the cursor. The documents call paging
best-effort; `PagesAreComplete` says what is left of it: entries that stay where
they are are shown exactly once, and no request twice; nor a recorded session, unless
all its requests were pruned in between (`emptied`): the next one may be dated
before them, and bring the session back ahead of the cursor. If the
recorder refuses one page of a walk in the middle, the list of sessions in memory
changes to another order for that page, and neither holds; the page says so in
`evidence_available`.

### Services

The last five modules share no state with each other (`SessionPages` only reads what
`SessionStore` and `RecordWriter` model in detail).
`Services` instantiates all five; the variable `part` says which of them a
behaviour is one of, and the variables of the others are `None`. So one run
checks each completely, and nothing is multiplied.

## Runs

| Run | Asks | States | Result |
|---|---|---|---|
| `session_store` | 3 requests, 2 conversations, 2 models, TTL and limit in 1..2, clock to 2 | 152 434 | holds |
| `session_ttl_clocks` | the same store with the clocks the gateway gives it | | idle sessions are continued (finding) |
| `config_transaction` | 2 dashboards, 1 strategy creation, 1 overlay edit, 1 CLI, 2 files, 2 updates, fair lock holders | 73 930 | holds |
| `config_recovery` | what leaves a recovery file behind | | a failed write of that file does (finding) |
| `record_writer` | 2 requests, a waiting caller, a queue of 2, pruning at every 3rd write, 1 restart, fair writer | 1 242 220 | holds |
| `record_drain` | a failure, then `close()` | | accepted jobs are dropped (finding) |
| `stream_delivery` | 2 requests, streamed or not, a registry for 1, fair threads | 635 204 | holds |
| `policy_routing` | 3 models, 2 labels, 3 kinds of request, 4 catalogs exchanged by reloads | 104 368 | holds |
| `policy_refusal` | one model | | a configured gateway refuses a request (finding) |
| `documents` | 3 strategies, 3 models, 3 providers, dashboard, CLI and editor, 3 writes | 24 323 | holds |
| `obsolete_overlay` | an overlay the baseline has outgrown | | the gateway does not start on the baseline (finding) |
| `services` | the five parts, each from all its initial states | 1 862 111 | holds |

The bounds are enough for the cases the properties are about. Three requests: one
whose outcome is late, one whose decision it meets, one whose intake falls
between. A limit below the number of conversations makes eviction happen, a clock
that passes the TTL makes expiry happen, two limits make reloads shrink the maps.
Two files make an update partial; a second update meets the work of the first,
its recovery file or its crash. A queue of two holds
jobs that could change places, and is shorter than what one request records, which
makes it overflow; an interval of three writes and one retained request
put a pruning in the middle of a request. A chunk of the provider may carry the
finish reason or not, and the frame that ends the body follows it; further
chunks repeat the cycle of worker and task. In `policy_routing` one tick passes the
cool-down, two turn numbers let the client go back and forth, `SwitchBound` lets a
session switch twice, and the four catalogs have each mode but `adaptive` (which
the code treats like `escalate`), each kind of strategy and each ordering rule, a
disabled model, labels by list and by tag, and an empty label with and without a
global default.

In `documents`, three writes are one that changes what the next one finds and a
third that meets both (create, edit, delete; a hand edit, a dashboard edit, a
reload). In `services`: three requests let one load, one save meanwhile and one
replay both; a limit of two drops the third record, two objects are one session
dropped and created again, a queue of two refuses. Two lookups and one source meet
at the fetch lock, and a clock to four passes a lifetime of three; an entry from
earlier saves two lookups. Two operators, two PIDs and two launches let a PID be
given to a gateway of another launch or to a stranger between any two steps. Four
levels have every ladder from empty to full, and the policies leave each field out
or not. Pages of one entry over two sessions and three requests, one of them kept,
let an entry move past the cursor in either direction, share its time with
another, and be pruned.

Symmetry is used between requests, conversations and models in `session_store`
and between operators and between PIDs in `services`: runs without liveness
properties.

Deadlock is checked where the model never stops. Sessions and records stop when
every request is served and the clock or the restarts reach their bound, documents
when their writes are used up.

`ClockLag` is 3 in `session_ttl_clocks`, more than the clock of the run reaches:
Unix time is larger than the monotonic time of any machine. In `session_store` it is
0, so that sessions expire between the steps of others: the store as its tests build
it, where more can happen. The theorems about the properties of this run hold for any
`ClockLag`. None of them says that idle sessions are not continued: in the gateway
they are.

### Fairness

- `record_writer`: the writer thread is an unconditional loop, and a thread inside
  `close()` goes on when there is room or the writer has ended. Producers and
  failures are not fair.
- `config_transaction`: whoever holds the lock runs straight on, each of its steps
  succeeding or failing. No writer is obliged to start.
- `stream_delivery`: the route's thread runs on (a call to a provider returns or
  times out); a worker inside `next()` gets a chunk, an end or an error (the
  provider client has a timeout); the event loop's task goes on or is stopped: a
  client takes its next frame or goes away. Nothing obliges a client to stay, nor
  a provider to finish well.

The other runs have safety properties only.

## Findings

Five statements of the repository's documents and comments are refuted by runs;
`PROJECT.json`, "findings", quotes them. In short: sessions never expire, because
the store and the engine use different clocks; a recovery file can block an
installation in which nothing was replaced; jobs accepted before `close()` are
dropped when they are behind a failure; a request is refused with
`setup_incomplete` when the only model of the gateway is its session's and lacks
what the request needs; an overlay of version 1 whose rules select labels that
`models.json` no longer has keeps an otherwise valid baseline offline, because the
strategies are built after the fallback was passed.

A run shows that such a thing happens; for four of the five a theorem says where
it stops. `RecoveryFilesExplained`: a recovery file a running gateway leaves without
having tried to restore says what the unchanged files say. `CloseDrains`: until a
job has failed nothing accepted is dropped. `RefusalsExplained`: a request is
refused otherwise than the documents say only where a session has to leave the only
usable model, or has to leave its model under the global default after a reload has
removed that default, although every label has models (seen in the proof: the run
shows the former). `OnlyOutgrownRulesFail`: nothing but those rules keeps a baseline
offline, unless an operator writes workflows for labels they do not have. For the fifth
there is nothing to add: in the gateway sessions never expire.

### Observations without a run

Seen while modelling; the modules behave so, no document says otherwise, or what
would refute one is outside them.

Sessions and decisions:

- A new session may be evicted by the very write that creates it, when another
  conversation's outcome is stamped between its clock read and its write.
  `DecisionLeavesSession` says that this is the only way.
- The snapshot of a configuration is dropped when the queue is full, and decisions
  refer to it all the same; its hash must be published after the activation and
  before the next decision (`decision.py:553`); `reload_catalog` replaces catalog,
  strategies and hash one after the other (`decision.py:529`).
- Budget pressure, meant as a downgrade, climbs to a higher label when the lower
  one has only the current model (`policy.py:275`).
- A request that is not streamed and whose capture cannot be prepared ends without
  an outcome (`gateway.py:2053`).
- The count of writes that leads to a pruning restarts with the process: a gateway
  restarted often enough never prunes (`records.py:1464`).

Configuration:

- The first edit in terms of workflows writes every other matrix out with a selection
  of its own, the models its reached labels have. The pools of these labels stay, but
  the selection also bounds the pools of the others, the wider search, the global
  default, the last fallback and the model a session stays with
  (`policy.py:121,367,416,444`); and a matrix of which all selected models are disabled
  can no longer be served by the default. `docs/http-api.md:254` says of such a write
  that it "replaces only that workflow and preserves every other strategy", while
  `docs/models-config.md:444` describes the migration. `WritesStayLocal` states exactly
  what is preserved and what is not (`RoutesNarrowed`).
- A routing edit reloads the catalog but not the settings, and activates with it
  whatever others have written into the files since.
- An obsolete overlay of version 2 cannot be repaired from the dashboard, and an
  unreadable one blocks every dashboard edit, its own reset included. `GET` of the
  routing configuration reports an obsolete overlay as applied.
- The check of `add` for a shared credential does not see the new provider's own
  two references.
- A change of the storage settings on disk makes every dashboard write fail until
  the gateway is restarted.
- A `PUT` of rules for one strategy into an overlay of version 1 for another one
  replaces that overlay: the other strategy has the rules of `models.json` again
  (the second half of `WritesStayLocal`).

Services:

- A continuation that is saved through a session object the store has dropped is
  missing from the memory of the object that replaced it, if that was hydrated
  before the write; it is on disk.
- The parking of saves during a load is not reachable through the gateway today:
  a capture hydrates before it can save.
- Two concurrent starts leave a gateway that no PID file names, as does a stop
  whose `unlink` comes after a newer start's record: these are `raced`. A `SIGTERM`
  may reach a process that was given the PID between the last check and the signal.
- `restart` stops the gateway before the configuration is validated, so a broken
  file turns a restart into a stop.

## Proofs

TLC checks the instances above; TLAPS proves the following for every value of the
constants, from the assumptions named in the modules (the bounds are numbers, the
limits positive, the sentinels distinct from what they stand beside).

`SessionStoreProofs`: `TypeOK`, `WithinLimits`, `IntakeBookkeeping`,
`SwitchLeavesCurrentRoute`, `NoLostUpdate`, `DecisionLeavesSession`, and
`OnlyDecisionsCreate`, which no run repeats. The invariant adds to the types
that the keys of the maps are finite sets, that the two intake maps have one
domain, that sequence numbers are below the counter (so a new intake never
repeats one), and, for switches, that only the holder of `reloadLock` is between
intake and fetch and that its copy agrees with the session's route when that
session is still there. `WithinLimits` rests on a lemma about `Surplus`: giving up
the excess leaves at most the limit. `DecisionLeavesSession` rests on two more: what
`Surplus` gives up is less recent than what stays, and no two sessions have one
`slot`, so that a session which is overtaken by nobody is not given up.

`ConfigTransactionProofs`: `TypeOK`, `AppliesAtomically`, `RuntimeFollowsDisk`. The
invariant says who may be active (only the holder of the lock), what the recovery
file contains at each step of an update, which files have the new content and
which the old, and which configuration the gateway runs. The refinement is proved
action by action: every step but the one that commits leaves `Effective`
unchanged, and that one changes exactly the files of the update.
`RecoveryFilesExplained` goes through the steps that end an update: those that
leave a recovery file follow an attempt to restore, or the failure to write it, when
nothing else has been touched.

`RecordWriterProofs`: `TypeOK`, `EvidenceBounded`, `EvidenceStaysTogether`,
`KeepsOrder`. The invariant says that the last job is behind all others and nothing
follows it, that until a failure what was accepted and not committed is the job the
thread holds and then the queue, in that order, that a caller who waits has exactly
one job in front of the writer, and that a queued decision has its configuration's
hash. From it every step is a step of `DurableLog` or a stutter. `EvidenceBounded`
adds an account: between two prunings a write adds at most one request or one
orphan. `CloseDrains` is read off that account of what was accepted: the thread ends
with the last job, and behind it and in front of it nothing is left.

`StreamDeliveryProofs`: `TypeOK`, `OneOutcome`, `ClosedAfterRead`,
`SuccessIsDelivered`, `RegistryIsTrue`. A request's state is written by its own
steps and only the registry is shared, so the invariant is a predicate of each
request, what the registry says of it, and the registry's bound; each action has a
lemma for the request it serves, and one lemma covers all the others.

`PolicyRoutingProofs`: all six properties of its run. Selection only returns usable
models and labels of the policy; a lemma carries this through every branch of the
strategies and says what an answer that leaves the session's model looks like: which
reasons it may have, and that one of an outcome passed hysteresis.
`EscalationsDamped` is about a history of switches by outcomes, the code keeps one
counter and one time for all switches; the invariant that connects them says that
there are at most as many of the former as the counter says, and that the last of
them is not later than the stamp. `RelaxesLast` and `CapableWhenPossible` rest on
one lemma about `Select`: at the step a candidate meets, the widened pool holds it,
so the first attempt that finds anybody is no later; a second lemma carries it
through the answers, where an incapable model is only kept after the selection had
its turn. `RefusalsExplained` asks when there is no answer: the last relaxation
accepts everybody, and the order of a pool has a first (`LeastOfOrder`,
`SomebodyFirst`: the scores are numbers, and places in a list are distinct), so a
selection finds nothing only when everybody is excluded or the missing global
default decides (`SelectionFinds`).

`DocumentsProofs`: all five properties of its run. The invariant says what the
files look like, that what of the gateway is not stale is what a restart would
load, and that what was not edited by hand can be loaded. A writer validates the
documents it is about to write, and `Load` of what it wrote is what it validated; no
overlay and no operation on providers touches the gateway's section, so the key
stays right when only the catalog is reloaded. `CredentialsIsolated` follows from
what a command checks before it, for the references it keeps, and after it, for
those it adds (who used the credential in between is not asked): a change is recorded with its reference, and nobody else may hold
that one. `WritesStayLocal` is about the first edit above all, which writes every
matrix out as a workflow: what it selects is what its rules led to
(`ReferencedIsLedTo`), and a route cut to that has the part of its pool that is in it
(`FrozenRoutes`), which is all of it for the labels that are reached and for a
matrix that had a selection before. A workflow that is merged again is itself; what
is no matrix is parsed from the same section; models and default come from
`models.json` and the overlay's tags, which migration keeps. A request of version 1
keeps nothing of the overlay (`RulesReplaceOverlay`).
`OnlyOutgrownRulesFail` has the hypothesis that workflows an operator edits into the
overlay by hand select labels they have; those the gateway writes were built before
(`BuiltWorkflows`), and a workflow is parsed from itself alone (`ParsedAlone`).

`ServicesProofs`: for each of the five parts its types, and all properties of
`services` but `RemembersTurns`, which has a module of its own. The parts share no variable, so a step keeps the
invariants of the parts it does not belong to.

- `AnswersHonestly`: a validator is of a version that was published, and one of the
  latest version comes with its document; so "not modified" confirms what is
  kept. One reader at a time fetches, and what each reader holds in its locals at
  each step was within its bounds when it read the clock.
- `GatewaysAreRecorded` and `ReportsAreReal`: a token belongs to one launch, a PID
  and a token that were written down belong together, and without a race the PID
  file says what a command has read until it is removed.
- `EffortFits`: the first accepted level of a walk up and then down the ladder is the
  nearest, and a loaded policy is the inherited one with the labels of the strategy.
- `PagesAreComplete`: a page and its cursor divide the entries of a list. An entry
  that stays where it is has not been shown while the walk is still to come to it,
  and once afterwards; a request that was shown is never ahead of the walk again.

`ContinuationsProofs`: `RemembersTurns`. The invariant (`RememberedInv`) says that a
request which loads is the only one that loads its object, and what it has read is
the newest of what was recorded before; that an object being loaded was given
nothing yet but what is parked for it; that the jobs in the queue are the last
turns that were told, in that order, each once; and that rows and memory, the
parked records added, are the newest of what they were given. That recent records
of newest ones are newest (`RecentIsNewest`, `NewestAppended`) carries it through
load, save and write. It leaves the replay: a message and the record it is given
have as many equals behind them, and this number falls by one from each equal to
the next, from the first one's down to zero (`AfterDecreases`, `AfterIsInjective`,
`AfterIsDense`, by counting finite sets). So equal numbers make pairs in order, and
only what has more equals behind it than there are on the other side is left alone
(`ReasoningIsTheirOwn`).

What is assumed of the constants is named where they are declared: numbers are
numbers, `None` and the other sentinels are distinct from what they stand beside
(`NoneIsNoJob` and parts of the others), catalogs, effort
policies and documents have the shape that parsing and validation guarantee
(`SelectionAssumption`, `RoutingAssumption`, `EffortAssumption`, `FilesAssumption`,
`RequestsAssumption`), the records on disk are within the limit, each there once and
none of a request of this process (`ContinuationAssumption`), and counts and pages are positive
(`MetadataAssumption`, `ProcessAssumption`, `ListAssumption`).
`FilesAssumption` also says that the first configuration can be started from, as
one that `init` or the dashboard wrote can.

Model-checked only: liveness (`LockIsReleased`, `CallersAnswered`, `CloseReturns`,
`StreamsSettle`), which is outside the prover's reach. Every safety property of a
passing run is proved.

## Not modelled

Whole parts: the projection of routing evidence (pure), model discovery (bounded
reads with address checks, no shared state), the dashboard's summaries and theme, logging,
provider presets (constants), the browser client, and the scripts around the
package manager.

Inside modelled parts: what an answer costs (a small charge stands for it); event
histories and the decision log; prices, positions of rules on the canvas, texts,
formats and pages; the interpolation of `.env`; how a message is put together from
stream chunks and hashed; what `lookup` makes of metadata documents; the network
below the response; the loss of directory entries at a power failure.
`derive_session_id` is taken as a function to keys. The reset of the registry at
shutdown is left out: nothing is served then. Reads of the database are jobs that
change nothing.

## Plan

In this order; each module brings its runs, its mutants and what it allows to be
proved.

1. Properties of one module that follow from theorems of two: a decision that is
   persisted names a model that was usable when the lock was taken
   (`SessionStore` with `PolicyRouting`).
2. `Gateway`: store, engine, configuration transaction and recorder composed, for
   the publication of configurations and the three assignments of `reload_catalog`.
3. The polling hooks of the dashboard (`useRouteActivity.ts`,
   `useMonitoringData.ts`): generations and aborts against answers out of order.
