------------------------- MODULE ConfigTransaction -------------------------
(***************************************************************************)
(* How the gateway and its CLI change the configuration files: the lock,   *)
(* the recovery journal and the rollback of                                *)
(* jev_gateway/config_transaction.py, driven by the dashboard's provider   *)
(* commands (provider_config.py), by the creation and deletion of routing  *)
(* strategies and by overlay edits (gateway.py), and by the CLI            *)
(* (cli/providers.py, cli/secrets.py).                                     *)
(*                                                                         *)
(* One file is written at a time and every system call may fail or be the  *)
(* last one before a crash. A file is renamed into place before the        *)
(* directory is synced, so a write that fails may have happened.           *)
(***************************************************************************)
EXTENDS Integers, FiniteSets

CONSTANTS
    Files,        \* the configuration files
    Tracked,      \* those a revision covers
    OverlayFile,  \* the one an overlay edit replaces
    Clients,      \* dashboards: snapshot, then a command with its revision
    Strategies,   \* requests that create or delete a routing strategy
    Overlays,     \* requests that edit or reset the routing overlay
    Clis,         \* CLI processes
    MaxUpdates,   \* bound of a run: how many updates are started
    None,         \* nobody
    Down, Torn    \* the gateway is not running; it is half reconfigured

Others == Strategies \cup Overlays \cup Clis
Writers == Clients \cup Others
Gateway == Clients \cup Strategies \cup Overlays

\* What a file holds: the update it was last written by.
Contents == [by: Writers \cup {None}, n: 0..MaxUpdates]
Configs == [Files -> Contents]

ASSUME ConstantsAssumption ==
    /\ Tracked \subseteq Files /\ OverlayFile \in Files
    /\ MaxUpdates \in Nat
    /\ None \notin Writers
    /\ Clients \cap Others = {}
    /\ Clis \cap Gateway = {}
    /\ Overlays \cap Strategies = {}
    /\ Down # Torn
    /\ Down \notin Configs /\ Torn \notin Configs

VARIABLES
    files,    \* the files on disk
    journal,  \* .provider-configuration.recovery: file -> previous content,
              \* with an empty domain while there is no such file
    lock,     \* holder of .provider-configuration.lock, or None
    runtime,  \* the configuration the gateway has active
    op,       \* what each writer is doing
    seen,     \* the tracked files in a client's latest snapshot, or {}
    updates   \* how many updates were started

vars == <<files, journal, lock, runtime, op, seen, updates>>

Part(c, fs) == [f \in fs |-> c[f]]

NoFiles == [f \in {} |-> None]

Steps == {"idle", "read", "journal", "write", "commit", "restore", "release",
          "replace", "reload", "undo"}

Partial == UNION {[fs -> Contents] : fs \in SUBSET Files}

Operation ==
    [pc: Steps,
     old: Partial,                     \* what the files of the update held
     todo: SUBSET Files,               \* files still to write or restore
     content: Contents,
     failed: BOOLEAN,                  \* some restoration failed
     before: Configs \cup {Down, Torn}, \* the runtime when the update began
     copy: Partial]                    \* what a snapshot has read so far

Idle == [pc |-> "idle", old |-> NoFiles, todo |-> {},
         content |-> [by |-> None, n |-> 0], failed |-> FALSE, before |-> Down,
         copy |-> NoFiles]

Init ==
    /\ files = [f \in Files |-> [by |-> None, n |-> 0]]
    /\ journal = NoFiles
    /\ lock = None
    /\ runtime = files
    /\ op = [w \in Writers |-> Idle]
    /\ seen = [c \in Clients |-> {}]
    /\ updates = 0

-----------------------------------------------------------------------------
(* Locking and reading. *)

\* configuration_read_lock: nobody holds the lock and no recovery file exists.
Readable == lock = None /\ DOMAIN journal = {}

Running(w) == w \in Gateway => runtime # Down

Release(w) ==
    /\ lock' = None
    /\ op' = [op EXCEPT ![w] = Idle]

\* A dashboard asks for the provider configuration.
BeginRead(c) ==
    /\ Readable /\ Running(c)
    /\ lock' = c
    /\ op' = [op EXCEPT ![c] = [Idle EXCEPT !.pc = "read"]]
    /\ UNCHANGED <<files, journal, runtime, seen, updates>>

ReadFile(c, f) ==
    /\ op[c].pc = "read"
    /\ f \in Tracked \ DOMAIN op[c].copy
    /\ op' = [op EXCEPT
                ![c].copy = [g \in DOMAIN @ \cup {f} |->
                                IF g = f THEN files[f] ELSE @[g]]]
    /\ UNCHANGED <<files, journal, lock, runtime, seen, updates>>

\* Variant: a snapshot that is not complete.
EndReadEarly(c) ==
    /\ op[c].pc = "read"
    /\ seen' = [seen EXCEPT ![c] = {op[c].copy}]
    /\ Release(c)
    /\ UNCHANGED <<files, journal, runtime, updates>>

\* The snapshot is complete: the client learns its revision.
EndRead(c) ==
    /\ op[c].pc = "read"
    /\ DOMAIN op[c].copy = Tracked
    /\ seen' = [seen EXCEPT ![c] = {op[c].copy}]
    /\ Release(c)
    /\ UNCHANGED <<files, journal, runtime, updates>>

-----------------------------------------------------------------------------
(* replace_configuration. *)

Touches(w) == IF w \in Overlays THEN {{OverlayFile}} ELSE (SUBSET Files) \ {{}}

\* Variant: the revision a dashboard states is ignored.
BeginUnchecked(w, fs) ==
    /\ Readable /\ Running(w)
    /\ fs \in Touches(w)
    /\ updates < MaxUpdates
    /\ updates' = updates + 1
    /\ lock' = w
    /\ op' = [op EXCEPT
                ![w] = [Idle EXCEPT
                          !.pc = IF w \in Overlays THEN "replace" ELSE "journal",
                          !.old = Part(files, fs), !.todo = fs,
                          !.content = [by |-> w, n |-> updates + 1],
                          !.before = runtime]]
    /\ UNCHANGED <<files, journal, runtime, seen>>

\* An update takes the lock. A dashboard's is refused unless the revision it
\* states is that of the files on disk.
Begin(w, fs) ==
    /\ Readable /\ Running(w)
    /\ fs \in Touches(w)
    /\ w \in Clients => seen[w] = {Part(files, Tracked)}
    /\ updates < MaxUpdates
    /\ updates' = updates + 1
    /\ lock' = w
    /\ op' = [op EXCEPT
                ![w] = [Idle EXCEPT
                          !.pc = IF w \in Overlays THEN "replace" ELSE "journal",
                          !.old = Part(files, fs), !.todo = fs,
                          !.content = [by |-> w, n |-> updates + 1],
                          !.before = runtime]]
    /\ UNCHANGED <<files, journal, runtime, seen>>

\* Write the recovery file before any other.
WriteJournal(w) ==
    /\ op[w].pc = "journal"
    /\ journal' = op[w].old
    /\ op' = [op EXCEPT ![w].pc = "write"]
    /\ UNCHANGED <<files, lock, runtime, seen, updates>>

\* Writing the recovery file fails, possibly after it is in place. The error
\* leaves the function from outside its try block.
JournalFails(w) ==
    /\ op[w].pc = "journal"
    /\ journal' \in {journal, op[w].old}
    /\ Release(w)
    /\ UNCHANGED <<files, runtime, seen, updates>>

WriteFile(w, f) ==
    /\ op[w].pc = "write" /\ f \in op[w].todo
    /\ files' = [files EXCEPT ![f] = op[w].content]
    /\ op' = [op EXCEPT ![w].todo = @ \ {f}]
    /\ UNCHANGED <<journal, lock, runtime, seen, updates>>

Rollback(w) ==
    op' = [op EXCEPT ![w].pc = "restore", ![w].todo = DOMAIN op[w].old]

WriteFileFails(w, f) ==
    /\ op[w].pc = "write" /\ f \in op[w].todo
    /\ files' \in {files, [files EXCEPT ![f] = op[w].content]}
    /\ Rollback(w)
    /\ UNCHANGED <<journal, lock, runtime, seen, updates>>

\* A provider command activates the catalog and the settings, the others the
\* catalog only: what was half reconfigured may stay so. For these "runtime" stands
\* for the catalog that runs; which settings are older than it is in Documents.
Activated(w) == {files} \cup IF w \in Clients THEN {} ELSE {runtime} \cap {Torn}

\* Every file is replaced: the gateway activates them. The CLI has nothing to
\* activate.
Activate(w) ==
    /\ op[w].pc = "write" /\ op[w].todo = {}
    /\ runtime' \in IF w \in Gateway THEN Activated(w) ELSE {runtime}
    /\ op' = [op EXCEPT ![w].pc = "commit"]
    /\ UNCHANGED <<files, journal, lock, seen, updates>>

\* An activation in two parts may stop between them.
MaybeTorn(w) == {runtime} \cup IF w \in Clients THEN {Torn} ELSE {}

ActivateFails(w) ==
    /\ op[w].pc = "write" /\ op[w].todo = {}
    /\ w \in Gateway
    /\ runtime' \in MaybeTorn(w)
    /\ Rollback(w)
    /\ UNCHANGED <<files, journal, lock, seen, updates>>

\* Removing the recovery file is what puts the update into effect. A dashboard
\* is answered with the new snapshot before the lock is released.
Commit(w) ==
    /\ op[w].pc = "commit"
    /\ journal' = NoFiles
    /\ seen' = IF w \in Clients
               THEN [seen EXCEPT ![w] = {Part(files, Tracked)}]
               ELSE seen
    /\ Release(w)
    /\ UNCHANGED <<files, runtime, updates>>

CommitFails(w) ==
    /\ op[w].pc = "commit"
    /\ Rollback(w)
    /\ UNCHANGED <<files, journal, lock, runtime, seen, updates>>

RestoreFile(w, f) ==
    /\ op[w].pc = "restore" /\ f \in op[w].todo
    /\ files' = [files EXCEPT ![f] = op[w].old[f]]
    /\ op' = [op EXCEPT ![w].todo = @ \ {f}]
    /\ UNCHANGED <<journal, lock, runtime, seen, updates>>

\* The others are restored all the same.
RestoreFileFails(w, f) ==
    /\ op[w].pc = "restore" /\ f \in op[w].todo
    /\ files' \in {files, [files EXCEPT ![f] = op[w].old[f]]}
    /\ op' = [op EXCEPT ![w].todo = @ \ {f}, ![w].failed = TRUE]
    /\ UNCHANGED <<journal, lock, runtime, seen, updates>>

\* Variant: the rollback forgets the running gateway.
RestoreDiskOnly(w) ==
    /\ op[w].pc = "restore" /\ op[w].todo = {}
    /\ op' = [op EXCEPT ![w].pc = "release"]
    /\ UNCHANGED <<files, journal, lock, runtime, seen, updates>>

RestoreRuntime(w) ==
    /\ op[w].pc = "restore" /\ op[w].todo = {}
    /\ runtime' = IF w \in Gateway THEN op[w].before ELSE runtime
    /\ op' = [op EXCEPT ![w].pc = "release"]
    /\ UNCHANGED <<files, journal, lock, seen, updates>>

RestoreRuntimeFails(w) ==
    /\ op[w].pc = "restore" /\ op[w].todo = {}
    /\ w \in Gateway
    /\ runtime' \in MaybeTorn(w)
    /\ op' = [op EXCEPT ![w].pc = "release", ![w].failed = TRUE]
    /\ UNCHANGED <<files, journal, lock, seen, updates>>

\* The recovery file goes only if everything was restored.
Undone(w) ==
    /\ op[w].pc = "release" /\ ~op[w].failed
    /\ journal' = NoFiles
    /\ Release(w)
    /\ UNCHANGED <<files, runtime, seen, updates>>

\* Variant: an update that could not be undone keeps the lock.
KeepJournalLocked(w) ==
    /\ op[w].pc = "release"
    /\ op' = [op EXCEPT ![w] = Idle]
    /\ UNCHANGED <<files, journal, lock, runtime, seen, updates>>

\* It stays if something was not, or if it cannot be removed.
KeepJournal(w) ==
    /\ op[w].pc = "release"
    /\ Release(w)
    /\ UNCHANGED <<files, journal, runtime, seen, updates>>

-----------------------------------------------------------------------------
(* apply_routing_document and reset_routing_configuration: one file, so no *)
(* recovery file.                                                          *)

ReplaceOverlay(w) ==
    /\ op[w].pc = "replace"
    /\ files' = [files EXCEPT ![OverlayFile] = op[w].content]
    /\ op' = [op EXCEPT ![w].pc = "reload"]
    /\ UNCHANGED <<journal, lock, runtime, seen, updates>>

ReplaceOverlayFails(w) ==
    /\ op[w].pc = "replace"
    /\ op' = [op EXCEPT ![w].pc = "undo"]
    /\ UNCHANGED <<files, journal, lock, runtime, seen, updates>>

ReloadOverlay(w) ==
    /\ op[w].pc = "reload"
    /\ runtime' \in Activated(w)
    /\ Release(w)
    /\ UNCHANGED <<files, journal, seen, updates>>

ReloadOverlayFails(w) ==
    /\ op[w].pc = "reload"
    /\ op' = [op EXCEPT ![w].pc = "undo"]
    /\ UNCHANGED <<files, journal, lock, runtime, seen, updates>>

UndoOverlay(w) ==
    /\ op[w].pc = "undo"
    /\ files' = [files EXCEPT ![OverlayFile] = op[w].old[OverlayFile]]
    /\ runtime' = op[w].before
    /\ Release(w)
    /\ UNCHANGED <<journal, seen, updates>>

\* A rollback that fails is logged and nothing else.
UndoOverlayFails(w) ==
    /\ op[w].pc = "undo"
    /\ files' \in {files, [files EXCEPT ![OverlayFile] = op[w].old[OverlayFile]]}
    /\ Release(w)
    /\ UNCHANGED <<journal, runtime, seen, updates>>

-----------------------------------------------------------------------------
(* Crashes, start and reload. *)

\* The lock is an flock: the kernel drops it with the process. A revision is
\* keyed with a secret of the process, so none matches afterwards.
CrashGateway ==
    /\ runtime # Down
    /\ runtime' = Down
    /\ op' = [w \in Writers |-> IF w \in Gateway THEN Idle ELSE op[w]]
    /\ lock' = IF lock \in Gateway THEN None ELSE lock
    /\ seen' = [c \in Clients |-> {}]
    /\ UNCHANGED <<files, journal, updates>>

CrashCli(w) ==
    /\ w \in Clis /\ op[w].pc # "idle"
    /\ Release(w)
    /\ UNCHANGED <<files, journal, runtime, seen, updates>>

\* load_gateway_config at start and reload_locked while running, both parts of
\* what it activates in one step.
Load ==
    /\ Readable
    /\ runtime' = files
    /\ UNCHANGED <<files, journal, lock, op, seen, updates>>

\* The operator puts back what the recovery file holds and removes it.
Repair ==
    /\ lock = None /\ DOMAIN journal # {}
    /\ files' = [f \in Files |-> IF f \in DOMAIN journal THEN journal[f]
                                 ELSE files[f]]
    /\ journal' = NoFiles
    /\ UNCHANGED <<lock, runtime, op, seen, updates>>

-----------------------------------------------------------------------------

\* What the holder of the lock does next.
Proceed(w) ==
    \/ \E f \in Files :
          \/ ReadFile(w, f)
          \/ WriteFile(w, f) \/ WriteFileFails(w, f)
          \/ RestoreFile(w, f) \/ RestoreFileFails(w, f)
    \/ w \in Clients /\ EndRead(w)
    \/ WriteJournal(w) \/ JournalFails(w)
    \/ Activate(w) \/ ActivateFails(w)
    \/ Commit(w) \/ CommitFails(w)
    \/ RestoreRuntime(w) \/ RestoreRuntimeFails(w)
    \/ Undone(w) \/ KeepJournal(w)
    \/ ReplaceOverlay(w) \/ ReplaceOverlayFails(w)
    \/ ReloadOverlay(w) \/ ReloadOverlayFails(w)
    \/ UndoOverlay(w) \/ UndoOverlayFails(w)

Next ==
    \/ \E c \in Clients : BeginRead(c)
    \/ \E w \in Writers, fs \in SUBSET Files : Begin(w, fs)
    \/ \E w \in Writers : Proceed(w)
    \/ CrashGateway
    \/ \E w \in Clis : CrashCli(w)
    \/ Load
    \/ Repair

Spec == Init /\ [][Next]_vars

\* A thread that holds the lock runs straight on to its end.
FairSpec == Spec /\ \A w \in Writers : WF_vars(Proceed(w))

-----------------------------------------------------------------------------
(* Properties. *)

TypeOK ==
    /\ files \in Configs
    /\ journal \in Partial
    /\ lock \in Writers \cup {None}
    /\ runtime \in Configs \cup {Down, Torn}
    /\ op \in [Writers -> Operation]
    /\ seen \in [Clients -> SUBSET [Tracked -> Contents]]
    /\ updates \in 0..MaxUpdates

\* The configuration in effect: what the files held before an update that is
\* still under way or was left half done.
Effective ==
    [f \in Files |->
        IF f \in DOMAIN journal THEN journal[f]
        ELSE IF /\ lock \in Overlays /\ op[lock].pc \in {"reload", "undo"}
                /\ f = OverlayFile
             THEN op[lock].old[f]
             ELSE files[f]]

Atomic == INSTANCE AtomicConfiguration WITH config <- Effective

\* Whatever fails and whoever crashes, an update takes effect as a whole or not
\* at all, a snapshot is never a mixture of two updates, and a dashboard's
\* update replaces exactly the configuration that dashboard was shown.
AppliesAtomically == Atomic!Spec

\* When an update ends, the running gateway has what is in effect on disk, or
\* the update changed neither of them, unless a recovery file tells the operator
\* otherwise. The exceptions are an overlay edit whose rollback failed, which is
\* only logged, and a gateway that was half reconfigured before.
RuntimeFollowsDisk ==
    [][\A w \in Gateway :
          /\ lock = w /\ op[w].pc # "read" /\ op[w].pc # "undo"
          /\ op[w].before # Torn
          /\ lock' = None /\ runtime' # Down
          => \/ runtime' = Effective'
             \/ Effective' = Effective /\ runtime' = op[w].before
             \/ Effective' = Effective /\ DOMAIN journal' # {}]_vars

\* A gateway update that ends with a recovery file left behind has tried to
\* restore and failed: a write that merely failed blocks nothing.
RecoveryOnlyAfterFailedRestore ==
    [][\A w \in Gateway :
          /\ lock = w /\ lock' = None /\ runtime' # Down
          /\ DOMAIN journal' # {}
          => op[w].pc = "release"]_vars

\* Nobody keeps the lock for ever, whichever of its steps fail.
LockIsReleased == \A w \in Writers : lock = w ~> lock # w

=============================================================================
