---------------------- MODULE ConfigTransactionProofs ----------------------
(* Proofs about ConfigTransaction for every value of its constants. *)
EXTENDS ConfigTransaction, TLAPS

\* Only the holder of the lock is doing anything.
Exclusive == \A w \in Writers : op[w].pc # "idle" => lock = w

\* The parts of a journaled update.
Journaled == {"journal", "write", "commit", "restore", "release"}

\* What holds while w is at each of its steps.
Phase(w) ==
    LET q == op[w]
    IN  /\ q.pc = "read" =>
              /\ w \in Clients
              /\ DOMAIN journal = {}
              /\ DOMAIN q.copy \subseteq Tracked
              /\ \A f \in DOMAIN q.copy : q.copy[f] = files[f]
        /\ q.pc \notin {"idle", "read"} =>
              /\ q.content.by = w
              /\ q.todo \subseteq DOMAIN q.old
              /\ DOMAIN q.old \in (SUBSET Files) \ {{}}
              /\ w \in Overlays <=> q.pc \notin Journaled
        /\ q.pc = "journal" =>
              /\ DOMAIN journal = {}
              /\ q.todo = DOMAIN q.old
              /\ \A f \in DOMAIN q.old : files[f] = q.old[f]
        /\ q.pc \in Journaled \ {"journal"} => journal = q.old
        /\ q.pc = "write" =>
              \A f \in DOMAIN q.old \ q.todo : files[f] = q.content
        /\ q.pc = "commit" => \A f \in DOMAIN q.old : files[f] = q.content
        /\ q.pc \in {"restore", "release"} /\ ~q.failed =>
              \A f \in DOMAIN q.old \ q.todo : files[f] = q.old[f]
        /\ q.pc = "release" => q.todo = {}
        /\ q.pc \in {"replace", "reload", "undo"} =>
              DOMAIN journal = {} /\ DOMAIN q.old = {OverlayFile}
        /\ q.pc = "replace" => files[OverlayFile] = q.old[OverlayFile]
        /\ q.pc = "reload" => files[OverlayFile] = q.content
        /\ q.pc = "undo" =>
              files[OverlayFile] \in {q.content, q.old[OverlayFile]}
        /\ w \in Clients /\ q.pc \in {"journal", "write", "commit"} =>
              seen[w] = {Part(Effective, Tracked)}

\* What the running gateway has at each step of one of its updates.
RuntimePhase(w) ==
    LET q == op[w]
    IN  w \in Gateway =>
          /\ q.pc \in {"journal", "write", "replace", "reload", "undo"}
                => runtime = q.before
          /\ q.pc = "commit" /\ q.before # Torn => runtime = files
          /\ q.pc = "release" /\ ~q.failed => runtime = q.before

IInv ==
    /\ TypeOK
    /\ Exclusive
    /\ \A w \in Writers : Phase(w) /\ RuntimePhase(w)

-----------------------------------------------------------------------------
(* What is in effect. *)

\* The files as a recovery file says they were.
Recovered ==
    [f \in Files |-> IF f \in DOMAIN journal THEN journal[f] ELSE files[f]]

\* Unless an overlay edit is waiting to be activated, that is what is in effect.
LEMMA EffectiveRecovered ==
    ASSUME lock \in Overlays => op[lock].pc \notin {"reload", "undo"}
    PROVE  Effective = Recovered
BY DEF Effective, Recovered

\* The facts about the holder of the lock that its steps rest on.
LEMMA Holder ==
    ASSUME IInv, NEW w \in Writers, op[w].pc # "idle"
    PROVE  /\ lock = w /\ Phase(w) /\ RuntimePhase(w)
           /\ op[w] \in Operation
           /\ \A o \in Writers \ {w} : op[o].pc = "idle"
           /\ None \notin Writers /\ lock # None
<1>1. lock = w /\ Phase(w) /\ RuntimePhase(w) /\ op[w] \in Operation
    BY DEF IInv, Exclusive, TypeOK
<1>2. None \notin Writers
    BY ConstantsAssumption
<1>3. \A o \in Writers \ {w} : op[o].pc = "idle"
    BY <1>1 DEF IInv, Exclusive
<1> QED
    BY <1>1, <1>2, <1>3

\* Without a holder everybody is idle.
LEMMA Nobody ==
    ASSUME IInv, lock = None
    PROVE  \A w \in Writers : op[w].pc = "idle"
BY ConstantsAssumption DEF IInv, Exclusive

\* A step of a journaled update, or of a snapshot, puts nothing into effect
\* while the lock is kept.
LEMMA HolderKeepsEffective ==
    ASSUME IInv, NEW w \in Writers, op[w].pc \in Journaled \cup {"read"},
           lock' = w, op'[w].pc \in Journaled \cup {"read"},
           Recovered' = Recovered
    PROVE  UNCHANGED Effective
<1>1. lock = w
    BY Holder DEF Journaled
<1>2. Effective = Recovered
    BY <1>1, EffectiveRecovered DEF Journaled
<1>3. Effective' = Recovered'
    BY DEF Effective, Recovered, Journaled
<1> QED
    BY <1>2, <1>3

\* Neither does the release of the lock unless it changes Recovered.
LEMMA ReleaseKeepsEffective ==
    ASSUME IInv, NEW w \in Writers, op[w].pc \in Journaled \cup {"read"},
           lock' = None, Recovered' = Recovered
    PROVE  UNCHANGED Effective
<1>1. lock = w /\ None \notin Overlays
    BY Holder, ConstantsAssumption DEF Journaled, Writers, Others
<1>2. Effective = Recovered
    BY <1>1, EffectiveRecovered DEF Journaled
<1>3. Effective' = Recovered'
    BY <1>1 DEF Effective, Recovered
<1> QED
    BY <1>2, <1>3

-----------------------------------------------------------------------------
(* The shape of a step. *)

\* An idle writer satisfies everything.
LEMMA IdlePhase ==
    ASSUME NEW w, op'[w].pc = "idle"
    PROVE  Phase(w)' /\ RuntimePhase(w)'
BY DEF Phase, RuntimePhase, Journaled

\* A step of a writer that keeps or takes the lock.
LEMMA HolderStep ==
    ASSUME IInv, NEW w \in Writers, lock \in {w, None}, lock' = w,
           \A o \in Writers \ {w} : op'[o] = op[o],
           TypeOK', Phase(w)', RuntimePhase(w)'
    PROVE  IInv'
<1>1. \A o \in Writers \ {w} : op'[o].pc = "idle"
    BY ConstantsAssumption DEF IInv, Exclusive
<1>2. \A o \in Writers : Phase(o)' /\ RuntimePhase(o)'
    BY <1>1, IdlePhase
<1>3. Exclusive'
    BY <1>1 DEF Exclusive
<1> QED
    BY <1>2, <1>3 DEF IInv

\* A step after which everybody is idle.
LEMMA IdleStep ==
    ASSUME TypeOK', \A w \in Writers : op'[w].pc = "idle"
    PROVE  IInv'
<1>1. \A w \in Writers : Phase(w)' /\ RuntimePhase(w)'
    BY IdlePhase
<1> QED
    BY <1>1 DEF IInv, Exclusive

\* Idle, spelled out.
LEMMA IdleOperation ==
    /\ Idle \in Operation
    /\ NoFiles \in Partial /\ DOMAIN NoFiles = {}
    /\ Idle.pc = "idle" /\ Idle.failed = FALSE /\ Idle.todo = {}
    /\ Idle.copy = NoFiles /\ Idle.old = NoFiles
<1>1. NoFiles \in Partial /\ DOMAIN NoFiles = {}
    <2>1. NoFiles \in [{} -> Contents] /\ {} \in SUBSET Files
        BY DEF NoFiles
    <2>2. DOMAIN NoFiles = {}
        BY DEF NoFiles
    <2> QED
        BY <2>1, <2>2 DEF Partial
<1>2. [by |-> None, n |-> 0] \in Contents
    BY ConstantsAssumption DEF Contents
<1> QED
    BY <1>1, <1>2 DEF Idle, Operation, Steps

\* A step that releases the lock.
LEMMA ReleaseStep ==
    ASSUME IInv, NEW w \in Writers, op[w].pc # "idle", Release(w),
           files' \in Configs, journal' \in Partial,
           runtime' \in Configs \cup {Down, Torn},
           seen' \in [Clients -> SUBSET [Tracked -> Contents]],
           UNCHANGED updates
    PROVE  IInv'
<1>1. Idle \in Operation
    BY IdleOperation
<1>2. TypeOK'
    BY <1>1 DEF IInv, TypeOK, Release
<1>3. \A o \in Writers : op'[o].pc = "idle"
    BY Holder DEF Release, IInv, TypeOK, Idle
<1> QED
    BY <1>2, <1>3, IdleStep

\* A part of the files is a partial configuration.
LEMMA PartType ==
    ASSUME NEW c \in Configs, NEW fs \in SUBSET Files
    PROVE  /\ Part(c, fs) \in [fs -> Contents]
           /\ Part(c, fs) \in Partial
           /\ DOMAIN Part(c, fs) = fs
           /\ \A f \in fs : Part(c, fs)[f] = c[f]
<1>1. /\ Part(c, fs) \in [fs -> Contents] /\ DOMAIN Part(c, fs) = fs
      /\ \A f \in fs : Part(c, fs)[f] = c[f]
    BY DEF Part, Configs
<1> QED
    BY <1>1 DEF Partial

\* An entry of a partial configuration is a content, and its domain is files.
LEMMA PartialEntries ==
    ASSUME NEW p \in Partial
    PROVE  /\ DOMAIN p \in SUBSET Files
           /\ \A f \in DOMAIN p : p[f] \in Contents
BY DEF Partial

\* A dashboard takes the lock and reads the files one by one.
LEMMA ReadKeepsIInv ==
    ASSUME IInv, NEW c \in Clients,
           \/ BeginRead(c)
           \/ \E f \in Files : ReadFile(c, f)
    PROVE  IInv'
<1>1. TypeOK /\ c \in Writers
    BY DEF IInv, Writers
<1>2. CASE BeginRead(c)
    <2> DEFINE q == [Idle EXCEPT !.pc = "read"]
    <2>1. op' = [op EXCEPT ![c] = q] /\ lock' = c /\ Readable
          /\ UNCHANGED <<files, journal, runtime, seen, updates>>
        BY <1>2 DEF BeginRead
    <2>2. q \in Operation /\ q.pc = "read" /\ DOMAIN q.copy = {}
        BY IdleOperation DEF Operation, Steps
    <2> HIDE DEF q
    <2>3. TypeOK'
        BY <1>1, <2>1, <2>2 DEF TypeOK
    <2>4. op'[c] = q /\ \A o \in Writers \ {c} : op'[o] = op[o]
        BY <1>1, <2>1 DEF TypeOK
    <2>5. Phase(c)' /\ RuntimePhase(c)'
        BY <2>1, <2>2, <2>4 DEF Phase, RuntimePhase, Journaled, Readable
    <2> QED
        BY <1>1, <2>1, <2>3, <2>4, <2>5, HolderStep DEF Readable
<1>3. ASSUME NEW f \in Files, ReadFile(c, f)
      PROVE  IInv'
    <2> DEFINE copy == [g \in DOMAIN op[c].copy \cup {f} |->
                            IF g = f THEN files[f] ELSE op[c].copy[g]]
               q == [op[c] EXCEPT !.copy = copy]
    <2>1. /\ op[c].pc = "read" /\ f \in Tracked
          /\ op' = [op EXCEPT ![c] = q]
          /\ UNCHANGED <<files, journal, lock, runtime, seen, updates>>
        BY <1>3 DEF ReadFile
    <2>2. lock = c /\ Phase(c) /\ op[c] \in Operation
        BY <1>1, <2>1, Holder
    <2>3. copy \in Partial
        <3>1. op[c].copy \in Partial /\ files[f] \in Contents
            BY <1>1, <2>2 DEF Operation, TypeOK, Configs
        <3>2. copy \in [DOMAIN op[c].copy \cup {f} -> Contents]
            BY <3>1, PartialEntries
        <3>3. DOMAIN op[c].copy \cup {f} \in SUBSET Files
            BY <3>1, PartialEntries
        <3> QED
            BY <3>2, <3>3 DEF Partial
    <2>4. /\ DOMAIN copy \subseteq Tracked
          /\ \A g \in DOMAIN copy : copy[g] = files[g]
        BY <2>1, <2>2 DEF Phase
    <2> HIDE DEF copy
    <2>5. q \in Operation /\ q.pc = "read" /\ q.copy = copy
        BY <2>1, <2>2, <2>3 DEF Operation
    <2> HIDE DEF q
    <2>6. TypeOK'
        BY <1>1, <2>1, <2>5 DEF TypeOK
    <2>7. op'[c] = q /\ \A o \in Writers \ {c} : op'[o] = op[o]
        BY <1>1, <2>1 DEF TypeOK
    <2>8. Phase(c)' /\ RuntimePhase(c)'
        BY <2>1, <2>2, <2>4, <2>5, <2>7 DEF Phase, RuntimePhase, Journaled
    <2> QED
        BY <1>1, <2>1, <2>2, <2>6, <2>7, <2>8, HolderStep
<1> QED
    BY <1>2, <1>3

\* The snapshot is complete.
LEMMA EndReadKeepsIInv ==
    ASSUME IInv, NEW c \in Clients, EndRead(c)
    PROVE  /\ IInv'
           /\ UNCHANGED Effective
           /\ seen' = [seen EXCEPT ![c] = {Part(Effective, Tracked)}]
<1>1. TypeOK /\ c \in Writers /\ op[c].pc = "read"
    BY DEF IInv, Writers, EndRead
<1>2. lock = c /\ Phase(c) /\ op[c] \in Operation
    BY <1>1, Holder
<1>3. op[c].copy = Part(files, Tracked)
    <2>1. op[c].copy \in Partial
        BY <1>2 DEF Operation
    <2>2. op[c].copy \in [Tracked -> Contents]
        BY <2>1 DEF Partial, EndRead
    <2> QED
        BY <1>1, <1>2, <2>2 DEF Phase, Part, EndRead
<1>4. Effective = Recovered
    BY <1>1, <1>2, EffectiveRecovered
<1>5. Part(files, Tracked) = Part(Effective, Tracked)
    BY <1>1, <1>2, <1>4, ConstantsAssumption DEF Recovered, Phase, Part
<1>6. seen' \in [Clients -> SUBSET [Tracked -> Contents]]
    BY <1>1, <1>3, PartType, ConstantsAssumption DEF EndRead, TypeOK
<1>7. IInv'
    BY <1>1, <1>6, ReleaseStep DEF EndRead, TypeOK
<1>8. UNCHANGED Effective
    BY <1>1, ReleaseKeepsEffective DEF EndRead, Release, Recovered
<1> QED
    BY <1>3, <1>5, <1>7, <1>8 DEF EndRead

-----------------------------------------------------------------------------
(* The steps of an update with a recovery file. *)

\* What a step that keeps the lock leaves to be shown.
LEMMA KeepStep ==
    ASSUME IInv, NEW w \in Writers, op[w].pc # "idle",
           NEW q \in Operation, op' = [op EXCEPT ![w] = q],
           files' \in Configs, journal' \in Partial,
           runtime' \in Configs \cup {Down, Torn},
           UNCHANGED <<lock, seen, updates>>
    PROVE  /\ lock = w /\ lock' = w /\ op'[w] = q
           /\ TypeOK'
           /\ (Phase(w)' /\ RuntimePhase(w)') => IInv'
<1>1. lock = w /\ lock' = w
    BY Holder
<1>2. TypeOK'
    BY DEF IInv, TypeOK
<1>3. op'[w] = q /\ \A o \in Writers \ {w} : op'[o] = op[o]
    BY DEF IInv, TypeOK
<1> QED
    BY <1>1, <1>2, <1>3, HolderStep

\* The recovery file is written.
LEMMA WriteJournalKeepsIInv ==
    ASSUME IInv, NEW w \in Writers, WriteJournal(w)
    PROVE  IInv' /\ UNCHANGED Effective
<1> DEFINE q == [op[w] EXCEPT !.pc = "write"]
<1>1. TypeOK /\ Phase(w) /\ RuntimePhase(w) /\ op[w] \in Operation
      /\ op[w].pc = "journal"
    BY Holder DEF IInv, WriteJournal
<1>2. /\ q \in Operation /\ q.pc = "write"
      /\ q.old = op[w].old /\ q.todo = op[w].todo /\ q.content = op[w].content
      /\ q.before = op[w].before
    BY <1>1 DEF Operation, Steps
<1>3. op' = [op EXCEPT ![w] = q] /\ journal' = op[w].old
      /\ UNCHANGED <<files, lock, runtime, seen, updates>>
    BY DEF WriteJournal
<1>4. journal' \in Partial
    BY <1>1, <1>3 DEF Operation
<1> HIDE DEF q
<1>5. op'[w] = q /\ lock' = w /\ ((Phase(w)' /\ RuntimePhase(w)') => IInv')
    BY <1>1, <1>2, <1>3, <1>4, KeepStep DEF TypeOK
<1>6. Recovered' = Recovered
    BY <1>1, <1>3 DEF Phase, Recovered, Journaled
<1>7. UNCHANGED Effective
    BY <1>1, <1>2, <1>5, <1>6, HolderKeepsEffective DEF Journaled
<1>8. Phase(w)' /\ RuntimePhase(w)'
    BY <1>1, <1>2, <1>3, <1>5, <1>7 DEF Phase, RuntimePhase, Journaled
<1> QED
    BY <1>5, <1>7, <1>8

\* Writing it fails, before or after it is in place.
LEMMA JournalFailsKeepsIInv ==
    ASSUME IInv, NEW w \in Writers, JournalFails(w)
    PROVE  IInv' /\ UNCHANGED Effective
<1>1. TypeOK /\ Phase(w) /\ op[w] \in Operation /\ op[w].pc = "journal"
    BY Holder DEF IInv, JournalFails
<1>2. journal' \in Partial
    BY <1>1 DEF JournalFails, TypeOK, Operation
<1>3. IInv'
    BY <1>1, <1>2, ReleaseStep DEF JournalFails, TypeOK
<1>4. Recovered' = Recovered
    BY <1>1 DEF JournalFails, Phase, Recovered, Journaled
<1>5. UNCHANGED Effective
    BY <1>1, <1>4, ReleaseKeepsEffective DEF JournalFails, Release, Journaled
<1> QED
    BY <1>3, <1>5

\* A file of the update is written, or fails to be. Once the recovery file is
\* there, what is in effect does not depend on the files it names.
LEMMA WriteFileKeepsIInv ==
    ASSUME IInv, NEW w \in Writers, NEW f \in Files,
           WriteFile(w, f) \/ WriteFileFails(w, f)
    PROVE  IInv' /\ UNCHANGED Effective
<1> DEFINE q == IF WriteFile(w, f) THEN [op[w] EXCEPT !.todo = @ \ {f}]
                ELSE [op[w] EXCEPT !.pc = "restore", !.todo = DOMAIN op[w].old]
<1>1. TypeOK /\ Phase(w) /\ RuntimePhase(w) /\ op[w] \in Operation
      /\ op[w].pc = "write" /\ f \in op[w].todo
    BY Holder DEF IInv, WriteFile, WriteFileFails
<1>2. DOMAIN op[w].old \in SUBSET Files /\ f \in DOMAIN op[w].old
      /\ journal = op[w].old
    BY <1>1 DEF Phase, Journaled
<1>3. /\ q \in Operation /\ q.pc \in {"write", "restore"}
      /\ q.old = op[w].old /\ q.content = op[w].content
      /\ q.before = op[w].before
      /\ q.pc = "restore" => q.todo = DOMAIN op[w].old
      /\ q.pc = "write" => WriteFile(w, f) /\ q.todo = op[w].todo \ {f}
    BY <1>1, <1>2 DEF Operation, Steps
<1>4. op' = [op EXCEPT ![w] = q]
      /\ files' \in {files, [files EXCEPT ![f] = op[w].content]}
      /\ (WriteFile(w, f) => files' = [files EXCEPT ![f] = op[w].content])
      /\ UNCHANGED <<journal, lock, runtime, seen, updates>>
    BY DEF WriteFile, WriteFileFails, Rollback
<1> HIDE DEF q
<1>5. files' \in Configs /\ op[w].content \in Contents
    BY <1>1, <1>4 DEF TypeOK, Configs, Operation
<1>6. op'[w] = q /\ lock' = w /\ ((Phase(w)' /\ RuntimePhase(w)') => IInv')
    BY <1>1, <1>3, <1>4, <1>5, KeepStep DEF TypeOK
<1>7. Recovered' = Recovered
    BY <1>1, <1>2, <1>4 DEF Recovered, TypeOK, Configs
<1>8. UNCHANGED Effective
    BY <1>1, <1>3, <1>6, <1>7, HolderKeepsEffective DEF Journaled
<1>9. q.pc = "write" => \A g \in DOMAIN q.old \ q.todo : files'[g] = q.content
    BY <1>1, <1>2, <1>3, <1>4 DEF Phase, TypeOK, Configs
<1>10. Phase(w)'
    BY <1>1, <1>2, <1>3, <1>4, <1>6, <1>8, <1>9 DEF Phase, Journaled
<1>11. RuntimePhase(w)'
    BY <1>1, <1>3, <1>4, <1>6 DEF RuntimePhase
<1> QED
    BY <1>6, <1>8, <1>10, <1>11

\* The update is activated, or the rollback begins.
LEMMA ActivateKeepsIInv ==
    ASSUME IInv, NEW w \in Writers,
           Activate(w) \/ ActivateFails(w) \/ CommitFails(w)
    PROVE  IInv' /\ UNCHANGED Effective
<1> DEFINE q == IF Activate(w) THEN [op[w] EXCEPT !.pc = "commit"]
                ELSE [op[w] EXCEPT !.pc = "restore", !.todo = DOMAIN op[w].old]
<1>1. TypeOK /\ Phase(w) /\ RuntimePhase(w) /\ op[w] \in Operation
      /\ op[w].pc \in {"write", "commit"}
      /\ (Activate(w) => op[w].pc = "write" /\ op[w].todo = {})
    BY Holder DEF IInv, Activate, ActivateFails, CommitFails
<1>2. DOMAIN op[w].old \in SUBSET Files
    BY <1>1 DEF Phase
<1>3. /\ q \in Operation /\ q.pc \in {"commit", "restore"}
      /\ q.old = op[w].old /\ q.content = op[w].content
      /\ q.before = op[w].before
      /\ q.pc = "restore" => q.todo = DOMAIN op[w].old
      /\ q.pc = "commit" => Activate(w) /\ q.todo = op[w].todo
    BY <1>1, <1>2 DEF Operation, Steps
<1>4. op' = [op EXCEPT ![w] = q]
      /\ (Activate(w) /\ w \in Gateway /\ runtime # Torn => runtime' = files)
      /\ runtime' \in {runtime, files, Torn}
      /\ UNCHANGED <<files, journal, lock, seen, updates>>
    BY DEF Activate, Activated, ActivateFails, CommitFails, Rollback, MaybeTorn
<1> HIDE DEF q
<1>5. op'[w] = q /\ lock' = w /\ ((Phase(w)' /\ RuntimePhase(w)') => IInv')
    BY <1>1, <1>3, <1>4, KeepStep DEF TypeOK
<1>6. Recovered' = Recovered
    BY <1>4 DEF Recovered
<1>7. UNCHANGED Effective
    BY <1>1, <1>3, <1>5, <1>6, HolderKeepsEffective DEF Journaled
<1>8. Phase(w)'
    BY <1>1, <1>2, <1>3, <1>4, <1>5, <1>7 DEF Phase, Journaled
<1>9. RuntimePhase(w)'
    BY <1>1, <1>3, <1>4, <1>5 DEF RuntimePhase
<1> QED
    BY <1>5, <1>7, <1>8, <1>9

\* A file is restored, or fails to be.
LEMMA RestoreFileKeepsIInv ==
    ASSUME IInv, NEW w \in Writers, NEW f \in Files,
           RestoreFile(w, f) \/ RestoreFileFails(w, f)
    PROVE  IInv' /\ UNCHANGED Effective
<1> DEFINE q == IF RestoreFile(w, f) THEN [op[w] EXCEPT !.todo = @ \ {f}]
                ELSE [op[w] EXCEPT !.todo = @ \ {f}, !.failed = TRUE]
<1>1. TypeOK /\ Phase(w) /\ op[w] \in Operation
      /\ op[w].pc = "restore" /\ f \in op[w].todo
    BY Holder DEF IInv, RestoreFile, RestoreFileFails
<1>2. DOMAIN op[w].old \in SUBSET Files /\ f \in DOMAIN op[w].old
      /\ journal = op[w].old
    BY <1>1 DEF Phase, Journaled
<1>3. /\ q \in Operation /\ q.pc = "restore" /\ q.todo = op[w].todo \ {f}
      /\ q.old = op[w].old /\ q.content = op[w].content
      /\ ~q.failed => RestoreFile(w, f) /\ ~op[w].failed
    BY <1>1 DEF Operation
<1>4. op' = [op EXCEPT ![w] = q]
      /\ files' \in {files, [files EXCEPT ![f] = op[w].old[f]]}
      /\ (RestoreFile(w, f) => files' = [files EXCEPT ![f] = op[w].old[f]])
      /\ UNCHANGED <<journal, lock, runtime, seen, updates>>
    BY DEF RestoreFile, RestoreFileFails
<1> HIDE DEF q
<1>5. op[w].old[f] \in Contents
    BY <1>1, <1>2, PartialEntries DEF Operation
<1>6. files' \in Configs
    BY <1>1, <1>4, <1>5 DEF TypeOK, Configs
<1>7. op'[w] = q /\ lock' = w /\ ((Phase(w)' /\ RuntimePhase(w)') => IInv')
    BY <1>1, <1>3, <1>4, <1>6, KeepStep DEF TypeOK
<1>8. Recovered' = Recovered
    BY <1>1, <1>2, <1>4 DEF Recovered, TypeOK, Configs
<1>9. UNCHANGED Effective
    BY <1>1, <1>3, <1>7, <1>8, HolderKeepsEffective DEF Journaled
<1>10. ~q.failed => \A g \in DOMAIN q.old \ q.todo : files'[g] = q.old[g]
    BY <1>1, <1>2, <1>3, <1>4 DEF Phase, TypeOK, Configs
<1>11. Phase(w)'
    BY <1>1, <1>2, <1>3, <1>4, <1>7, <1>10 DEF Phase, Journaled
<1>12. RuntimePhase(w)'
    BY <1>3, <1>7 DEF RuntimePhase
<1> QED
    BY <1>7, <1>9, <1>11, <1>12

\* The runtime is restored, or fails to be.
LEMMA RestoreRuntimeKeepsIInv ==
    ASSUME IInv, NEW w \in Writers,
           RestoreRuntime(w) \/ RestoreRuntimeFails(w)
    PROVE  IInv' /\ UNCHANGED Effective
<1> DEFINE q == IF RestoreRuntime(w) THEN [op[w] EXCEPT !.pc = "release"]
                ELSE [op[w] EXCEPT !.pc = "release", !.failed = TRUE]
<1>1. TypeOK /\ Phase(w) /\ op[w] \in Operation
      /\ op[w].pc = "restore" /\ op[w].todo = {}
    BY Holder DEF IInv, RestoreRuntime, RestoreRuntimeFails
<1>2. /\ q \in Operation /\ q.pc = "release" /\ q.todo = op[w].todo
      /\ q.old = op[w].old /\ q.content = op[w].content
      /\ q.before = op[w].before
      /\ ~q.failed => RestoreRuntime(w) /\ ~op[w].failed
    BY <1>1 DEF Operation, Steps
<1>3. op' = [op EXCEPT ![w] = q]
      /\ (RestoreRuntime(w) /\ w \in Gateway => runtime' = op[w].before)
      /\ runtime' \in {runtime, op[w].before, Torn}
      /\ UNCHANGED <<files, journal, lock, seen, updates>>
    BY DEF RestoreRuntime, RestoreRuntimeFails, MaybeTorn
<1>4. op[w].before \in Configs \cup {Down, Torn}
    BY <1>1 DEF Operation
<1> HIDE DEF q
<1>5. op'[w] = q /\ lock' = w /\ ((Phase(w)' /\ RuntimePhase(w)') => IInv')
    BY <1>1, <1>2, <1>3, <1>4, KeepStep DEF TypeOK
<1>6. Recovered' = Recovered
    BY <1>3 DEF Recovered
<1>7. UNCHANGED Effective
    BY <1>1, <1>2, <1>5, <1>6, HolderKeepsEffective DEF Journaled
<1>8. Phase(w)'
    BY <1>1, <1>2, <1>3, <1>5 DEF Phase, Journaled
<1>9. RuntimePhase(w)'
    BY <1>2, <1>3, <1>5 DEF RuntimePhase
<1> QED
    BY <1>5, <1>7, <1>8, <1>9

\* The end of a rollback: the recovery file
\* stays, or goes when every file was restored.
LEMMA UndoneKeepsIInv ==
    ASSUME IInv, NEW w \in Writers,
           Undone(w) \/ KeepJournal(w)
    PROVE  IInv' /\ UNCHANGED Effective
<1>1. TypeOK /\ Phase(w) /\ op[w] \in Operation /\ op[w].pc = "release"
    BY Holder DEF IInv, Undone, KeepJournal
<1>2. IInv'
    BY <1>1, IdleOperation, ReleaseStep DEF Undone, KeepJournal, TypeOK
<1>3. Recovered' = Recovered
    BY <1>1, IdleOperation
       DEF Undone, KeepJournal, Phase, Recovered, Journaled
<1>4. UNCHANGED Effective
    BY <1>1, <1>3, ReleaseKeepsEffective
       DEF Undone, KeepJournal, Release, Journaled
<1> QED
    BY <1>2, <1>4

LEMMA CrashCliKeepsIInv ==
    ASSUME IInv, NEW w \in Clis, CrashCli(w)
    PROVE  IInv' /\ UNCHANGED Effective
<1>1. TypeOK /\ w \in Writers /\ op[w].pc # "idle"
    BY DEF IInv, CrashCli, Writers, Others
<1>2. Phase(w) /\ op[w] \in Operation /\ w \notin Overlays /\ w \notin Clients
    BY <1>1, Holder, ConstantsAssumption DEF Gateway
<1>3. op[w].pc \in Journaled
    BY <1>1, <1>2 DEF Phase
<1>4. IInv'
    BY <1>1, ReleaseStep DEF CrashCli, TypeOK
<1>5. UNCHANGED Effective
    BY <1>1, <1>3, ReleaseKeepsEffective DEF CrashCli, Release, Recovered
<1> QED
    BY <1>4, <1>5

\* The removal of the recovery file puts the whole update into effect.
LEMMA CommitKeepsIInv ==
    ASSUME IInv, NEW w \in Writers, Commit(w)
    PROVE  /\ IInv'
           /\ Atomic!Written(w)
           /\ w \in Clients =>
                /\ seen[w] = {Part(Effective, Tracked)}
                /\ seen' = [seen EXCEPT ![w] = {Part(Effective', Tracked)}]
           /\ w \notin Clients => UNCHANGED seen
           /\ w \in Gateway /\ op[w].before # Torn => runtime' = Effective'
<1>1. TypeOK /\ Phase(w) /\ RuntimePhase(w) /\ op[w] \in Operation
      /\ op[w].pc = "commit" /\ lock = w /\ None \notin Overlays
    BY Holder, ConstantsAssumption DEF IInv, Commit, Writers, Others
<1>2. /\ DOMAIN op[w].old \in SUBSET Files
      /\ op[w].content.by = w /\ op[w].content \in Contents
      /\ journal = op[w].old
      /\ \A f \in DOMAIN op[w].old : files[f] = op[w].content
    BY <1>1 DEF Phase, Journaled, Operation
<1>3. Effective = Recovered
    BY <1>1, EffectiveRecovered
<1>4. Effective' = files
    <2>1. lock' = None /\ journal' = NoFiles /\ files' = files
        BY DEF Commit, Release
    <2>2. Effective' = [f \in Files |-> files[f]]
        BY <1>1, <2>1, IdleOperation DEF Effective
    <2> QED
        BY <1>1, <2>2 DEF TypeOK, Configs
<1>5. Atomic!Written(w)
    <2>1. Effective' = [f \in Files |-> IF f \in DOMAIN op[w].old
                                        THEN op[w].content ELSE Effective[f]]
        BY <1>1, <1>2, <1>3, <1>4 DEF Recovered, TypeOK, Configs
    <2> QED
        BY <1>2, <2>1 DEF Atomic!Written
<1>6. seen' \in [Clients -> SUBSET [Tracked -> Contents]]
    BY <1>1, PartType, ConstantsAssumption DEF Commit, TypeOK
<1>7. IInv'
    BY <1>1, <1>6, IdleOperation, ReleaseStep DEF Commit, TypeOK
<1>8. w \in Clients =>
        /\ seen[w] = {Part(Effective, Tracked)}
        /\ seen' = [seen EXCEPT ![w] = {Part(Effective', Tracked)}]
    BY <1>1, <1>4 DEF Phase, Commit
<1>9. w \notin Clients => UNCHANGED seen
    BY DEF Commit
<1>10. w \in Gateway /\ op[w].before # Torn => runtime' = Effective'
    BY <1>1, <1>4 DEF RuntimePhase, Commit
<1> QED
    BY <1>5, <1>7, <1>8, <1>9, <1>10

-----------------------------------------------------------------------------
(* Overlay edits. *)

\* Until its reload an edit is not in effect: what is, the edit holds.
LEMMA OverlayEffective ==
    ASSUME IInv, NEW w \in Writers, op[w].pc \in {"replace", "reload", "undo"}
    PROVE  /\ w \in Overlays /\ w \in Gateway /\ w \notin Clients
           /\ DOMAIN journal = {} /\ OverlayFile \in Files
           /\ op[w].old[OverlayFile] \in Contents
           /\ Effective = [files EXCEPT ![OverlayFile] = op[w].old[OverlayFile]]
<1>1. TypeOK /\ Phase(w) /\ op[w] \in Operation /\ lock = w
    BY Holder DEF IInv
<1>2. w \in Overlays /\ w \in Gateway /\ w \notin Clients
    BY <1>1, ConstantsAssumption DEF Phase, Journaled, Gateway, Others
<1>3. DOMAIN journal = {} /\ OverlayFile \in Files
      /\ DOMAIN op[w].old = {OverlayFile}
    BY <1>1, ConstantsAssumption DEF Phase
<1>4. op[w].old[OverlayFile] \in Contents
    BY <1>1, <1>3, PartialEntries DEF Operation
<1>5. op[w].pc = "replace" => files[OverlayFile] = op[w].old[OverlayFile]
    BY <1>1 DEF Phase
<1>6. Effective = [files EXCEPT ![OverlayFile] = op[w].old[OverlayFile]]
    BY <1>1, <1>2, <1>3, <1>5 DEF Effective, TypeOK, Configs
<1> QED
    BY <1>2, <1>3, <1>4, <1>6

\* The file is replaced, or the edit is to be undone.
LEMMA OverlayKeepsIInv ==
    ASSUME IInv, NEW w \in Writers,
           \/ ReplaceOverlay(w) \/ ReplaceOverlayFails(w)
           \/ ReloadOverlayFails(w)
    PROVE  IInv' /\ UNCHANGED Effective
<1> DEFINE q == IF ReplaceOverlay(w) THEN [op[w] EXCEPT !.pc = "reload"]
                ELSE [op[w] EXCEPT !.pc = "undo"]
<1>1. TypeOK /\ Phase(w) /\ RuntimePhase(w) /\ op[w] \in Operation
      /\ op[w].pc \in {"replace", "reload"}
      /\ (ReplaceOverlay(w) => op[w].pc = "replace")
    BY Holder DEF IInv, ReplaceOverlay, ReplaceOverlayFails, ReloadOverlayFails
<1>2. /\ w \in Overlays /\ w \notin Clients
      /\ DOMAIN journal = {} /\ OverlayFile \in Files
      /\ Effective = [files EXCEPT ![OverlayFile] = op[w].old[OverlayFile]]
    BY <1>1, OverlayEffective
<1>3. /\ q \in Operation /\ q.pc \in {"reload", "undo"}
      /\ q.old = op[w].old /\ q.todo = op[w].todo
      /\ q.content = op[w].content /\ q.before = op[w].before
      /\ q.pc = "reload" => ReplaceOverlay(w)
    BY <1>1 DEF Operation, Steps
<1>4. op' = [op EXCEPT ![w] = q]
      /\ files' \in {files, [files EXCEPT ![OverlayFile] = op[w].content]}
      /\ (ReplaceOverlay(w) =>
            files' = [files EXCEPT ![OverlayFile] = op[w].content])
      /\ (~ReplaceOverlay(w) => files' = files)
      /\ UNCHANGED <<journal, lock, runtime, seen, updates>>
    BY DEF ReplaceOverlay, ReplaceOverlayFails, ReloadOverlayFails
<1> HIDE DEF q
<1>5. files' \in Configs
    BY <1>1, <1>2, <1>4 DEF TypeOK, Configs, Operation
<1>6. op'[w] = q /\ lock' = w /\ ((Phase(w)' /\ RuntimePhase(w)') => IInv')
    BY <1>1, <1>3, <1>4, <1>5, KeepStep DEF TypeOK
<1>7. Effective' = [files' EXCEPT ![OverlayFile] = q.old[OverlayFile]]
    <2>1. lock' \in Overlays /\ op'[lock'].pc \in {"reload", "undo"}
          /\ op'[lock'].old = q.old /\ DOMAIN journal' = {}
        BY <1>2, <1>3, <1>4, <1>6
    <2> QED
        BY <1>2, <1>5, <2>1 DEF Effective, Configs
<1>8. UNCHANGED Effective
    BY <1>1, <1>2, <1>3, <1>4, <1>7 DEF TypeOK, Configs
<1>9. Phase(w)'
    BY <1>1, <1>2, <1>3, <1>4, <1>6 DEF Phase, Journaled, TypeOK, Configs
<1>10. RuntimePhase(w)'
    BY <1>1, <1>3, <1>4, <1>6 DEF RuntimePhase
<1> QED
    BY <1>6, <1>8, <1>9, <1>10

\* The reload puts the edit into effect.
LEMMA ReloadOverlayKeepsIInv ==
    ASSUME IInv, NEW w \in Writers, ReloadOverlay(w)
    PROVE  /\ IInv' /\ w \in Others
           /\ Atomic!Written(w)
           /\ op[w].before # Torn => runtime' = Effective'
<1>1. TypeOK /\ Phase(w) /\ op[w] \in Operation /\ op[w].pc = "reload"
      /\ RuntimePhase(w) /\ None \notin Overlays
    BY Holder, ConstantsAssumption DEF IInv, ReloadOverlay, Writers, Others
<1>2. /\ w \in Overlays /\ DOMAIN journal = {} /\ OverlayFile \in Files
      /\ Effective = [files EXCEPT ![OverlayFile] = op[w].old[OverlayFile]]
    BY <1>1, OverlayEffective
<1>3. op[w].content \in Contents /\ op[w].content.by = w
      /\ files[OverlayFile] = op[w].content
    BY <1>1 DEF Phase, Operation
<1>4. Effective' = files
    BY <1>1, <1>2 DEF Effective, ReloadOverlay, Release, TypeOK, Configs
<1>5. Atomic!Written(w)
    <2>1. Effective' = [f \in Files |-> IF f \in {OverlayFile}
                                        THEN op[w].content ELSE Effective[f]]
        BY <1>1, <1>2, <1>3, <1>4 DEF TypeOK, Configs
    <2>2. {OverlayFile} \in SUBSET Files
        BY <1>2
    <2> QED
        BY <1>3, <2>1, <2>2 DEF Atomic!Written
<1>6. runtime' \in {files, Torn} /\ (runtime # Torn => runtime' = files)
    BY DEF ReloadOverlay, Activated
<1>7. IInv'
    BY <1>1, <1>6, ReleaseStep DEF ReloadOverlay, TypeOK
<1>8. op[w].before # Torn => runtime' = Effective'
    BY <1>1, <1>2, <1>4, <1>6 DEF RuntimePhase, Gateway
<1> QED
    BY <1>2, <1>5, <1>7, <1>8 DEF Others

\* Undoing the edit puts nothing into effect, unless the file that was replaced
\* cannot be put back.
LEMMA UndoOverlayKeepsIInv ==
    ASSUME IInv, NEW w \in Writers, UndoOverlay(w) \/ UndoOverlayFails(w)
    PROVE  /\ IInv' /\ w \in Others
           /\ UNCHANGED Effective \/ Atomic!Written(w)
           /\ UndoOverlay(w) => UNCHANGED Effective
<1>1. TypeOK /\ Phase(w) /\ op[w] \in Operation /\ op[w].pc = "undo"
      /\ None \notin Overlays
    BY Holder, ConstantsAssumption
       DEF IInv, UndoOverlay, UndoOverlayFails, Writers, Others
<1>2. /\ w \in Overlays /\ DOMAIN journal = {} /\ OverlayFile \in Files
      /\ op[w].old[OverlayFile] \in Contents
      /\ Effective = [files EXCEPT ![OverlayFile] = op[w].old[OverlayFile]]
    BY <1>1, OverlayEffective
<1>3. op[w].content \in Contents /\ op[w].content.by = w
      /\ files[OverlayFile] \in {op[w].content, op[w].old[OverlayFile]}
    BY <1>1 DEF Phase, Operation
<1>4. files' \in {files, [files EXCEPT ![OverlayFile] = op[w].old[OverlayFile]]}
      /\ lock' = None /\ journal' = journal
    BY DEF UndoOverlay, UndoOverlayFails, Release
<1>5. files' \in Configs
    BY <1>1, <1>2, <1>4 DEF TypeOK, Configs
<1>6. Effective' = files'
    <2>1. Effective' = [f \in Files |-> files'[f]]
        BY <1>1, <1>2, <1>4 DEF Effective
    <2> QED
        BY <1>5, <2>1 DEF Configs
<1>7. ASSUME files' # Effective
      PROVE  Atomic!Written(w)
    <2>1. files' = files /\ files[OverlayFile] = op[w].content
        BY <1>1, <1>2, <1>3, <1>4, <1>7 DEF TypeOK, Configs
    <2>2. files' = [f \in Files |-> IF f \in {OverlayFile}
                                    THEN op[w].content ELSE Effective[f]]
        BY <1>1, <1>2, <2>1 DEF TypeOK, Configs
    <2>3. {OverlayFile} \in SUBSET Files
        BY <1>2
    <2> QED
        BY <1>3, <1>6, <2>2, <2>3 DEF Atomic!Written
<1>8. UndoOverlay(w) => UNCHANGED Effective
    BY <1>2, <1>6 DEF UndoOverlay
<1>9. IInv'
    <2>1. op[w].before \in Configs \cup {Down, Torn}
        BY <1>1 DEF Operation
    <2> QED
        BY <1>1, <1>5, <2>1, ReleaseStep
           DEF UndoOverlay, UndoOverlayFails, TypeOK
<1> QED
    BY <1>2, <1>6, <1>7, <1>8, <1>9 DEF Others

-----------------------------------------------------------------------------
(* Steps that no update takes: begin, crash, load and repair. *)

\* An update takes the lock.
LEMMA BeginKeepsIInv ==
    ASSUME IInv, NEW w \in Writers, NEW fs \in SUBSET Files, Begin(w, fs)
    PROVE  IInv' /\ UNCHANGED Effective
<1> DEFINE pc == IF w \in Overlays THEN "replace" ELSE "journal"
           content == [by |-> w, n |-> updates + 1]
           q == [Idle EXCEPT !.pc = pc, !.old = Part(files, fs), !.todo = fs,
                             !.content = content, !.before = runtime]
<1>1. TypeOK /\ Readable /\ fs \in Touches(w) /\ None \notin Overlays
      /\ updates < MaxUpdates
    BY ConstantsAssumption DEF IInv, Begin, Writers, Others
<1>2. /\ op' = [op EXCEPT ![w] = q] /\ lock' = w /\ updates' = updates + 1
      /\ UNCHANGED <<files, journal, runtime, seen>>
    BY DEF Begin
<1>3. /\ fs \in (SUBSET Files) \ {{}}
      /\ w \in Overlays => fs = {OverlayFile}
    BY <1>1 DEF Touches
<1>4. content \in Contents /\ content.by = w /\ updates' \in 0..MaxUpdates
    BY <1>1, <1>2, ConstantsAssumption DEF Contents, TypeOK
<1> HIDE DEF content
<1>5. /\ q \in Operation /\ q.pc = pc /\ q.old = Part(files, fs)
      /\ q.todo = fs /\ q.content = content /\ q.before = runtime
    <2>1. Part(files, fs) \in Partial
        BY <1>1, PartType DEF TypeOK
    <2>2. pc \in Steps /\ runtime \in Configs \cup {Down, Torn}
        BY <1>1 DEF Steps, TypeOK
    <2> QED
        BY <1>3, <1>4, <2>1, <2>2, IdleOperation DEF Operation
<1>6. /\ DOMAIN q.old = fs
      /\ \A f \in fs : q.old[f] = files[f]
    BY <1>1, <1>5, PartType DEF TypeOK
<1> HIDE DEF q
<1>7. op'[w] = q /\ \A o \in Writers \ {w} : op'[o] = op[o]
    BY <1>1, <1>2 DEF TypeOK
<1>8. TypeOK'
    BY <1>1, <1>2, <1>4, <1>5 DEF TypeOK
<1>9. UNCHANGED Effective
    <2>1. Effective' = Recovered' /\ Effective = Recovered
        BY <1>1, <1>2, <1>5, <1>7 DEF Effective, Recovered, Readable
    <2> QED
        BY <1>2, <2>1 DEF Recovered
<1>10. w \in Clients => seen[w] = {Part(Effective, Tracked)}
    <2>1. Effective = files
        BY <1>1 DEF Effective, Readable, TypeOK, Configs
    <2> QED
        BY <2>1 DEF Begin
<1>11. Phase(w)' /\ RuntimePhase(w)'
    BY <1>1, <1>2, <1>3, <1>4, <1>5, <1>6, <1>7, <1>9, <1>10
       DEF Phase, RuntimePhase, Journaled, Readable
<1> QED
    BY <1>1, <1>2, <1>7, <1>8, <1>9, <1>11, HolderStep DEF Readable

\* A dashboard's snapshot leaves what is in effect alone.
LEMMA ReadKeepsEffective ==
    ASSUME IInv, NEW c \in Clients,
           \/ BeginRead(c)
           \/ \E f \in Files : ReadFile(c, f)
    PROVE  UNCHANGED Effective
<1>1. TypeOK /\ c \in Writers
    BY DEF IInv, Writers
<1>2. ASSUME BeginRead(c)
      PROVE  UNCHANGED Effective
    <2>1. lock = None /\ lock' = c /\ op'[c].pc = "read"
          /\ UNCHANGED <<files, journal>>
        BY <1>1, <1>2, IdleOperation
           DEF BeginRead, Readable, TypeOK, Operation, Steps
    <2> QED
        BY <2>1, ConstantsAssumption DEF Effective, Writers, Others
<1>3. ASSUME NEW f \in Files, ReadFile(c, f)
      PROVE  UNCHANGED Effective
    <2>1. op[c].pc = "read" /\ op'[c].pc = "read" /\ lock' = lock /\ lock = c
          /\ UNCHANGED <<files, journal>>
        BY <1>1, <1>3, Holder DEF ReadFile, TypeOK, Operation
    <2> QED
        BY <2>1 DEF Effective
<1> QED
    BY <1>2, <1>3

\* A crash of the gateway drops its lock. Nothing comes into effect but an
\* overlay edit whose file was replaced.
LEMMA CrashGatewayKeepsIInv ==
    ASSUME IInv, CrashGateway
    PROVE  /\ IInv'
           /\ \/ UNCHANGED Effective
              \/ \E w \in Others : Atomic!Written(w)
<1>1. TypeOK /\ UNCHANGED <<files, journal, updates>>
    BY DEF IInv, CrashGateway
<1>2. TypeOK'
    BY <1>1, IdleOperation DEF TypeOK, CrashGateway
<1>3. \A w \in Gateway \cap Writers : op'[w].pc = "idle"
    BY <1>1, IdleOperation DEF CrashGateway, TypeOK
<1>4. CASE lock \in Gateway
    <2>1. lock' = None
        BY <1>4 DEF CrashGateway
    <2>2. \A w \in Writers : op'[w].pc = "idle"
        BY <1>1, <1>3, <1>4, ConstantsAssumption
           DEF IInv, Exclusive, CrashGateway, TypeOK
    <2>3. IInv'
        BY <1>2, <2>2, IdleStep
    <2>4. Effective' = Recovered'
        BY <2>1, ConstantsAssumption DEF Effective, Recovered, Writers, Others
    <2>5. Recovered' = Recovered
        BY <1>1 DEF Recovered
    <2>6. CASE op[lock].pc \notin {"reload", "undo"}
        BY <2>3, <2>4, <2>5, <2>6, EffectiveRecovered
    <2>7. CASE op[lock].pc \in {"reload", "undo"}
        <3>1. lock \in Writers /\ Phase(lock) /\ op[lock] \in Operation
            BY <1>1, <1>4, <2>7, ConstantsAssumption
               DEF IInv, TypeOK, Gateway, Writers, Others
        <3>2. /\ lock \in Overlays /\ DOMAIN journal = {}
              /\ OverlayFile \in Files
              /\ Effective =
                    [files EXCEPT ![OverlayFile] = op[lock].old[OverlayFile]]
            BY <2>7, <3>1, OverlayEffective
        <3>3. /\ op[lock].content \in Contents /\ op[lock].content.by = lock
              /\ files[OverlayFile] \in
                    {op[lock].content, op[lock].old[OverlayFile]}
            BY <2>7, <3>1 DEF Phase, Operation
        <3>4. Effective' = files
            BY <1>1, <2>4, <3>2 DEF Recovered, TypeOK, Configs
        <3>5. CASE files[OverlayFile] = op[lock].old[OverlayFile]
            <4>1. Effective = files
                BY <1>1, <3>2, <3>5 DEF TypeOK, Configs
            <4> QED
                BY <2>3, <3>4, <4>1
        <3>6. CASE files[OverlayFile] = op[lock].content
            <4>1. Effective' = [f \in Files |-> IF f \in {OverlayFile}
                                                THEN op[lock].content
                                                ELSE Effective[f]]
                BY <1>1, <3>2, <3>4, <3>6 DEF TypeOK, Configs
            <4>2. {OverlayFile} \in SUBSET Files
                BY <3>2
            <4>3. Atomic!Written(lock)
                BY <3>3, <4>1, <4>2 DEF Atomic!Written
            <4> QED
                BY <2>3, <3>2, <4>3 DEF Others
        <3> QED
            BY <3>3, <3>5, <3>6
    <2> QED
        BY <2>6, <2>7
<1>5. CASE lock \notin Gateway
    <2>1. lock' = lock
        BY <1>5 DEF CrashGateway
    <2>2. \A w \in Writers : op'[w].pc = "idle" \/ op'[w] = op[w]
        BY <1>1, <1>3 DEF CrashGateway, TypeOK
    <2>3. Exclusive'
        BY <2>1, <2>2 DEF IInv, Exclusive
    <2>4. UNCHANGED Effective
        BY <1>1, <1>5, <2>1 DEF Effective, Gateway
    <2>5. ASSUME NEW w \in Writers
          PROVE  Phase(w)' /\ RuntimePhase(w)'
        <3>1. CASE op'[w].pc = "idle"
            BY <3>1, IdlePhase
        <3>2. CASE op'[w].pc # "idle"
            <4>1. op'[w] = op[w] /\ w \notin Gateway /\ w \notin Clients
                BY <1>3, <2>2, <3>2 DEF Gateway
            <4>2. Phase(w)
                BY DEF IInv
            <4> QED
                BY <1>1, <4>1, <4>2 DEF Phase, RuntimePhase, Journaled
        <3> QED
            BY <3>1, <3>2
    <2> QED
        BY <1>2, <2>3, <2>4, <2>5 DEF IInv
<1> QED
    BY <1>4, <1>5

\* The gateway starts or reloads.
LEMMA LoadKeepsIInv ==
    ASSUME IInv, Load
    PROVE  IInv' /\ UNCHANGED Effective
<1>1. TypeOK' /\ \A w \in Writers : op'[w].pc = "idle"
    BY Nobody DEF Load, Readable, IInv, TypeOK
<1>2. IInv'
    BY <1>1, IdleStep
<1>3. UNCHANGED Effective
    BY DEF Load, Effective
<1> QED
    BY <1>2, <1>3

\* The operator repairs an installation.
LEMMA RepairKeepsIInv ==
    ASSUME IInv, Repair
    PROVE  IInv' /\ UNCHANGED Effective
<1>1. TypeOK /\ lock = None /\ lock' = None /\ None \notin Overlays
    BY ConstantsAssumption DEF IInv, Repair, Writers, Others
<1>2. files' = Recovered /\ Effective = Recovered
    BY <1>1 DEF Repair, Recovered, Effective
<1>3. Recovered \in Configs
    BY <1>1, PartialEntries DEF Recovered, TypeOK, Configs
<1>4. TypeOK' /\ \A w \in Writers : op'[w].pc = "idle"
    BY <1>1, <1>2, <1>3, IdleOperation, Nobody DEF Repair, TypeOK
<1>5. IInv'
    BY <1>4, IdleStep
<1>6. Effective' = files'
    <2>1. Effective' = [f \in Files |-> files'[f]]
        BY <1>1, IdleOperation DEF Repair, Effective
    <2> QED
        BY <1>2, <1>3, <2>1 DEF Configs
<1> QED
    BY <1>2, <1>5, <1>6

-----------------------------------------------------------------------------
(* Every step keeps the invariant and is a step of AtomicConfiguration. *)

\* What a step does to the abstract configuration.
AtomicStep == Atomic!Next \/ UNCHANGED Atomic!vars

LEMMA Stutter ==
    ASSUME UNCHANGED <<Effective, seen>>
    PROVE  AtomicStep
BY DEF AtomicStep, Atomic!vars

\* An update whose writer has stated no revision.
LEMMA AtomicReplace ==
    ASSUME NEW w \in Others, Atomic!Written(w), UNCHANGED seen
    PROVE  AtomicStep
BY DEF AtomicStep, Atomic!Next, Atomic!Replace

\* A step of the holder of the lock, one case per action.
LEMMA ProceedKeepsIInv ==
    ASSUME IInv, NEW w \in Writers, Proceed(w)
    PROVE  IInv' /\ AtomicStep
<1>1. ASSUME NEW f \in Files, ReadFile(w, f)
      PROVE  IInv' /\ AtomicStep
    <2>1. w \in Clients
        BY <1>1, Holder DEF ReadFile, Phase
    <2> QED
        BY <1>1, <2>1, ReadKeepsIInv, ReadKeepsEffective, Stutter DEF ReadFile
<1>2. ASSUME NEW f \in Files, WriteFile(w, f) \/ WriteFileFails(w, f)
      PROVE  IInv' /\ AtomicStep
    BY <1>2, WriteFileKeepsIInv, Stutter DEF WriteFile, WriteFileFails
<1>3. ASSUME NEW f \in Files, RestoreFile(w, f) \/ RestoreFileFails(w, f)
      PROVE  IInv' /\ AtomicStep
    BY <1>3, RestoreFileKeepsIInv, Stutter DEF RestoreFile, RestoreFileFails
<1>4. CASE w \in Clients /\ EndRead(w)
    <2>1. Atomic!Read(w)
        BY <1>4, EndReadKeepsIInv DEF Atomic!Read, Atomic!Part, Part
    <2> QED
        BY <1>4, <2>1, EndReadKeepsIInv DEF AtomicStep, Atomic!Next
<1>5. CASE WriteJournal(w)
    BY <1>5, WriteJournalKeepsIInv, Stutter DEF WriteJournal
<1>6. CASE JournalFails(w)
    BY <1>6, JournalFailsKeepsIInv, Stutter DEF JournalFails
<1>7. CASE Activate(w) \/ ActivateFails(w) \/ CommitFails(w)
    BY <1>7, ActivateKeepsIInv, Stutter
       DEF Activate, ActivateFails, CommitFails
<1>8. CASE Commit(w)
    <2>1. CASE w \in Clients
        <3>1. Atomic!ReplaceSeen(w)
            BY <1>8, <2>1, CommitKeepsIInv
               DEF Atomic!ReplaceSeen, Atomic!Part, Part
        <3> QED
            BY <1>8, <2>1, <3>1, CommitKeepsIInv DEF AtomicStep, Atomic!Next
    <2>2. CASE w \notin Clients
        <3>1. w \in Others
            BY <2>2 DEF Writers
        <3> QED
            BY <1>8, <2>2, <3>1, CommitKeepsIInv, AtomicReplace
    <2> QED
        BY <2>1, <2>2
<1>9. CASE RestoreRuntime(w) \/ RestoreRuntimeFails(w)
    BY <1>9, RestoreRuntimeKeepsIInv, Stutter
       DEF RestoreRuntime, RestoreRuntimeFails
<1>10. CASE Undone(w) \/ KeepJournal(w)
    BY <1>10, UndoneKeepsIInv, Stutter DEF Undone, KeepJournal
<1>11. CASE ReplaceOverlay(w) \/ ReplaceOverlayFails(w)
            \/ ReloadOverlayFails(w)
    BY <1>11, OverlayKeepsIInv, Stutter
       DEF ReplaceOverlay, ReplaceOverlayFails, ReloadOverlayFails
<1>12. CASE ReloadOverlay(w)
    BY <1>12, ReloadOverlayKeepsIInv, AtomicReplace DEF ReloadOverlay
<1>13. CASE UndoOverlay(w) \/ UndoOverlayFails(w)
    BY <1>13, UndoOverlayKeepsIInv, AtomicReplace, Stutter
       DEF UndoOverlay, UndoOverlayFails
<1> QED
    BY <1>1, <1>2, <1>3, <1>4, <1>5, <1>6, <1>7, <1>8, <1>9, <1>10, <1>11,
       <1>12, <1>13 DEF Proceed

\* The same of every step.
LEMMA StepKeepsIInv ==
    ASSUME IInv, [Next]_vars
    PROVE  IInv' /\ AtomicStep
<1>1. ASSUME NEW c \in Clients, BeginRead(c)
      PROVE  IInv' /\ AtomicStep
    BY <1>1, ReadKeepsIInv, ReadKeepsEffective, Stutter DEF BeginRead
<1>2. ASSUME NEW w \in Writers, NEW fs \in SUBSET Files, Begin(w, fs)
      PROVE  IInv' /\ AtomicStep
    BY <1>2, BeginKeepsIInv, Stutter DEF Begin
<1>3. ASSUME NEW w \in Writers, Proceed(w)
      PROVE  IInv' /\ AtomicStep
    BY <1>3, ProceedKeepsIInv
<1>4. CASE CrashGateway
    <2>1. Atomic!Restart
        <3>1. seen' = [c \in Clients |-> {}]
            BY <1>4 DEF CrashGateway
        <3>2. UNCHANGED Effective \/ \E w \in Others : Atomic!Written(w)
            BY <1>4, CrashGatewayKeepsIInv
        <3> QED
            BY <3>1, <3>2 DEF Atomic!Restart
    <2> QED
        BY <1>4, <2>1, CrashGatewayKeepsIInv DEF AtomicStep, Atomic!Next
<1>5. ASSUME NEW w \in Clis, CrashCli(w)
      PROVE  IInv' /\ AtomicStep
    BY <1>5, CrashCliKeepsIInv, Stutter DEF CrashCli
<1>6. CASE Load
    BY <1>6, LoadKeepsIInv, Stutter DEF Load
<1>7. CASE Repair
    BY <1>7, RepairKeepsIInv, Stutter DEF Repair
<1>8. CASE UNCHANGED vars
    <2>1. UNCHANGED <<Effective, seen>>
        BY <1>8 DEF vars, Effective
    <2>2. IInv'
        BY <1>8 DEF vars, IInv, TypeOK, Exclusive, Phase, RuntimePhase,
                    Effective
    <2> QED
        BY <2>1, <2>2, Stutter
<1> QED
    BY <1>1, <1>2, <1>3, <1>4, <1>5, <1>6, <1>7, <1>8 DEF Next

\* Nothing is under way at first.
LEMMA InitKeepsIInv ==
    ASSUME Init
    PROVE  IInv /\ Atomic!Init
<1>1. files \in Configs /\ Effective = files
    <2>1. [by |-> None, n |-> 0] \in Contents
        BY ConstantsAssumption DEF Contents
    <2>2. files \in Configs
        BY <2>1 DEF Init, Configs
    <2> QED
        BY <2>2, IdleOperation, ConstantsAssumption
           DEF Init, Effective, Configs, Writers, Others
<1>2. TypeOK
    BY <1>1, IdleOperation, ConstantsAssumption DEF Init, TypeOK
<1>3. \A w \in Writers : op[w].pc = "idle"
    BY IdleOperation DEF Init
<1>4. IInv
    BY <1>2, <1>3 DEF IInv, Exclusive, Phase, RuntimePhase, Journaled
<1>5. Atomic!Init
    BY <1>1 DEF Init, Atomic!Init, Configs
<1> QED
    BY <1>4, <1>5

LEMMA Invariance == Spec => []IInv
<1>1. Init => IInv
    BY InitKeepsIInv
<1>2. IInv /\ [Next]_vars => IInv'
    BY StepKeepsIInv
<1> QED
    BY <1>1, <1>2, PTL DEF Spec

-----------------------------------------------------------------------------
(* The theorems. *)

\* Every variable keeps its type: a recovery file never names a file that is
\* not a configuration file, a snapshot is always complete.
THEOREM TypeCorrect == Spec => []TypeOK
<1>1. IInv => TypeOK
    BY DEF IInv
<1> QED
    BY <1>1, Invariance, PTL

\* replace_configuration, overlay edits, crashes and repairs implement the
\* abstract configuration: an update takes effect as a whole or not at all, a
\* snapshot is never a mixture of two updates, and a dashboard's update replaces
\* exactly what that dashboard was shown.
THEOREM UpdatesAreAtomic == Spec => AppliesAtomically
<1>1. Init => Atomic!Init
    BY InitKeepsIInv
<1>2. IInv /\ [Next]_vars => [Atomic!Next]_Atomic!vars
    BY StepKeepsIInv DEF AtomicStep
<1> QED
    BY <1>1, <1>2, Invariance, PTL DEF Spec, AppliesAtomically, Atomic!Spec

-----------------------------------------------------------------------------
(* The running gateway and the files. *)

\* The end of an update of w.
Ends(w) ==
    /\ lock = w /\ op[w].pc # "read" /\ op[w].pc # "undo"
    /\ op[w].before # Torn
    /\ lock' = None /\ runtime' # Down

\* What RuntimeFollowsDisk asks of it.
Follows(w) ==
    \/ runtime' = Effective'
    \/ Effective' = Effective /\ runtime' = op[w].before
    \/ Effective' = Effective /\ DOMAIN journal' # {}

\* The actions with which an update of the gateway ends.
LEMMA EndFollows ==
    ASSUME IInv, NEW w \in Gateway, w \in Writers, op[w].before # Torn,
           \/ JournalFails(w) \/ Commit(w) \/ Undone(w) \/ KeepJournal(w)
           \/ ReloadOverlay(w)
    PROVE  Follows(w)
<1>1. CASE JournalFails(w)
    <2>1. RuntimePhase(w) /\ op[w].pc = "journal"
        BY <1>1, Holder DEF JournalFails
    <2> QED
        BY <1>1, <2>1, JournalFailsKeepsIInv
           DEF Follows, JournalFails, RuntimePhase
<1>2. CASE Commit(w)
    BY <1>2, CommitKeepsIInv DEF Follows
<1>3. CASE Undone(w)
    <2>1. RuntimePhase(w) /\ op[w].pc = "release" /\ ~op[w].failed
        BY <1>3, Holder DEF Undone
    <2> QED
        BY <1>3, <2>1, UndoneKeepsIInv DEF Follows, Undone, RuntimePhase
<1>4. CASE KeepJournal(w)
    <2>1. Phase(w) /\ op[w].pc = "release"
        BY <1>4, Holder DEF KeepJournal
    <2>2. DOMAIN journal # {}
        BY <2>1 DEF Phase, Journaled
    <2> QED
        BY <1>4, <2>2, UndoneKeepsIInv DEF Follows, KeepJournal
<1>5. CASE ReloadOverlay(w)
    BY <1>5, ReloadOverlayKeepsIInv DEF Follows
<1> QED
    BY <1>1, <1>2, <1>3, <1>4, <1>5

\* The actions with which a thread of the gateway gives up the lock.
LEMMA ReleasedBy ==
    ASSUME IInv, NEW w \in Gateway, w \in Writers, [Next]_vars,
           lock = w, lock' = None, runtime' # Down
    PROVE  \/ w \in Clients /\ EndRead(w)
           \/ JournalFails(w) \/ Commit(w) \/ Undone(w) \/ KeepJournal(w)
           \/ ReloadOverlay(w) \/ UndoOverlay(w) \/ UndoOverlayFails(w)
<1>1. w # None /\ lock # None /\ lock' # lock
    BY ConstantsAssumption
<1>2. ASSUME NEW v \in Writers, Proceed(v)
      PROVE  \/ w \in Clients /\ EndRead(w)
             \/ JournalFails(w) \/ Commit(w) \/ Undone(w) \/ KeepJournal(w)
             \/ ReloadOverlay(w) \/ UndoOverlay(w) \/ UndoOverlayFails(w)
    <2>1. op[v].pc # "idle"
        BY <1>2 DEF Proceed, ReadFile, WriteFile, WriteFileFails, RestoreFile,
                    RestoreFileFails, EndRead, WriteJournal, JournalFails,
                    Activate, ActivateFails, Commit, CommitFails,
                    RestoreRuntime, RestoreRuntimeFails, Undone, KeepJournal,
                    ReplaceOverlay, ReplaceOverlayFails, ReloadOverlay,
                    ReloadOverlayFails, UndoOverlay, UndoOverlayFails
    <2>2. v = w
        BY <2>1, Holder
    <2> QED
        BY <1>1, <1>2, <2>2
           DEF Proceed, ReadFile, WriteFile, WriteFileFails, RestoreFile,
               RestoreFileFails, WriteJournal, Activate, ActivateFails,
               CommitFails, RestoreRuntime, RestoreRuntimeFails,
               ReplaceOverlay, ReplaceOverlayFails, ReloadOverlayFails
<1>3. ASSUME NEW v \in Clis, CrashCli(v)
      PROVE  FALSE
    <2>1. v \in Writers /\ op[v].pc # "idle" /\ v # w
        BY <1>3, ConstantsAssumption DEF CrashCli, Writers, Others
    <2> QED
        BY <2>1, Holder
<1>4. ~CrashGateway
    BY DEF CrashGateway
<1>5. \A c \in Clients : ~BeginRead(c)
    BY <1>1 DEF BeginRead, Readable
<1>6. \A v \in Writers, fs \in SUBSET Files : ~Begin(v, fs)
    BY <1>1 DEF Begin, Readable
<1>7. ~Load /\ ~Repair /\ ~UNCHANGED vars
    BY <1>1 DEF Load, Repair, Readable, vars
<1> QED
    BY <1>2, <1>3, <1>4, <1>5, <1>6, <1>7 DEF Next

\* Those that end an update which is not an overlay edit being undone.
LEMMA OthersDoNotEnd ==
    ASSUME IInv, NEW w \in Gateway, w \in Writers, [Next]_vars, Ends(w)
    PROVE  \/ JournalFails(w) \/ Commit(w) \/ Undone(w) \/ KeepJournal(w)
           \/ ReloadOverlay(w)
<1>1. \/ w \in Clients /\ EndRead(w)
      \/ JournalFails(w) \/ Commit(w) \/ Undone(w) \/ KeepJournal(w)
      \/ ReloadOverlay(w) \/ UndoOverlay(w) \/ UndoOverlayFails(w)
    BY ReleasedBy DEF Ends
<1>2. ~EndRead(w) /\ ~UndoOverlay(w) /\ ~UndoOverlayFails(w)
    BY DEF Ends, EndRead, UndoOverlay, UndoOverlayFails
<1> QED
    BY <1>1, <1>2

\* When an update of the gateway ends, with whatever failures, the running
\* configuration is the one in effect on disk, or neither of them changed, or a
\* recovery file was left for the operator; a gateway that an earlier update left
\* half reconfigured is excepted.
THEOREM GatewayFollowsDisk == Spec => RuntimeFollowsDisk
<1>1. ASSUME IInv, [Next]_vars, NEW w \in Gateway, Ends(w)
      PROVE  Follows(w)
    <2>1. w \in Writers
        BY DEF Gateway, Writers, Others
    <2> QED
        BY <1>1, <2>1, EndFollows, OthersDoNotEnd DEF Ends
<1>2. IInv /\ [Next]_vars => \A w \in Gateway : Ends(w) => Follows(w)
    BY <1>1
<1>3. IInv /\ [Next]_vars
        => [\A w \in Gateway :
              /\ lock = w /\ op[w].pc # "read" /\ op[w].pc # "undo"
              /\ op[w].before # Torn
              /\ lock' = None /\ runtime' # Down
              => \/ runtime' = Effective'
                 \/ Effective' = Effective /\ runtime' = op[w].before
                 \/ Effective' = Effective /\ DOMAIN journal' # {}]_vars
    BY <1>2 DEF Ends, Follows
<1> QED
    BY <1>3, Invariance, PTL DEF Spec, RuntimeFollowsDisk

-----------------------------------------------------------------------------
(* The recovery files that are left behind. *)

\* A thread of the gateway ends with a recovery file in place.
Blocks(w) ==
    /\ lock = w /\ lock' = None /\ runtime' # Down
    /\ DOMAIN journal' # {}

\* It has tried to restore, or it has changed nothing: then the recovery file
\* says no more than the files do.
Excused(w) ==
    \/ op[w].pc = "release"
    \/ /\ op[w].pc = "journal"
       /\ UNCHANGED <<files, runtime>>
       /\ \A f \in DOMAIN journal' : journal'[f] = files'[f]

LEMMA BlocksExcused ==
    ASSUME IInv, NEW w \in Gateway, [Next]_vars, Blocks(w)
    PROVE  Excused(w)
<1>1. w \in Writers
    BY DEF Gateway, Writers, Others
<1>2. \/ w \in Clients /\ EndRead(w)
      \/ JournalFails(w) \/ Commit(w) \/ Undone(w) \/ KeepJournal(w)
      \/ ReloadOverlay(w) \/ UndoOverlay(w) \/ UndoOverlayFails(w)
    BY <1>1, ReleasedBy DEF Blocks
<1>3. CASE EndRead(w) \/ ReloadOverlay(w) \/ UndoOverlay(w) \/ UndoOverlayFails(w)
    <2>1. op[w].pc \in {"read", "reload", "undo"} /\ journal' = journal
        BY <1>3 DEF EndRead, ReloadOverlay, UndoOverlay, UndoOverlayFails
    <2>2. DOMAIN journal = {}
        BY <1>1, <2>1, Holder DEF Phase
    <2> QED
        BY <2>1, <2>2 DEF Blocks
<1>4. CASE JournalFails(w)
    <2>1. Phase(w) /\ op[w].pc = "journal"
        BY <1>1, <1>4, Holder DEF JournalFails
    <2> QED
        BY <1>4, <2>1 DEF JournalFails, Phase, Blocks, Excused
<1>5. CASE Commit(w)
    BY <1>5 DEF Commit, NoFiles, Blocks
<1>6. CASE Undone(w) \/ KeepJournal(w)
    BY <1>6 DEF Undone, KeepJournal, Excused
<1> QED
    BY <1>2, <1>3, <1>4, <1>5, <1>6

\* A running gateway leaves a recovery file behind after it has tried to restore,
\* as the documents say, or when writing that file failed: then neither files nor
\* gateway have changed, and the recovery file holds what the files hold.
THEOREM RecoveryFilesExplained ==
    Spec => [][\A w \in Gateway : Blocks(w) => Excused(w)]_vars
<1>1. IInv /\ [Next]_vars => [\A w \in Gateway : Blocks(w) => Excused(w)]_vars
    BY BlocksExcused
<1> QED
    BY <1>1, Invariance, PTL DEF Spec

=============================================================================
