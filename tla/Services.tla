------------------------------- MODULE Services -------------------------------
(* Five parts of the gateway that keep state of their own and share none with  *)
(* each other: what the adapters remember of a conversation, the cache of      *)
(* model metadata, the gateway's process under the command line, the reasoning *)
(* effort of a request, and the lists of the monitoring page. A behaviour is   *)
(* one of one of them; the variables of the others are None.                   *)
EXTENDS Naturals, Sequences, FiniteSets

CONSTANTS
    None,
    \* Continuations
    Requests, Objects, Limit, QueueSize, Contents, Earlier, Histories,
    \* MetadataCache
    Readers, Sources, CacheTtl, RefreshInterval, MaxAges, MaxTime, MaxVersion,
    \* GatewayProcess
    Operators, Pids, MaxTokens,
    \* ReasoningEffort
    Top, Bases, Sections, Collections, Unknown,
    \* SessionPages
    Sessions, PageSize, MaxRetained, MaxRows, MaxNow

\* The limits are counts, the database holds no more turns of a conversation
\* than its limit, each once and none of a request of this process; a history is
\* a sequence of messages, and None is no list of turns.
ASSUME ContinuationAssumption ==
    LET turns == {[id |-> r, key |-> content.key, own |-> content.own,
                   trace |-> content.trace] : r \in Requests, content \in Contents}
        before == {Earlier[i] : i \in DOMAIN Earlier}
    IN  /\ Limit \in Nat /\ QueueSize \in Nat
        /\ 1 \in Objects
        /\ Earlier \in Seq(before) /\ Len(Earlier) <= Limit
        /\ \A i, j \in DOMAIN Earlier : Earlier[i].id = Earlier[j].id => i = j
        /\ \A i \in DOMAIN Earlier : Earlier[i].id \notin Requests
        /\ \A messages \in Histories :
              messages \in Seq({messages[i] : i \in DOMAIN messages})
        /\ None \notin Seq(turns \cup before)

\* What a cache may be configured with, and that None stands for nothing else.
ASSUME MetadataAssumption ==
    /\ CacheTtl \in Nat \ {0} /\ MaxTime \in Nat
    /\ MaxAges \subseteq Nat
    /\ None \notin Readers \cup Nat
    /\ None \notin [version : Nat, current : BOOLEAN, storedAt : Nat, ttl : Nat,
                    validator : Nat \cup {None}]

\* PIDs and launches are counted, and None is neither a process nor a PID file.
ASSUME ProcessAssumption ==
    /\ MaxTokens \in Nat
    /\ None \notin [token : Nat, signalled : BOOLEAN]
    /\ None \notin [pid : Pids, token : Nat]

\* What the catalog's validation guarantees of a policy, of what a strategy says
\* of it, and of a collection of labels: maps of names to levels, a label's own
\* level being optional. None and Unknown are no levels.
ASSUME EffortAssumption ==
    LET Map(map) == map # None /\ map \in [DOMAIN map -> 0..Top]
        Collection(labels) ==
            labels # None /\ labels \in [DOMAIN labels -> 0..Top \cup {None}]
    IN  /\ Top \in Nat
        /\ {None, Unknown} \cap Nat = {} /\ None # Unknown
        /\ \A inherited \in Bases :
              /\ DOMAIN inherited = {"mode", "labels", "by_label", "by_tier", "fallback"}
              /\ inherited.mode \in {"off", "preserve", "fill", "cap", "override"}
              /\ Collection(inherited.labels)
              /\ Map(inherited.by_label) /\ Map(inherited.by_tier)
              /\ inherited.fallback \in 0..Top
        /\ \A own \in Sections :
              /\ DOMAIN own = {"mode", "by_label", "by_tier", "fallback"}
              /\ own # None
              /\ own.mode \in {"off", "preserve", "fill", "cap", "override", None}
              /\ own.by_label # None => Map(own.by_label)
              /\ own.by_tier # None => Map(own.by_tier)
              /\ own.fallback \in 0..Top \cup {None}
        /\ \A labels \in Collections : Collection(labels)

\* Sessions are finitely many, a page holds at least one entry, and None is no
\* key, time, list or memory of sessions.
ASSUME ListAssumption ==
    /\ Sessions \subseteq Nat /\ IsFiniteSet(Sessions)
    /\ PageSize \in Nat \ {0} /\ MaxRetained \in Nat
    /\ MaxRows \in Nat /\ MaxNow \in Nat
    /\ None \notin Nat \cup (Nat \X Nat \X Nat)
    /\ None \notin [Sessions -> 0..MaxNow \cup {None}]
    /\ None \notin {"sessions", "sessions:retained", "requests", "requests:retained"}

VARIABLES
    part,           \* the part this behaviour is one of
    enabled, object, memory, turn, uses, batch, replayed, queue, broken, durable,
    told, accepted, known,
    clock, published, cache, lastAttempt, fetcher, reader,
    process, record, issued, command, abandoned, raced,
    ladder, base, section, replaced, policy, effort,
    rows, live, now, serial, walk, steady, emptied

C == INSTANCE Continuations WITH Nothing <- None
M == INSTANCE MetadataCache WITH Absent <- None
P == INSTANCE GatewayProcess
E == INSTANCE ReasoningEffort WITH Unset <- None
L == INSTANCE SessionPages

continuationVars == <<enabled, object, memory, turn, uses, batch, replayed, queue,
                      broken, durable, told, accepted, known>>
metadataVars == <<clock, published, cache, lastAttempt, fetcher, reader>>
processVars == <<process, record, issued, command, abandoned, raced>>
effortVars == <<ladder, base, section, replaced, policy, effort>>
listVars == <<rows, live, now, serial, walk, steady, emptied>>

vars == <<part, continuationVars, metadataVars, processVars, effortVars, listVars>>

-----------------------------------------------------------------------------
NoContinuations ==
    /\ enabled = None /\ object = None /\ memory = None /\ turn = None
    /\ uses = None /\ batch = None /\ replayed = None /\ queue = None
    /\ broken = None /\ durable = None /\ told = None /\ accepted = None
    /\ known = None

NoMetadata ==
    /\ clock = None /\ published = None /\ cache = None /\ lastAttempt = None
    /\ fetcher = None /\ reader = None

NoProcess ==
    /\ process = None /\ record = None /\ issued = None /\ command = None
    /\ abandoned = None /\ raced = None

NoEffort ==
    /\ ladder = None /\ base = None /\ section = None /\ replaced = None
    /\ policy = None /\ effort = None

NoLists ==
    /\ rows = None /\ live = None /\ now = None /\ serial = None
    /\ walk = None /\ steady = None /\ emptied = None

Init ==
    \/ /\ part = "continuations" /\ C!Init
       /\ NoMetadata /\ NoProcess /\ NoEffort /\ NoLists
    \/ /\ part = "metadata" /\ M!Init
       /\ NoContinuations /\ NoProcess /\ NoEffort /\ NoLists
    \/ /\ part = "process" /\ P!Init
       /\ NoContinuations /\ NoMetadata /\ NoEffort /\ NoLists
    \/ /\ part = "effort" /\ E!Init
       /\ NoContinuations /\ NoMetadata /\ NoProcess /\ NoLists
    \/ /\ part = "lists" /\ L!Init
       /\ NoContinuations /\ NoMetadata /\ NoProcess /\ NoEffort

Next ==
    \/ /\ part = "continuations" /\ C!Next
       /\ UNCHANGED <<part, metadataVars, processVars, effortVars, listVars>>
    \/ /\ part = "metadata" /\ M!Next
       /\ UNCHANGED <<part, continuationVars, processVars, effortVars, listVars>>
    \/ /\ part = "process" /\ P!Next
       /\ UNCHANGED <<part, continuationVars, metadataVars, effortVars, listVars>>
    \/ /\ part = "effort" /\ E!Next
       /\ UNCHANGED <<part, continuationVars, metadataVars, processVars, listVars>>
    \/ /\ part = "lists" /\ L!Next
       /\ UNCHANGED <<part, continuationVars, metadataVars, processVars, effortVars>>

\* Nothing is left to do. Operators can always give another command.
Done ==
    /\ \/ part = "continuations" /\ C!Finished
       \/ part = "metadata" /\ M!Finished
       \/ part = "effort" /\ E!Finished
       \/ part = "lists" /\ L!Ended
    /\ UNCHANGED vars

Spec == Init /\ [][Next \/ Done]_vars

-----------------------------------------------------------------------------
(* Properties. *)

\* The state of each part has its type.
TypeOK ==
    /\ part = "continuations" => C!TypeOK
    /\ part = "metadata" => M!TypeOK
    /\ part = "process" => P!TypeOK
    /\ part = "effort" => E!TypeOK
    /\ part = "lists" => L!TypeOK

\* An adapter remembers the newest turns it was told of, in order, from disk and
\* from this process, and gives a replayed turn its own reasoning back.
RemembersTurns == part = "continuations" => C!RemembersTurns

\* An answer of the metadata cache is no older than it is allowed to be, and
\* says so when it is stale.
AnswersHonestly == part = "metadata" => M!AnswersHonestly

\* What stop, restart and start report of the gateway is so.
ReportsAreReal ==
    [][part = "process" =>
         \A o \in Operators : P!Reports(o)]_vars

\* The PID file names every gateway that is meant to run.
GatewaysAreRecorded == part = "process" => P!GatewaysAreRecorded

\* The reasoning effort that is sent is a level of the route, the nearest to
\* what was asked for.
EffortFits == part = "effort" => E!EffortFits

\* A client that follows the cursors of a list sees everything that stays in
\* its place once.
PagesAreComplete == part = "lists" => L!PagesAreComplete

=============================================================================
