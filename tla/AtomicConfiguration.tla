------------------------ MODULE AtomicConfiguration ------------------------
(***************************************************************************)
(* What the gateway promises about its configuration files, whatever       *)
(* process writes them and whatever fails (docs/http-api.md): an update is *)
(* in effect as a whole or not at all, and a client that states the        *)
(* revision it has seen replaces nothing but that revision.                *)
(*                                                                         *)
(* ConfigTransaction models the code that keeps the promise.               *)
(***************************************************************************)
CONSTANTS
    Files,     \* the configuration files
    Tracked,   \* those a revision covers
    Contents,  \* what a file can hold
    Clients,   \* writers that state a revision
    Others     \* writers that do not

VARIABLES
    config,    \* what is in effect: file -> content
    seen       \* the tracked files in a client's latest snapshot, or {}

vars == <<config, seen>>

Part(c, fs) == [f \in fs |-> c[f]]

Init ==
    /\ config \in [Files -> Contents]
    /\ seen = [c \in Clients |-> {}]

Read(c) ==
    /\ seen' = [seen EXCEPT ![c] = {Part(config, Tracked)}]
    /\ UNCHANGED config

\* Every file of an update of w gets the content of that update.
Written(w) ==
    \E fs \in SUBSET Files, content \in Contents :
        /\ content.by = w
        /\ config' = [f \in Files |-> IF f \in fs THEN content ELSE config[f]]

\* A client replaces what it has seen, and sees what it put there.
ReplaceSeen(c) ==
    /\ seen[c] = {Part(config, Tracked)}
    /\ Written(c)
    /\ seen' = [seen EXCEPT ![c] = {Part(config', Tracked)}]

Replace(w) ==
    /\ Written(w)
    /\ UNCHANGED seen

\* Revisions do not survive the gateway, which may have been about to report
\* an update that it had made.
Restart ==
    /\ seen' = [c \in Clients |-> {}]
    /\ \/ UNCHANGED config
       \/ \E w \in Others : Written(w)

Next ==
    \/ \E c \in Clients : Read(c) \/ ReplaceSeen(c)
    \/ \E w \in Others : Replace(w)
    \/ Restart

Spec == Init /\ [][Next]_vars

============================================================================
