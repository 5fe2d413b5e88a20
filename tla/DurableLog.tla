----------------------------- MODULE DurableLog -----------------------------
(***************************************************************************)
(* What the recorder of routing evidence promises (docs/routing-design.md, *)
(* "The enabled SQLite recorder ..."): what it accepts is committed in the *)
(* order in which it was accepted, a call that succeeds confirms that      *)
(* everything accepted before it is committed, and once the writer has     *)
(* failed it commits nothing more. Acceptance alone promises nothing: a    *)
(* crash may take what is not committed.                                   *)
(*                                                                         *)
(* RecordWriter models the queue and the thread that keep the promise.     *)
(***************************************************************************)
EXTENDS Naturals, Sequences

CONSTANTS
    Jobs,      \* what can be written, with a field of: on whose behalf
    Callers,   \* those who wait for the answer to their job
    None

VARIABLES
    log,       \* the jobs accepted since the last start and not committed yet
    last,      \* the job that was committed last, or None
    frozen,    \* the writer has failed
    answer     \* what each caller knows: "none", "waiting", "ok" or "failed"

vars == <<log, last, frozen, answer>>

Init ==
    /\ log = <<>>
    /\ last = None
    /\ frozen \in BOOLEAN
    /\ answer = [c \in Callers |-> "none"]

Accept(j) ==
    /\ ~frozen
    /\ log' = Append(log, j)
    /\ answer' = [c \in Callers |-> IF c = j.of THEN "waiting" ELSE answer[c]]
    /\ UNCHANGED <<last, frozen>>

\* A caller may be refused, whatever the reason.
Refuse(c) ==
    /\ answer[c] = "none"
    /\ answer' = [answer EXCEPT ![c] = "failed"]
    /\ UNCHANGED <<log, last, frozen>>

Turn(c) == log # <<>> /\ Head(log).of = c

Persist ==
    /\ log # <<>> /\ ~frozen
    /\ last' = Head(log)
    /\ log' = Tail(log)
    /\ answer' = [c \in Callers |-> IF Turn(c) THEN "ok" ELSE answer[c]]
    /\ UNCHANGED frozen

\* The next job fails, and the writer with it; or its last act fails.
Freeze ==
    /\ frozen' = TRUE
    /\ answer' = [c \in Callers |-> IF Turn(c) THEN "failed" ELSE answer[c]]
    /\ UNCHANGED <<log, last>>

\* Afterwards whoever still waits is told so.
Discard(c) ==
    /\ frozen /\ answer[c] = "waiting"
    /\ answer' = [answer EXCEPT ![c] = "failed"]
    /\ UNCHANGED <<log, last, frozen>>

Restart ==
    /\ log' = <<>>
    /\ last' = None
    /\ frozen' \in BOOLEAN
    /\ answer' = [c \in Callers |-> "none"]

Next ==
    \/ \E j \in Jobs : Accept(j)
    \/ \E c \in Callers : Refuse(c) \/ Discard(c)
    \/ Persist
    \/ Freeze
    \/ Restart

Spec == Init /\ [][Next]_vars

=============================================================================
