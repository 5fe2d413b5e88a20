---------------------------- MODULE GatewayProcess ----------------------------
(* Commands that start, stop, restart and uninstall the gateway of a home      *)
(* directory (cli/process.py and its callers), run by operators who may run    *)
(* them at once or break them off. All a command knows of the gateway is the   *)
(* PID file: a PID, which the system gives to another process once its owner   *)
(* is gone, and the token of the launch, which nobody else has.                *)
EXTENDS Naturals, FiniteSets

CONSTANTS
    Operators,
    Pids,               \* what the system gives out, again and again
    MaxTokens,          \* bound: launches
    None                \* no PID file, no process

VARIABLES
    process,        \* what runs under each PID: token 0 is not a gateway
    record,         \* the PID file: [pid, token] or None
    issued,         \* tokens handed out
    command,        \* each operator's command: the step it is at and its locals
    abandoned,      \* history: launches broken off before they were recorded
    raced           \* history: another command ran while one was launching

vars == <<process, record, issued, command, abandoned, raced>>

Kinds == {"start", "stop", "restart", "update", "uninstall"}

NoCommand == [at |-> "idle", kind |-> "start", force |-> FALSE, wait |-> FALSE,
              target |-> None, result |-> "none"]

Init ==
    /\ process = [p \in Pids |-> None]
    /\ record = None
    /\ issued = 0
    /\ command = [o \in Operators |-> NoCommand]
    /\ abandoned = {}
    /\ raced = FALSE

\* A child that has exited keeps its PID while the command that launched it runs.
Unreaped(p) ==
    \E o \in Operators :
        /\ command[o].at \in {"record", "wait"}
        /\ command[o].target.pid = p

Exists(p) == process[p] # None \/ Unreaped(p)

\* _owned: the process exists, is no zombie and was launched with the token.
Owned(target) ==
    /\ target # None
    /\ process[target.pid] # None
    /\ process[target.pid].token = target.token

-----------------------------------------------------------------------------
(* Locals of a command. *)

Launching(c) == c.at \in {"popen", "record"}

\* Whether, with these commands, one launches while another one is under way.
Racing(commands) ==
    \E o, other \in Operators :
        o # other /\ Launching(commands[o]) /\ commands[other].at # "idle"

Become(o, c) ==
    /\ command' = [command EXCEPT ![o] = c]
    /\ raced' = (raced \/ Racing(command'))

Goto(o, step) == Become(o, [command[o] EXCEPT !.at = step])

Report(o, result) ==
    Become(o, [NoCommand EXCEPT !.result = result])

\* process.start within another command, from its first line.
StartAfterwards(o) ==
    Become(o, [NoCommand EXCEPT !.at = "read", !.wait = command[o].kind = "update"])

\* No gateway of this home to stop: restart and uninstall go on without one.
NotRunning(o) ==
    CASE command[o].kind = "restart" -> StartAfterwards(o)
      [] command[o].kind = "uninstall" -> Goto(o, "purge")
      [] command[o].kind = "update" -> Report(o, "ownership_unverified")
      [] OTHER -> Report(o, "not_running")

-----------------------------------------------------------------------------
(* The system. *)

\* Another program takes a PID that is free. A gateway in the foreground, jev start
\* --foreground, is one of them: it has no PID file and no token to be known by.
ForeignStarts(p) ==
    /\ ~Exists(p)
    /\ process' = [process EXCEPT ![p] = [token |-> 0, signalled |-> FALSE]]
    /\ UNCHANGED <<record, issued, command, abandoned, raced>>

\* By itself or on a signal, which a gateway may be slow to follow.
Exits(p) ==
    /\ process[p] # None
    /\ process' = [process EXCEPT ![p] = None]
    /\ UNCHANGED <<record, issued, command, abandoned, raced>>

-----------------------------------------------------------------------------
(* Finding the gateway. *)

Begin(o, kind, force) ==
    /\ command[o].at = "idle"
    /\ force => kind = "stop"
    /\ Become(o, [NoCommand EXCEPT !.at = "read", !.kind = kind, !.force = force,
                                   !.wait = kind = "start"])
    /\ UNCHANGED <<process, record, issued, abandoned>>

\* The PID file is read; stop_if_owned reads it once more, and it must name the
\* gateway that running_for_update found.
Read(o) ==
    /\ \/ /\ command[o].at = "read"
          /\ Become(o, [command[o] EXCEPT !.at = "check", !.target = record])
       \/ /\ command[o].at = "reread"
          /\ IF record = command[o].target THEN Goto(o, "verify")
                                           ELSE Report(o, "ownership_unverified")
    /\ UNCHANGED <<process, record, issued, abandoned>>

\* Mutant: a start does not look whether the recorded gateway still runs.
CheckStopsOnly(o) ==
    LET target == command[o].target
        kind == command[o].kind
    IN  /\ command[o].at = "check"
        /\ CASE kind = "start" -> Goto(o, "popen")
             [] kind = "update" /\ target = None -> Report(o, "not_running")
             [] kind = "update" /\ Owned(target) -> Goto(o, "reread")
             [] kind = "update" /\ ~Owned(target) ->
                    Report(o, IF Exists(target.pid) THEN "ownership_unverified"
                                                    ELSE "not_running")
             [] kind = "uninstall" /\ Owned(target) ->
                    Become(o, [command[o] EXCEPT !.at = "read", !.kind = "remove"])
             [] OTHER -> IF Owned(target) THEN Goto(o, "verify") ELSE NotRunning(o)
        /\ UNCHANGED <<process, record, issued, abandoned>>

\* Ownership is established: status, _read_pid and running_for_update.
Check(o) ==
    LET target == command[o].target
        kind == command[o].kind
    IN  /\ command[o].at = "check"
        /\ CASE kind = "start" ->
                    IF Owned(target) THEN Report(o, "already_running")
                                     ELSE Goto(o, "popen")
             [] kind = "update" /\ target = None -> Report(o, "not_running")
             [] kind = "update" /\ Owned(target) -> Goto(o, "reread")
             [] kind = "update" /\ ~Owned(target) ->
                    Report(o, IF Exists(target.pid) THEN "ownership_unverified"
                                                    ELSE "not_running")
             \* uninstall asks for the status first, then stops.
             [] kind = "uninstall" /\ Owned(target) ->
                    Become(o, [command[o] EXCEPT !.at = "read", !.kind = "remove"])
             [] OTHER -> IF Owned(target) THEN Goto(o, "verify") ELSE NotRunning(o)
        /\ UNCHANGED <<process, record, issued, abandoned>>

\* And once more right before the signal.
Verify(o) ==
    /\ command[o].at = "verify"
    /\ IF Owned(command[o].target) THEN Goto(o, "signal") ELSE NotRunning(o)
    /\ UNCHANGED <<process, record, issued, abandoned>>

-----------------------------------------------------------------------------
(* Stopping it. *)

\* SIGTERM reaches whoever has the PID by now.
Signalled(p) ==
    IF process[p] = None THEN process
    ELSE [process EXCEPT ![p].signalled = TRUE]

Signal(o) ==
    LET p == command[o].target.pid
    IN  /\ command[o].at = "signal"
        /\ process' = Signalled(p)
        /\ IF Exists(p) THEN Goto(o, "poll") ELSE NotRunning(o)
        /\ UNCHANGED <<record, issued, abandoned>>

\* The gateway is gone. While it is not, the command looks again.
Poll(o) ==
    /\ command[o].at = "poll" /\ ~Owned(command[o].target)
    /\ Become(o, [command[o] EXCEPT !.at = "unlink", !.result = "stopped"])
    /\ UNCHANGED <<process, record, issued, abandoned>>

Timeout(o) ==
    /\ command[o].at = "poll"
    /\ IF command[o].force THEN Goto(o, "force") ELSE Report(o, "stop_timeout")
    /\ UNCHANGED <<process, record, issued, abandoned>>

\* Mutant: --force gives up a gateway that ignores the signal.
ForceUnlink(o) ==
    /\ command[o].at = "force"
    /\ Become(o, [command[o] EXCEPT !.at = "unlink", !.result = "killed"])
    /\ UNCHANGED <<process, record, issued, abandoned>>

\* --force kills it if it is still there.
Force(o) ==
    /\ command[o].at = "force"
    /\ Become(o, [command[o] EXCEPT !.result = "killed",
                     !.at = IF Owned(command[o].target) THEN "kill" ELSE "unlink"])
    /\ UNCHANGED <<process, record, issued, abandoned>>

Kill(o) ==
    /\ command[o].at = "kill"
    /\ process' = [process EXCEPT ![command[o].target.pid] = None]
    /\ Goto(o, "unlink")
    /\ UNCHANGED <<record, issued, abandoned>>

\* The PID file is removed, whatever it says by now.
Unlink(o) ==
    /\ command[o].at = "unlink"
    /\ record' = None
    /\ CASE command[o].kind \in {"restart", "update"} -> StartAfterwards(o)
         [] command[o].kind = "remove" -> Goto(o, "purge")
         [] OTHER -> Report(o, command[o].result)
    /\ UNCHANGED <<process, issued, abandoned>>

\* uninstall: --purge removes the home directory and the PID file in it.
Purge(o, all) ==
    /\ command[o].at = "purge"
    /\ record' = IF all THEN None ELSE record
    /\ Report(o, "uninstalled")
    /\ UNCHANGED <<process, issued, abandoned>>

-----------------------------------------------------------------------------
(* Starting one. *)

Popen(o, p) ==
    /\ command[o].at = "popen"
    /\ issued < MaxTokens /\ ~Exists(p)
    /\ issued' = issued + 1
    /\ process' = [process EXCEPT ![p] = [token |-> issued', signalled |-> FALSE]]
    /\ Become(o, [command[o] EXCEPT !.at = "record",
                     !.target = [pid |-> p, token |-> issued']])
    /\ UNCHANGED <<record, abandoned>>

PopenFails(o) ==
    /\ command[o].at = "popen"
    /\ Report(o, "failed")
    /\ UNCHANGED <<process, record, issued, abandoned>>

\* os.replace of the PID file, or an OSError and the child is told to end.
Record(o) ==
    /\ command[o].at = "record"
    /\ \/ /\ record' = command[o].target
          /\ IF command[o].wait THEN Goto(o, "wait") ELSE Report(o, "starting")
          /\ UNCHANGED process
       \/ /\ process' = Signalled(command[o].target.pid)
          /\ Report(o, "failed")
          /\ UNCHANGED record
    /\ UNCHANGED <<issued, abandoned>>

\* _start_and_wait: the recorded gateway must run under the PID that was
\* launched and answer, or the command gives up.
Wait(o) ==
    /\ command[o].at = "wait"
    /\ \/ Owned(record) /\ record.pid = command[o].target.pid /\ Report(o, "running")
       \/ ~Owned(record) /\ Report(o, "start_failed")
       \/ Report(o, "start_timeout")
    /\ UNCHANGED <<process, record, issued, abandoned>>

\* The operator breaks the command off, or it dies.
Crash(o) ==
    /\ command[o].at # "idle"
    /\ abandoned' = IF command[o].at = "record"
                    THEN abandoned \cup {command[o].target.token} ELSE abandoned
    /\ Report(o, "interrupted")
    /\ UNCHANGED <<process, record, issued>>

-----------------------------------------------------------------------------
Next ==
    \/ \E p \in Pids : ForeignStarts(p) \/ Exits(p)
    \/ \E o \in Operators :
          \/ \E kind \in Kinds, force \in BOOLEAN : Begin(o, kind, force)
          \/ Read(o) \/ Check(o) \/ Verify(o) \/ Signal(o) \/ Poll(o) \/ Timeout(o)
          \/ Force(o) \/ Kill(o) \/ Unlink(o)
          \/ \E all \in BOOLEAN : Purge(o, all)
          \/ \E p \in Pids : Popen(o, p)
          \/ PopenFails(o) \/ Record(o) \/ Wait(o) \/ Crash(o)

-----------------------------------------------------------------------------
(* Properties. *)

Gateways == {p \in Pids : process[p] # None /\ process[p].token # 0}

TypeOK ==
    /\ issued \in 0..MaxTokens
    /\ \A p \in Gateways : process[p].token \in 1..issued
    /\ \A p, q \in Gateways : process[p].token = process[q].token => p = q
    /\ record # None => record.pid \in Pids /\ record.token \in 1..issued
    /\ \A o \in Operators : command[o].kind \in Kinds \cup {"remove"}

\* A command that reports its gateway stopped or killed leaves nothing that was
\* launched with its token; one that reports it running names the very process
\* it launched, and that one lives.
Reports(o) ==
    LET own == command[o]
    IN  own.at # "idle" /\ command'[o].at = "idle" =>
          /\ command'[o].result \in {"stopped", "killed"} =>
                \A p \in Gateways : process[p].token # own.target.token
          /\ command'[o].result = "running" => Owned(own.target)

\* A gateway in the background that nobody told to end is the one in the PID file,
\* from the moment its start is over, unless its start was broken off or commands
\* ran beside a start.
GatewaysAreRecorded ==
    \A p \in Gateways :
        \/ raced \/ process[p].signalled \/ process[p].token \in abandoned
        \/ record = [pid |-> p, token |-> process[p].token]
        \/ \E o \in Operators :
              command[o].at = "record" /\ command[o].target.token = process[p].token

=============================================================================
