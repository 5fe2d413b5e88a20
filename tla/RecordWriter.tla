---------------------------- MODULE RecordWriter ----------------------------
(***************************************************************************)
(* The evidence recorder: SqliteRecordStore and _SqliteBackend             *)
(* (jev_gateway/records.py). Chat requests and configuration activations   *)
(* enqueue records without waiting, dashboard reads and flush() wait for   *)
(* an answer, close() stops the writer with a last job. One thread takes   *)
(* the jobs off the bounded queue and owns the database, which it prunes   *)
(* at every PruneInterval-th write.                                        *)
(***************************************************************************)
EXTENDS Integers, FiniteSets, Sequences, SequencesExt

CONSTANTS
    Requests,       \* chat requests, each recorded once
    Configs,        \* routing configurations, known by their hash
    Callers,        \* threads that read evidence or flush, once per start
    QueueSize,      \* storage.queue_size
    MaxRequests,    \* storage.max_requests, or None
    PruneInterval,  \* PRUNE_INTERVAL
    MaxPublished,   \* bound of a run: activations after each start
    MaxRestarts,    \* bound of a run: starts after the first
    None            \* Python's None

\* _storage_from_document rejects a negative max_requests and an empty queue.
ASSUME ConstantsAssumption ==
    /\ QueueSize \in Nat \ {0}
    /\ PruneInterval \in Nat \ {0}
    /\ MaxRequests \in Nat \cup {None}
    /\ MaxPublished \in Nat /\ MaxRestarts \in Nat
    /\ Requests \cap Callers = {}
    /\ None \notin Requests \cup Callers \cup Configs \cup Nat

VARIABLES
    queue,      \* _queue
    taken,      \* the job the writer thread is running, or None
    error,      \* _error is set
    closer,     \* close(): "open", "putting", "waiting" or "closed"
    alive,      \* the writer thread is alive
    db,         \* the tables
    writes,     \* _SqliteBackend._writes
    chat,       \* what each chat request records next
    configHash, \* RoutingEngine.config_hash, None until the engine is built
    answer,     \* the future of each caller
    published, restarts,  \* bounds
    accepted,   \* history: the jobs accepted and not committed, in order
    last        \* history: the job committed last since the start, or None

bounds == <<published, restarts>>
writerVars == <<taken, error, alive, db, writes, last>>
vars == <<queue, closer, chat, configHash, answer, bounds, accepted, writerVars>>

Stages == {"request", "decision", "upstream", "outcome"}

Job == [kind: {"config"}, of: {None}, hash: Configs]
       \cup [kind: Stages, of: Requests, hash: Configs \cup {None}]
       \cup [kind: {"read"}, of: Callers, hash: {None}]

Stop == [kind |-> "stop", of |-> None, hash |-> None]

\* What the queue holds is never Python's None.
ASSUME NoneIsNoJob == None \notin Job \cup {Stop}

Init ==
    /\ queue = <<>>
    /\ taken = None
    /\ error \in BOOLEAN
    /\ alive = ~error
    /\ closer = "open"
    /\ db = [configs |-> {}, requests |-> <<>>, decisions |-> {},
             upstreams |-> {}, outcomes |-> {}]
    /\ writes = 0
    /\ chat = [r \in Requests |-> "request"]
    /\ configHash = None
    /\ answer = [c \in Callers |-> "none"]
    /\ published = 0
    /\ restarts = 0
    /\ accepted = <<>>
    /\ last = None

-----------------------------------------------------------------------------
(* Producers. *)

\* Variant: the queue has no limit.
AcceptingAny == closer = "open" /\ ~error /\ alive

\* The condition _submit checks under the lock, and put_nowait.
Accepting ==
    /\ closer = "open" /\ ~error /\ alive
    /\ Len(queue) < QueueSize

Enqueue(job) ==
    /\ queue' = Append(queue, job)
    /\ accepted' = Append(accepted, job)

\* A record that is refused is dropped: the caller logs a warning and goes on.
SubmitOrDrop(job) ==
    IF Accepting THEN Enqueue(job) ELSE UNCHANGED <<queue, accepted>>

\* Routing admission and activations run under reload_lock, which a request
\* holds from its own record to that of its decision.
Admitting == \E r \in Requests : chat[r] = "decision"

\* The engine is built, or a configuration is activated. Its hash is what
\* decisions refer to from now on, whether its snapshot was accepted or not.
Publish(h) ==
    /\ ~Admitting
    /\ published < MaxPublished
    /\ published' = published + 1
    /\ configHash' = h
    /\ SubmitOrDrop([kind |-> "config", of |-> None, hash |-> h])
    /\ UNCHANGED <<closer, chat, answer, restarts, writerVars>>

After(stage) ==
    CASE stage = "request" -> {"decision"}
      [] stage = "decision" -> {"upstream"}
      [] stage = "upstream" -> {"outcome"}
      [] OTHER -> {"done"}

\* record_request, record_decision, record_upstream_request, record_outcome.
Record(r) ==
    /\ chat[r] \in Stages /\ configHash # None
    /\ chat[r] = "request" => ~Admitting
    /\ SubmitOrDrop([kind |-> chat[r], of |-> r,
                     hash |-> IF chat[r] = "decision" THEN configHash
                              ELSE None])
    /\ chat' \in {[chat EXCEPT ![r] = next] : next \in After(chat[r])}
    /\ UNCHANGED <<closer, configHash, answer, bounds, writerVars>>

\* Routing refuses the request, its provider has no credentials or its response
\* cannot be captured: the rest of its evidence is never recorded. An upstream
\* call that cannot be prepared still has an outcome.
Abandon(r) ==
    /\ chat[r] \in {"decision", "upstream", "outcome"}
    /\ \/ chat' = [chat EXCEPT ![r] = "done"]
       \/ chat[r] = "upstream" /\ chat' = [chat EXCEPT ![r] = "outcome"]
    /\ UNCHANGED <<queue, closer, configHash, answer, bounds, accepted,
                   writerVars>>

\* A read or a flush: enqueued, it waits; refused, it raises.
Call(c) ==
    /\ configHash # None /\ answer[c] = "none"
    /\ SubmitOrDrop([kind |-> "read", of |-> c, hash |-> None])
    /\ answer' = [answer EXCEPT ![c] = IF Accepting THEN "waiting"
                                       ELSE "failed"]
    /\ UNCHANGED <<closer, chat, configHash, bounds, writerVars>>

\* close marks the store closed under the lock: nothing is accepted any more.
Close ==
    /\ closer = "open" /\ alive
    /\ closer' = "putting"
    /\ UNCHANGED <<queue, chat, configHash, answer, bounds, accepted,
                   writerVars>>

\* It waits for room to put the last job.
PutStop ==
    /\ closer = "putting" /\ Len(queue) < QueueSize
    /\ queue' = Append(queue, Stop)
    /\ closer' = "waiting"
    /\ UNCHANGED <<chat, configHash, answer, bounds, accepted, writerVars>>

Join ==
    /\ closer = "waiting" /\ ~alive
    /\ closer' = "closed"
    /\ UNCHANGED <<queue, chat, configHash, answer, bounds, accepted,
                   writerVars>>

-----------------------------------------------------------------------------
(* The writer thread. *)

\* Variant: the thread takes the job that was queued last.
TakeNewest ==
    /\ alive /\ taken = None /\ queue # <<>>
    /\ taken' = Last(queue)
    /\ queue' = Front(queue)
    /\ UNCHANGED <<closer, chat, configHash, answer, bounds, accepted, error,
                   alive, db, writes, last>>

Take ==
    /\ alive /\ taken = None /\ queue # <<>>
    /\ taken' = Head(queue)
    /\ queue' = Tail(queue)
    /\ UNCHANGED <<closer, chat, configHash, answer, bounds, accepted, error,
                   alive, db, writes, last>>

Insert(d, job) ==
    CASE job.kind = "config" -> [d EXCEPT !.configs = @ \cup {job.hash}]
      [] job.kind = "request" -> [d EXCEPT !.requests = Append(@, job.of)]
      [] job.kind = "decision" -> [d EXCEPT !.decisions = @ \cup {job}]
      [] job.kind = "upstream" -> [d EXCEPT !.upstreams = @ \cup {job.of}]
      [] job.kind = "outcome" -> [d EXCEPT !.outcomes = @ \cup {job.of}]

Newest(rows) ==
    IF Len(rows) <= MaxRequests THEN rows
    ELSE SubSeq(rows, Len(rows) - MaxRequests + 1, Len(rows))

\* Variant: only the requests are pruned.
PruneRequestsOnly(d) ==
    IF MaxRequests = None THEN d
    ELSE [d EXCEPT !.requests = Newest(d.requests)]

\* Variant: an off-by-one in the requests that dependent rows are compared with.
PruneOneTooMany(d) ==
    IF MaxRequests = None THEN d
    ELSE LET rows == Newest(d.requests)
             kept == ToSet(SubSeq(rows, 2, Len(rows)))
         IN  [d EXCEPT !.requests = rows,
                       !.decisions = {row \in @ : row.of \in kept},
                       !.upstreams = @ \cap kept,
                       !.outcomes = @ \cap kept]

\* Drop the oldest requests and the rows that hang off them.
Prune(d) ==
    IF MaxRequests = None THEN d
    ELSE LET kept == ToSet(Newest(d.requests))
         IN  [d EXCEPT !.requests = Newest(d.requests),
                       !.decisions = {row \in @ : row.of \in kept},
                       !.upstreams = @ \cap kept,
                       !.outcomes = @ \cap kept]

Answer(text) ==
    answer' = [c \in Callers |-> IF c = taken.of THEN text ELSE answer[c]]

\* The job is run: a write is one transaction, pruning included.
Run ==
    /\ taken # None /\ taken # Stop /\ ~error
    /\ IF taken.kind = "read" THEN UNCHANGED <<db, writes>>
       ELSE /\ writes' = writes + 1
            /\ db' = IF writes' % PruneInterval = 0
                     THEN Prune(Insert(db, taken))
                     ELSE Insert(db, taken)
    /\ last' = taken
    /\ accepted' = Tail(accepted)
    /\ Answer("ok")
    /\ taken' = None
    /\ UNCHANGED <<queue, closer, chat, configHash, bounds, error, alive>>

\* The job, a read or a write, raises. The error stays for good.
RunFails ==
    /\ taken # None /\ taken # Stop /\ ~error
    /\ error' = TRUE
    /\ Answer("failed")
    /\ taken' = None
    /\ UNCHANGED <<queue, closer, chat, configHash, bounds, accepted, alive,
                   db, writes, last>>

\* Variant: a caller behind the failure is never told.
SkipSilently ==
    /\ taken # None /\ taken # Stop /\ error
    /\ taken' = None
    /\ UNCHANGED <<queue, closer, chat, configHash, answer, bounds, accepted,
                   error, alive, db, writes, last>>

\* Jobs behind the one that failed are dropped.
Skip ==
    /\ taken # None /\ taken # Stop /\ error
    /\ Answer("failed")
    /\ taken' = None
    /\ UNCHANGED <<queue, closer, chat, configHash, bounds, accepted, error,
                   alive, db, writes, last>>

\* Variant: once it has failed, the writer leaves the last job alone too.
EndUnlessFailed ==
    /\ taken = Stop /\ ~error
    /\ alive' = FALSE
    /\ taken' = None
    /\ UNCHANGED <<queue, closer, chat, configHash, answer, bounds, accepted,
                   error, db, writes, last>>

\* The last job ends the thread. Closing the database may still fail.
End ==
    /\ taken = Stop
    /\ alive' = FALSE
    /\ taken' = None
    /\ error' \in {error, TRUE}
    /\ UNCHANGED <<queue, closer, chat, configHash, answer, bounds, accepted,
                   db, writes, last>>

Writer == Take \/ Run \/ RunFails \/ Skip \/ End

-----------------------------------------------------------------------------

\* The process ends, whatever it was doing, and is started again. What was
\* committed is there (journal_mode WAL, synchronous FULL); the queue is not.
\* The database may fail to open.
Restart ==
    /\ restarts < MaxRestarts
    /\ restarts' = restarts + 1
    /\ queue' = <<>>
    /\ taken' = None
    /\ error' \in BOOLEAN
    /\ alive' = ~error'
    /\ closer' = "open"
    /\ writes' = 0
    /\ chat' = [r \in Requests |-> IF chat[r] = "request" THEN "request"
                                   ELSE "done"]
    /\ configHash' = None
    /\ answer' = [c \in Callers |-> "none"]
    /\ accepted' = <<>>
    /\ last' = None
    /\ published' = 0
    /\ UNCHANGED db

Next ==
    \/ \E h \in Configs : Publish(h)
    \/ \E r \in Requests : Record(r) \/ Abandon(r)
    \/ \E c \in Callers : Call(c)
    \/ Close \/ PutStop \/ Join
    \/ Writer
    \/ Restart

Spec == Init /\ [][Next]_vars

\* The writer thread keeps running, and so does a thread that closes the store.
FairSpec == Spec /\ WF_vars(Writer) /\ WF_vars(PutStop) /\ WF_vars(Join)

-----------------------------------------------------------------------------
(* Properties. *)

TypeOK ==
    /\ queue \in Seq(Job \cup {Stop}) /\ Len(queue) <= QueueSize
    /\ taken \in Job \cup {Stop, None}
    /\ error \in BOOLEAN /\ alive \in BOOLEAN
    /\ closer \in {"open", "putting", "waiting", "closed"}
    /\ db \in [configs: SUBSET Configs, requests: Seq(Requests),
               decisions: SUBSET [kind: {"decision"}, of: Requests,
                                  hash: Configs],
               upstreams: SUBSET Requests, outcomes: SUBSET Requests]
    /\ writes \in Nat
    /\ chat \in [Requests -> Stages \cup {"done"}]
    /\ configHash \in Configs \cup {None}
    /\ answer \in [Callers -> {"none", "waiting", "ok", "failed"}]
    /\ published \in 0..MaxPublished /\ restarts \in 0..MaxRestarts
    /\ accepted \in Seq(Job) /\ last \in Job \cup {None}

Log == INSTANCE DurableLog
          WITH Jobs <- Job, log <- accepted, frozen <- error

\* The writer commits what was accepted, in that order and without a gap, tells
\* a caller "ok" only when everything accepted before its call is committed, and
\* commits nothing after a failure.
KeepsOrder == Log!Spec

\* Rows whose request has none.
Orphans ==
    {<<"decision", row.of>> : row \in db.decisions}
      \cup {<<"upstream", r>> : r \in db.upstreams}
      \cup {<<"outcome", r>> : r \in db.outcomes}

\* From the first pruning after a start on, the database holds max_requests
\* requests and no orphans, and what was written since the last pruning.
EvidenceBounded ==
    MaxRequests # None /\ writes >= PruneInterval =>
        /\ Len(db.requests) <= MaxRequests + (writes % PruneInterval)
        /\ Cardinality({row \in Orphans : row[2] \notin ToSet(db.requests)})
              <= writes % PruneInterval

\* While a request is retained, so is everything recorded about it.
EvidenceStaysTogether ==
    [][\A r \in ToSet(db.requests) \cap ToSet(db.requests') :
          /\ r \in db.upstreams => r \in db.upstreams'
          /\ r \in db.outcomes => r \in db.outcomes'
          /\ \A row \in db.decisions : row.of = r => row \in db.decisions']_vars

\* Nobody waits for ever, whichever job fails and however close() races with
\* the call.
CallersAnswered ==
    \A c \in Callers : answer[c] = "waiting" ~> answer[c] # "waiting"

\* close() returns, even if the queue was full or the writer had failed.
CloseReturns == closer = "putting" ~> closer \in {"closed", "open"}

\* When close() has returned, every job that was accepted has been run.
AcceptedJobsRun ==
    closer = "closed" => Len(accepted) <= (IF error THEN 1 ELSE 0)

=============================================================================
