---------------------------- MODULE Continuations ----------------------------
(* What the provider adapters remember of the assistant turns of one           *)
(* conversation (provider/base.py, provider/deepseek.py): concurrent requests  *)
(* share the state kept on the session, the first one to need it loads it from *)
(* the recorder, and every finished response is appended to it and written.    *)
(* The store may drop the session while requests of it are under way, and the  *)
(* next one then works on a new object, under the same lock.                   *)
(*                                                                             *)
(* A record is [id, key, own, trace]: the turn it was captured from, the hash  *)
(* of the message a client would replay, whether DeepSeek produced it, and     *)
(* whether it came with a reasoning trace. A message that a client replays     *)
(* with its reasoning keeps it and is left out. The recorder is RecordWriter   *)
(* cut down to the jobs of this conversation.                                  *)
EXTENDS Naturals, FiniteSets, SequencesExt, FiniteSetsExt

CONSTANTS
    Requests,           \* chat requests of the conversation
    Objects,            \* bound: objects of the session, 1..n
    Limit,              \* max_continuations_per_session
    QueueSize,          \* storage.queue_size
    Contents,           \* [key, own, trace] of a turn
    Earlier,            \* records on disk from before this process
    Histories,          \* sequences of keys a client may replay
    Nothing             \* None

VARIABLES
    enabled,        \* the recorder is enabled
    object,         \* the session object of the store
    memory,         \* adapter_state of each object
    turn,           \* each request: what it does next
    uses,           \* the object it works on
    batch,          \* what its load returned
    replayed,       \* the client's history and the reasoning it was given
    queue,          \* jobs of the recorder: loads and writes
    broken,         \* its writer has failed
    durable,        \* rows of assistant_continuations
    told,           \* history: records in the order they were saved
    accepted,       \* history: ids the recorder took and has not lost
    known           \* history: ids each object was given

vars == <<enabled, object, memory, turn, uses, batch, replayed, queue, broken,
          durable, told, accepted, known>>

Fresh == [saved |-> <<>>, hydrated |-> FALSE, loading |-> FALSE,
          pending |-> Nothing]

Ids(records) == {record.id : record \in ToSet(records)}

\* Mutant: the limit is forgotten.
RecentAll(records) == records

\* records[-limit:]
Recent(records) ==
    SubSeq(records, Len(records) - Min({Limit, Len(records)}) + 1, Len(records))

Init ==
    /\ enabled \in BOOLEAN
    /\ object = 1
    /\ memory = [o \in Objects |-> Fresh]
    /\ turn = [r \in Requests |-> "new"]
    /\ uses = [r \in Requests |-> 1]
    /\ batch = [r \in Requests |-> <<>>]
    /\ replayed = [r \in Requests |-> Nothing]
    /\ queue = <<>> /\ broken = FALSE
    /\ durable = Earlier
    /\ told = Earlier
    /\ accepted = Ids(Earlier)
    /\ known = [o \in Objects |-> {}]

-----------------------------------------------------------------------------
(* The session. *)

\* A decision makes sure of a session; the request works on the object the
\* store holds then.
Begin(r) ==
    /\ turn[r] = "new"
    /\ turn' = [turn EXCEPT ![r] = "hydrate"]
    /\ uses' = [uses EXCEPT ![r] = object]
    /\ UNCHANGED <<enabled, object, memory, batch, replayed, queue, broken,
                   durable, told, accepted, known>>

\* The session expires or is evicted, and a later decision creates it again.
Recreate ==
    /\ object + 1 \in Objects
    /\ object' = object + 1
    /\ UNCHANGED <<enabled, memory, turn, uses, batch, replayed, queue, broken,
                   durable, told, accepted, known>>

-----------------------------------------------------------------------------
(* Hydration, in prepare_messages. The hydration a capture asks for finds the  *)
(* object hydrated.                                                            *)

\* Under the session's condition: find it done, have nothing to load from, or
\* become the one that loads.
EnterHydration(r) ==
    LET own == memory[uses[r]]
    IN  /\ turn[r] = "hydrate"
        /\ memory' = [memory EXCEPT ![uses[r]] =
              IF own.hydrated THEN own
              ELSE IF ~enabled THEN [own EXCEPT !.hydrated = TRUE]
              ELSE [own EXCEPT !.loading = TRUE, !.pending = <<>>]]
        /\ turn' = [turn EXCEPT ![r] =
              IF own.hydrated \/ ~enabled THEN "prepare" ELSE "load"]
        /\ UNCHANGED <<enabled, object, uses, batch, replayed, queue, broken,
                       durable, told, accepted, known>>

\* Mutant: a reader does not wait for the one that is loading.
HydrateAtOnce(r) == EnterHydration(r)

\* _hydrate_assistant_continuations waits on the condition while another loads.
Hydrate(r) == ~memory[uses[r]].loading /\ EnterHydration(r)

\* _submit refuses a job when the queue is full or the writer has failed.
Refuses(jobs) == broken \/ Len(jobs) >= QueueSize

\* load_assistant_continuations: a job like any other, and no records if it is
\* refused.
SubmitLoad(r) ==
    /\ turn[r] = "load"
    /\ IF Refuses(queue)
       THEN /\ turn' = [turn EXCEPT ![r] = "install"]
            /\ UNCHANGED queue
       ELSE /\ turn' = [turn EXCEPT ![r] = "waiting"]
            /\ queue' = Append(queue, [kind |-> "load", reader |-> r])
    /\ UNCHANGED <<enabled, object, memory, uses, batch, replayed, broken,
                   durable, told, accepted, known>>

Write(record) == [kind |-> "write", record |-> record]

\* _persist_assistant_continuation of several records, one by one: the first
\* ones there is room for are accepted, and every later one is refused.
Persisted(jobs, records) ==
    LET room == IF ~enabled \/ broken THEN 0
                ELSE Min({Len(records), QueueSize - Len(jobs)})
    IN  jobs \o [i \in 1..room |-> Write(records[i])]

Submitted(jobs) == {job.record.id : job \in {j \in ToSet(jobs) : j.kind = "write"}}

\* Under the condition again: what was loaded, then what was saved meanwhile.
Install(r) ==
    LET own == memory[uses[r]]
        pending == IF own.pending = Nothing THEN <<>> ELSE own.pending
    IN  /\ turn[r] = "install"
        /\ memory' = [memory EXCEPT ![uses[r]] =
              [saved |-> Recent(batch[r] \o pending), hydrated |-> TRUE,
               loading |-> FALSE, pending |-> Nothing]]
        /\ queue' = Persisted(queue, pending)
        /\ accepted' = accepted \cup Submitted(queue')
        /\ turn' = [turn EXCEPT ![r] = "prepare"]
        /\ UNCHANGED <<enabled, object, uses, batch, replayed, broken, durable,
                       told, known>>

-----------------------------------------------------------------------------
(* Matching a replayed history. *)

\* How many elements with the key at position i follow it.
After(keys, i) == Cardinality({j \in DOMAIN keys : j > i /\ keys[j] = keys[i]})

\* assistant_continuations: the newest occurrences of a message with the newest
\* records of its key.
Matched(records, messages) ==
    LET keys == [i \in DOMAIN records |-> records[i].key]
        partner(i) == {j \in DOMAIN records :
                          keys[j] = messages[i] /\ After(keys, j) = After(messages, i)}
    IN  [i \in {k \in DOMAIN messages : partner(k) # {}} |->
            records[CHOOSE j \in partner(i) : TRUE]]

\* DeepSeekConversationAdapter.prepare_messages: its own turns get their trace
\* back, those of others a mark, those it does not know nothing.
Reasoning(records, messages) ==
    LET matched == Matched(records, messages)
    IN  [i \in DOMAIN messages |->
            IF i \notin DOMAIN matched THEN "none"
            ELSE IF ~matched[i].own THEN "boundary"
            ELSE IF matched[i].trace THEN "trace" ELSE "none"]

\* The records are read under the condition, whoever hydrated them. The adapter
\* of another provider leaves the history alone, as this one does an empty one.
Prepare(r, messages) ==
    LET records == memory[uses[r]].saved
    IN  /\ turn[r] = "prepare"
        /\ replayed' = [replayed EXCEPT ![r] =
              [records |-> records, messages |-> messages,
               reasoning |-> Reasoning(records, messages)]]
        /\ turn' = [turn EXCEPT ![r] = "answering"]
        /\ UNCHANGED <<enabled, object, memory, uses, batch, queue, broken,
                       durable, told, accepted, known>>

-----------------------------------------------------------------------------
(* Saving, in ResponseCapture. *)

\* observe of a whole response, or finish of a stream that was delivered.
Captured(r, content) ==
    [id |-> r, key |-> content.key, own |-> content.own, trace |-> content.trace]

\* save_assistant_continuation under the condition. While a load is under way
\* the record is parked for Install.
Save(r, content) ==
    LET record == Captured(r, content)
        own == memory[uses[r]]
        parked == own.loading /\ own.pending # Nothing
    IN  /\ turn[r] = "answering"
        /\ memory' = [memory EXCEPT ![uses[r]] =
              IF parked THEN [own EXCEPT !.pending = Append(@, record)]
              ELSE [own EXCEPT !.saved = Recent(Append(@, record))]]
        /\ queue' = IF parked THEN queue ELSE Persisted(queue, <<record>>)
        /\ accepted' = accepted \cup Submitted(queue')
        /\ told' = Append(told, record)
        /\ known' = [known EXCEPT ![uses[r]] = @ \cup {r}]
        /\ turn' = [turn EXCEPT ![r] = "done"]
        /\ UNCHANGED <<enabled, object, uses, batch, replayed, broken, durable>>

\* A response that fails or is not delivered leaves nothing.
Abandon(r) ==
    /\ turn[r] = "answering"
    /\ turn' = [turn EXCEPT ![r] = "done"]
    /\ UNCHANGED <<enabled, object, memory, uses, batch, replayed, queue, broken,
                   durable, told, accepted, known>>

-----------------------------------------------------------------------------
(* The recorder. *)

\* record_assistant_continuation with _prune_continuations of the session.
RunWrite ==
    /\ queue # <<>> /\ Head(queue).kind = "write"
    /\ durable' = Recent(Append(durable, Head(queue).record))
    /\ queue' = Tail(queue)
    /\ UNCHANGED <<enabled, object, memory, turn, uses, batch, replayed, broken,
                   told, accepted, known>>

\* The newest rows, oldest first.
RunLoad ==
    LET r == Head(queue).reader
    IN  /\ queue # <<>> /\ Head(queue).kind = "load"
        /\ batch' = [batch EXCEPT ![r] = Recent(durable)]
        /\ known' = [known EXCEPT ![uses[r]] =
                        @ \cup (accepted \ Submitted(queue))]
        /\ turn' = [turn EXCEPT ![r] = "install"]
        /\ queue' = Tail(queue)
        /\ UNCHANGED <<enabled, object, memory, uses, replayed, broken, durable,
                       told, accepted>>

\* The job fails and with it the writer: waiting loads are answered with the
\* error, writes are gone.
RunFails ==
    LET readers == {job.reader : job \in {j \in ToSet(queue) : j.kind = "load"}}
    IN  /\ queue # <<>>
        /\ broken' = TRUE
        /\ turn' = [r \in Requests |-> IF r \in readers THEN "install" ELSE turn[r]]
        /\ accepted' = accepted \ Submitted(queue)
        /\ queue' = <<>>
        /\ UNCHANGED <<enabled, object, memory, uses, batch, replayed, durable,
                       told, known>>

\* max_continuation_sessions: the write of another conversation removes the one
\* that was written longest ago.
PruneSession ==
    /\ enabled /\ ~broken /\ durable # <<>>
    /\ durable' = <<>>
    /\ accepted' = accepted \cap Submitted(queue)
    /\ UNCHANGED <<enabled, object, memory, turn, uses, batch, replayed, queue,
                   broken, told, known>>

-----------------------------------------------------------------------------
Next ==
    \/ \E r \in Requests :
          \/ Begin(r) \/ Hydrate(r) \/ SubmitLoad(r) \/ Install(r) \/ Abandon(r)
          \/ \E messages \in Histories : Prepare(r, messages)
          \/ \E content \in Contents : Save(r, content)
    \/ Recreate
    \/ RunWrite \/ RunLoad \/ RunFails \/ PruneSession

Finished == (\A r \in Requests : turn[r] = "done") /\ queue = <<>>

-----------------------------------------------------------------------------
(* Properties. *)

TypeOK ==
    /\ \A o \in Objects :
          /\ Len(memory[o].saved) <= Limit
          /\ memory[o].loading <=> memory[o].pending # Nothing
          /\ ~(memory[o].hydrated /\ memory[o].loading)
    /\ Len(durable) <= Limit /\ Len(queue) <= QueueSize
    /\ \A r \in Requests :
          turn[r] \in {"new", "hydrate", "load", "waiting", "install", "prepare",
                       "answering", "done"}
    /\ object \in Objects /\ enabled \in BOOLEAN /\ broken \in BOOLEAN

\* The records are turns of the log with one of the ids, each once and in the
\* order of the log; one that is left out is older than all of them, and they
\* are as many as there is room for.
Newest(records, log, ids) ==
    LET those == {i \in DOMAIN log : log[i].id \in ids}
    IN  \E place \in [DOMAIN records -> those] :
          /\ \A k \in DOMAIN records : records[k] = log[place[k]]
          /\ \A j, k \in DOMAIN records : j < k => place[j] < place[k]
          /\ \A i \in those : (\A k \in DOMAIN records : place[k] # i) =>
                /\ Len(records) >= Limit
                /\ \A k \in DOMAIN records : i < place[k]

Remembers(records, ids) == Len(records) <= Limit /\ Newest(records, told, ids)

\* Messages of a history and the records they repeat: in order, the newest of
\* both, and as many as there are of both.
Pairs(pairs, records, messages) ==
    LET Repeats(i, j) == records[j].key = messages[i]
        Taken(j) == \E i \in DOMAIN pairs : pairs[i] = j
    IN  /\ \A i \in DOMAIN pairs : Repeats(i, pairs[i])
        /\ \A i, k \in DOMAIN pairs :
              i < k /\ messages[i] = messages[k] => pairs[i] < pairs[k]
        /\ \A i \in DOMAIN pairs, k \in DOMAIN messages :
              k > i /\ messages[k] = messages[i] => k \in DOMAIN pairs
        /\ \A i \in DOMAIN pairs, j \in DOMAIN records :
              j > pairs[i] /\ Repeats(i, j) => Taken(j)
        /\ \A i \in DOMAIN messages \ DOMAIN pairs, j \in DOMAIN records :
              Repeats(i, j) => Taken(j)

\* What a message is given when it repeats that record.
Due(record) ==
    IF ~record.own THEN "boundary" ELSE IF record.trace THEN "trace" ELSE "none"

GivesTheirOwn(given) ==
    \E repeats \in SUBSET DOMAIN given.messages :
        \E pairs \in [repeats -> DOMAIN given.records] :
            /\ Pairs(pairs, given.records, given.messages)
            /\ \A i \in DOMAIN given.messages :
                  given.reasoning[i] =
                      IF i \in repeats THEN Due(given.records[pairs[i]]) ELSE "none"

\* What an adapter remembers of a conversation are the newest turns among those
\* written before it loaded and those saved through it since, each once and in
\* order; so are the rows on disk, of what the recorder took; nobody reads the
\* memory before it is hydrated, and a replayed history gets the traces of the
\* turns it repeats, newest with newest.
RemembersTurns ==
    /\ \A o \in Objects : memory[o].hydrated => Remembers(memory[o].saved, known[o])
    /\ Remembers(durable, accepted \ Submitted(queue))
    /\ \A r \in Requests :
          turn[r] \in {"prepare", "answering"} => memory[uses[r]].hydrated
    /\ \A r \in Requests : replayed[r] # Nothing => GivesTheirOwn(replayed[r])

=============================================================================
