------------------------- MODULE RecordWriterProofs -------------------------
(* Proofs about RecordWriter for every value of its constants. *)
EXTENDS RecordWriter, FiniteSetTheorems, SequenceTheorems, TLAPS

\* The last job is behind all others, and nothing follows it: it is put when
\* nothing is accepted any more, and ends the thread.
StopIsLast ==
    /\ taken = Stop => queue = <<>> /\ closer \notin {"open", "putting"}
    /\ ~alive => taken = None /\ queue = <<>>
    /\ closer = "putting" => alive
    /\ \A i \in 1..Len(queue) :
          queue[i] = Stop => i = Len(queue) /\ closer \notin {"open", "putting"}

\* How many jobs were taken off the queue and not run.
Ahead == IF taken \in Job THEN 1 ELSE 0

\* How many entries of the queue are no jobs.
Stopping == IF queue # <<>> /\ queue[Len(queue)] = Stop THEN 1 ELSE 0

\* Until the writer fails, what was accepted and is not committed is the job it
\* is running and those in the queue, in that order.
BacklogIsAccepted ==
    ~error =>
        /\ Len(accepted) = Ahead + Len(queue) - Stopping
        /\ taken \in Job => accepted[1] = taken
        /\ \A i \in 1..Len(queue) :
              queue[i] # Stop => accepted[i + Ahead] = queue[i]

\* Who has a job in front of the writer waits for it, and has no other.
CallersWait ==
    /\ taken \in Job /\ taken.kind = "read" => answer[taken.of] = "waiting"
    /\ \A i \in 1..Len(queue) : queue[i].kind = "read" =>
          /\ answer[queue[i].of] = "waiting"
          /\ taken \in Job => taken.of # queue[i].of
          /\ \A j \in 1..Len(queue) : queue[j].of = queue[i].of => i = j

\* A decision refers to a configuration.
DecisionsHaveHash ==
    /\ taken \in Job /\ taken.kind = "decision" => taken.hash \in Configs
    /\ \A i \in 1..Len(queue) :
          queue[i].kind = "decision" => queue[i].hash \in Configs

IInv ==
    /\ TypeOK
    /\ StopIsLast
    /\ BacklogIsAccepted
    /\ CallersWait
    /\ DecisionsHaveHash

-----------------------------------------------------------------------------
(* Jobs and the queue. *)

\* A job is neither the last one nor None, and is answered if somebody reads.
LEMMA JobFacts ==
    ASSUME NEW j \in Job
    PROVE  /\ j # Stop /\ j # None /\ j.kind # "stop"
           /\ j.kind \in Stages \cup {"config", "read"}
           /\ j.kind = "read" => j.of \in Callers
           /\ j.kind \in Stages => j.of \in Requests
           /\ j.kind = "config" => j.hash \in Configs /\ j.of = None
           /\ j.of \in Callers <=> j.kind = "read"
<1>1. j # None
    BY NoneIsNoJob
<1> QED
    BY <1>1, ConstantsAssumption DEF Job, Stop, Stages

\* The three sorts of job are jobs.
LEMMA JobsMade ==
    /\ \A h \in Configs : [kind |-> "config", of |-> None, hash |-> h] \in Job
    /\ \A c \in Callers : [kind |-> "read", of |-> c, hash |-> None] \in Job
    /\ \A r \in Requests, k \in Stages, h \in Configs \cup {None} :
          [kind |-> k, of |-> r, hash |-> h] \in Job
BY DEF Job

\* What the queue is after one more entry.
LEMMA Appended ==
    ASSUME NEW S, NEW q \in Seq(S), NEW e \in S
    PROVE  /\ Append(q, e) \in Seq(S) /\ Append(q, e) # <<>>
           /\ Len(q) \in Nat /\ Len(Append(q, e)) = Len(q) + 1
           /\ \A i \in 1..Len(q) : Append(q, e)[i] = q[i]
           /\ Append(q, e)[Len(q) + 1] = e
BY AppendProperties, LenProperties

\* What the queue is after its head is taken.
LEMMA Shifted ==
    ASSUME NEW S, NEW q \in Seq(S), q # <<>>
    PROVE  /\ Head(q) \in S /\ Head(q) = q[1]
           /\ Tail(q) \in Seq(S)
           /\ Len(q) \in Nat \ {0} /\ Len(Tail(q)) = Len(q) - 1
           /\ \A i \in 1..(Len(q) - 1) : Tail(q)[i] = q[i + 1]
BY HeadTailProperties, EmptySeq, LenProperties

\* What a producer's job does to the invariant.
LEMMA EnqueueKeepsIInv ==
    ASSUME IInv, Accepting, NEW job \in Job, Enqueue(job),
           UNCHANGED <<closer, taken, error, alive>>,
           job.kind = "decision" => job.hash \in Configs,
           answer' \in [Callers -> {"none", "waiting", "ok", "failed"}],
           IF job.kind = "read"
           THEN /\ answer[job.of] = "none" /\ answer'[job.of] = "waiting"
                /\ \A c \in Callers \ {job.of} : answer'[c] = answer[c]
           ELSE answer' = answer
    PROVE  /\ queue' \in Seq(Job \cup {Stop}) /\ Len(queue') <= QueueSize
           /\ accepted' \in Seq(Job)
           /\ StopIsLast' /\ BacklogIsAccepted' /\ CallersWait'
           /\ DecisionsHaveHash'
<1>0. /\ queue \in Seq(Job \cup {Stop}) /\ accepted \in Seq(Job)
      /\ queue' = Append(queue, job) /\ accepted' = Append(accepted, job)
      /\ taken \in Job \cup {Stop, None}
      /\ QueueSize \in Nat /\ Len(queue) < QueueSize
      /\ answer \in [Callers -> {"none", "waiting", "ok", "failed"}]
    BY ConstantsAssumption DEF IInv, TypeOK, Accepting, Enqueue
<1>1. /\ queue' \in Seq(Job \cup {Stop})
      /\ Len(queue) \in Nat /\ Len(queue') = Len(queue) + 1
      /\ \A i \in 1..Len(queue) : queue'[i] = queue[i]
      /\ queue'[Len(queue) + 1] = job /\ queue' # <<>>
  <2>1. job \in Job \cup {Stop}
    OBVIOUS
  <2> HIDE DEF Job, Stop
  <2> QED
    BY <1>0, <2>1, Appended
<1>2. /\ accepted' \in Seq(Job)
      /\ Len(accepted) \in Nat /\ Len(accepted') = Len(accepted) + 1
      /\ \A i \in 1..Len(accepted) : accepted'[i] = accepted[i]
      /\ accepted'[Len(accepted) + 1] = job
    BY <1>0, Appended
<1>3. taken # Stop /\ \A i \in 1..Len(queue) : queue[i] \in Job
    BY <1>0, ElementOfSeq DEF IInv, StopIsLast, Accepting
<1>4. job # Stop /\ job # None
    BY JobFacts
<1>5. Ahead \in {0, 1} /\ Ahead' = Ahead
    BY DEF Ahead
<1>6. Stopping = 0 /\ Stopping' = 0
  <2>1. Stop \notin Job
    BY JobFacts
  <2>2. queue = <<>> \/ Len(queue) \in 1..Len(queue)
    BY <1>0, EmptySeq
  <2> HIDE DEF Job, Stop
  <2>3. Stopping = 0
    BY <2>1, <2>2, <1>3 DEF Stopping
  <2>4. queue'[Len(queue')] = job
    BY <1>1
  <2> QED
    BY <2>3, <2>4, <1>4 DEF Stopping
<1>7. StopIsLast'
    BY <1>0, <1>1, <1>3, <1>4, JobFacts
    DEF IInv, StopIsLast, Accepting
<1>8. BacklogIsAccepted'
    BY <1>0, <1>1, <1>2, <1>3, <1>5, <1>6, JobFacts
    DEF IInv, BacklogIsAccepted, Ahead, Accepting
<1>9. CallersWait'
  <2>1. CASE job.kind # "read"
    BY <2>1, <1>0, <1>1, <1>3, JobFacts DEF IInv, CallersWait
  <2>2. CASE job.kind = "read"
    BY <2>2, <1>0, <1>1, <1>3, JobFacts DEF IInv, CallersWait
  <2> QED
    BY <2>1, <2>2
<1>10. DecisionsHaveHash'
    BY <1>0, <1>1 DEF IInv, DecisionsHaveHash
<1> QED
    BY <1>0, <1>1, <1>2, <1>7, <1>8, <1>9, <1>10

\* A producer's step that adds no job.
LEMMA SameQueueKeepsIInv ==
    ASSUME IInv, UNCHANGED <<queue, taken, error, alive, accepted>>,
           \/ closer' = closer
           \/ alive /\ closer = "open" /\ closer' = "putting"
           \/ closer' \notin {"open", "putting"},
           \A c \in Callers : answer[c] = "waiting" => answer'[c] = answer[c]
    PROVE  StopIsLast' /\ BacklogIsAccepted' /\ CallersWait'
             /\ DecisionsHaveHash'
<1>1. StopIsLast'
    BY DEF IInv, StopIsLast
<1>2. BacklogIsAccepted' /\ DecisionsHaveHash'
    BY DEF IInv, BacklogIsAccepted, DecisionsHaveHash, Ahead, Stopping
<1>3. CallersWait'
  <2>1. \A i \in 1..Len(queue) : queue[i] \in Job \cup {Stop}
    BY ElementOfSeq DEF IInv, TypeOK
  <2>2. \A i \in 1..Len(queue) :
           queue[i].kind = "read" => queue[i].of \in Callers
    BY <2>1, JobFacts DEF Stop
  <2> QED
    BY <2>2, JobFacts DEF IInv, CallersWait
<1> QED
    BY <1>1, <1>2, <1>3

\* What a record that is enqueued or dropped does to the invariant.
LEMMA SubmitKeepsIInv ==
    ASSUME IInv, NEW job \in Job, SubmitOrDrop(job), job.kind # "read",
           job.kind = "decision" => job.hash \in Configs,
           UNCHANGED <<closer, taken, error, alive, answer>>
    PROVE  /\ queue' \in Seq(Job \cup {Stop}) /\ Len(queue') <= QueueSize
           /\ accepted' \in Seq(Job)
           /\ StopIsLast' /\ BacklogIsAccepted' /\ CallersWait'
           /\ DecisionsHaveHash'
<1>1. CASE Accepting
  <2>1. Enqueue(job)
    BY <1>1 DEF SubmitOrDrop
  <2>2. answer' \in [Callers -> {"none", "waiting", "ok", "failed"}]
    BY DEF IInv, TypeOK
  <2> QED
    BY <1>1, <2>1, <2>2, EnqueueKeepsIInv
<1>2. CASE ~Accepting
  <2>1. UNCHANGED <<queue, accepted>>
    BY <1>2 DEF SubmitOrDrop
  <2>2. StopIsLast' /\ BacklogIsAccepted' /\ CallersWait' /\ DecisionsHaveHash'
    BY <2>1, SameQueueKeepsIInv
  <2> QED
    BY <2>1, <2>2 DEF IInv, TypeOK
<1> QED
    BY <1>1, <1>2

-----------------------------------------------------------------------------
(* The steps of the producers. *)

LEMMA PublishKeepsIInv ==
    ASSUME IInv, NEW h \in Configs, Publish(h)
    PROVE  IInv'
<1> DEFINE job == [kind |-> "config", of |-> None, hash |-> h]
<1>1. job \in Job /\ job.kind = "config" /\ SubmitOrDrop(job)
    BY JobsMade DEF Publish
<1>2. UNCHANGED <<closer, taken, error, alive, answer>>
    BY DEF Publish, writerVars
<1> HIDE DEF job
<1>3. /\ queue' \in Seq(Job \cup {Stop}) /\ Len(queue') <= QueueSize
      /\ accepted' \in Seq(Job)
      /\ StopIsLast' /\ BacklogIsAccepted' /\ CallersWait'
      /\ DecisionsHaveHash'
    BY <1>1, <1>2, SubmitKeepsIInv
<1>4. TypeOK'
    BY <1>3, ConstantsAssumption DEF IInv, TypeOK, Publish, writerVars
<1> QED
    BY <1>3, <1>4 DEF IInv

LEMMA RecordKeepsIInv ==
    ASSUME IInv, NEW r \in Requests, Record(r)
    PROVE  IInv'
<1> DEFINE job == [kind |-> chat[r], of |-> r,
                   hash |-> IF chat[r] = "decision" THEN configHash ELSE None]
<1>1. /\ chat[r] \in Stages /\ configHash \in Configs
      /\ chat \in [Requests -> Stages \cup {"done"}]
    BY DEF Record, IInv, TypeOK
<1>2. job \in Job /\ job.kind # "read"
      /\ (job.kind = "decision" => job.hash \in Configs)
    BY <1>1, JobsMade DEF Stages
<1>3. SubmitOrDrop(job) /\ UNCHANGED <<closer, taken, error, alive, answer>>
    BY DEF Record, writerVars
<1> HIDE DEF job
<1>4. /\ queue' \in Seq(Job \cup {Stop}) /\ Len(queue') <= QueueSize
      /\ accepted' \in Seq(Job)
      /\ StopIsLast' /\ BacklogIsAccepted' /\ CallersWait'
      /\ DecisionsHaveHash'
    BY <1>2, <1>3, SubmitKeepsIInv
<1>5. chat' \in [Requests -> Stages \cup {"done"}]
    BY <1>1 DEF Record, After, Stages
<1>6. TypeOK'
    BY <1>4, <1>5 DEF IInv, TypeOK, Record, writerVars, bounds
<1> QED
    BY <1>4, <1>6 DEF IInv

LEMMA CallKeepsIInv ==
    ASSUME IInv, NEW c \in Callers, Call(c)
    PROVE  IInv'
<1> DEFINE job == [kind |-> "read", of |-> c, hash |-> None]
<1>1. job \in Job /\ job.kind = "read" /\ job.of = c
    BY JobsMade
<1>2. /\ answer \in [Callers -> {"none", "waiting", "ok", "failed"}]
      /\ answer[c] = "none"
      /\ SubmitOrDrop(job) /\ UNCHANGED <<closer, taken, error, alive>>
      /\ answer' = [answer EXCEPT ![c] = IF Accepting THEN "waiting"
                                         ELSE "failed"]
    BY DEF Call, writerVars, IInv, TypeOK
<1> HIDE DEF job
<1>3. answer' \in [Callers -> {"none", "waiting", "ok", "failed"}]
    BY <1>2
<1>4. /\ queue' \in Seq(Job \cup {Stop}) /\ Len(queue') <= QueueSize
      /\ accepted' \in Seq(Job)
      /\ StopIsLast' /\ BacklogIsAccepted' /\ CallersWait'
      /\ DecisionsHaveHash'
  <2>1. CASE Accepting
    <3>1. Enqueue(job)
        BY <2>1, <1>2 DEF SubmitOrDrop
    <3>2. /\ answer'[c] = "waiting"
          /\ \A d \in Callers \ {c} : answer'[d] = answer[d]
        BY <2>1, <1>2
    <3> QED
        BY <2>1, <3>1, <3>2, <1>1, <1>2, <1>3, EnqueueKeepsIInv
  <2>2. CASE ~Accepting
    <3>1. UNCHANGED <<queue, accepted>>
        BY <2>2, <1>2 DEF SubmitOrDrop
    <3>2. \A d \in Callers : answer[d] = "waiting" => answer'[d] = answer[d]
        BY <1>2
    <3>3. StopIsLast' /\ BacklogIsAccepted' /\ CallersWait'
             /\ DecisionsHaveHash'
        BY <3>1, <3>2, <1>2, SameQueueKeepsIInv
    <3> QED
        BY <3>1, <3>3 DEF IInv, TypeOK
  <2> QED
    BY <2>1, <2>2
<1>5. TypeOK'
    BY <1>3, <1>4 DEF IInv, TypeOK, Call, writerVars, bounds
<1> QED
    BY <1>4, <1>5 DEF IInv

LEMMA AbandonKeepsIInv ==
    ASSUME IInv, NEW r \in Requests, Abandon(r)
    PROVE  IInv'
<1>1. StopIsLast' /\ BacklogIsAccepted' /\ CallersWait' /\ DecisionsHaveHash'
    BY SameQueueKeepsIInv DEF Abandon, writerVars
<1>2. chat' \in [Requests -> Stages \cup {"done"}]
    BY DEF Abandon, IInv, TypeOK, Stages
<1>3. TypeOK'
    BY <1>2 DEF IInv, TypeOK, Abandon, writerVars, bounds
<1> QED
    BY <1>1, <1>3 DEF IInv

LEMMA CloseKeepsIInv ==
    ASSUME IInv, Close \/ Join
    PROVE  IInv'
<1>1. StopIsLast' /\ BacklogIsAccepted' /\ CallersWait' /\ DecisionsHaveHash'
    BY SameQueueKeepsIInv DEF Close, Join, writerVars
<1>2. TypeOK'
    BY DEF IInv, TypeOK, Close, Join, writerVars, bounds
<1> QED
    BY <1>1, <1>2 DEF IInv

LEMMA PutStopKeepsIInv ==
    ASSUME IInv, PutStop
    PROVE  IInv'
<1>0. /\ queue \in Seq(Job \cup {Stop}) /\ Stop \in Job \cup {Stop}
      /\ queue' = Append(queue, Stop)
      /\ QueueSize \in Nat /\ Len(queue) < QueueSize
      /\ closer = "putting" /\ closer' = "waiting"
      /\ UNCHANGED <<taken, error, alive, accepted, answer>>
    BY ConstantsAssumption DEF IInv, TypeOK, PutStop, writerVars
<1>1. /\ queue' \in Seq(Job \cup {Stop})
      /\ Len(queue) \in Nat /\ Len(queue') = Len(queue) + 1
      /\ \A i \in 1..Len(queue) : queue'[i] = queue[i]
      /\ queue'[Len(queue) + 1] = Stop /\ queue' # <<>>
    BY <1>0, Appended
<1>2. \A i \in 1..Len(queue) : queue[i] # Stop /\ queue[i] \in Job
    BY <1>0, ElementOfSeq DEF IInv, StopIsLast
<1>3. Stop \notin Job /\ None \notin Callers
    BY JobFacts, ConstantsAssumption
<1>4. Ahead' = Ahead /\ Ahead \in {0, 1} /\ Stopping = 0 /\ Stopping' = 1
    BY <1>0, <1>1, <1>2, <1>3, EmptySeq DEF Ahead, Stopping
<1>5. StopIsLast'
    BY <1>0, <1>1, <1>2 DEF IInv, StopIsLast
<1>6. BacklogIsAccepted'
    BY <1>0, <1>1, <1>2, <1>4 DEF IInv, BacklogIsAccepted
<1>7. CallersWait'
  <2>1. Stop.kind # "read" /\ Stop.of = None
    BY DEF Stop
  <2>2. \A i \in 1..Len(queue) :
           queue[i].kind = "read" => queue[i].of \in Callers
    BY <1>2, JobFacts
  <2> HIDE DEF Stop
  <2> QED
    BY <1>0, <1>1, <1>3, <2>1, <2>2 DEF IInv, CallersWait
<1>8. DecisionsHaveHash'
    BY <1>0, <1>1 DEF IInv, DecisionsHaveHash, Stop
<1>9. TypeOK'
    BY <1>0, <1>1 DEF IInv, TypeOK, PutStop, writerVars, bounds
<1> QED
    BY <1>5, <1>6, <1>7, <1>8, <1>9 DEF IInv

-----------------------------------------------------------------------------
(* The steps of the writer thread, and a restart. *)

LEMMA TakeKeepsIInv ==
    ASSUME IInv, Take
    PROVE  IInv'
<1>0. /\ queue \in Seq(Job \cup {Stop}) /\ queue # <<>> /\ taken = None
      /\ taken' = Head(queue) /\ queue' = Tail(queue) /\ alive
      /\ UNCHANGED <<closer, alive, error, accepted, answer>>
      /\ QueueSize \in Nat /\ Len(queue) <= QueueSize
    BY ConstantsAssumption DEF Take, IInv, TypeOK
<1>1. /\ taken' \in Job \cup {Stop} /\ taken' = queue[1]
      /\ queue' \in Seq(Job \cup {Stop})
      /\ Len(queue) \in Nat \ {0} /\ Len(queue') = Len(queue) - 1
      /\ \A i \in 1..(Len(queue) - 1) : queue'[i] = queue[i + 1]
  <2> HIDE DEF Job, Stop
  <2> QED
    BY <1>0, Shifted
<1>2. None \notin Job /\ Stop \notin Job /\ Stop # None
    BY JobFacts, NoneIsNoJob
<1>3. \A i \in 1..Len(queue) : queue[i] \in Job \cup {Stop}
    BY <1>0, ElementOfSeq
<1>a. 1 \in 1..Len(queue)
    BY <1>1
<1>b. \A i \in 1..Len(queue) :
         queue[i] = Stop => i = Len(queue) /\ closer \notin {"open", "putting"}
    BY DEF IInv, StopIsLast
<1>c. taken' = Stop => Len(queue) = 1 /\ closer \notin {"open", "putting"}
  <2>1. queue[1] = Stop => 1 = Len(queue) /\ closer \notin {"open", "putting"}
    BY <1>a, <1>b, Zenon
  <2> QED
    BY <2>1, <1>1
<1>d. Len(queue) \in Nat /\ Len(queue') = Len(queue) - 1
    BY <1>1
<1>4. StopIsLast'
  <2>1. queue' = <<>> <=> Len(queue') = 0
    BY <1>1, EmptySeq
  <2>2. \A i \in 1..Len(queue') : i + 1 \in 1..Len(queue)
                                 /\ queue'[i] = queue[i + 1]
                                 /\ (i + 1 = Len(queue) => i = Len(queue'))
    BY <1>1
  <2> HIDE DEF Job, Stop
  <2>3. \A i \in 1..Len(queue') :
           queue'[i] = Stop => i = Len(queue') /\ closer \notin {"open", "putting"}
    BY <2>2, <1>b
  <2>4. taken' = Stop => Len(queue') = 0 /\ closer \notin {"open", "putting"}
    BY <1>c, <1>d
  <2> QED
    BY <1>0, <2>1, <2>3, <2>4 DEF StopIsLast
<1>5. BacklogIsAccepted'
  <2>1. queue' # <<>> <=> Len(queue') # 0
    BY <1>1, EmptySeq
  <2>2. Ahead = 0
    BY <1>0, <1>2 DEF Ahead
  <2>3. CASE taken' = Stop
    <3>1. Len(queue) = 1 /\ Len(queue') = 0
        BY <1>c, <1>d, <2>3
    <3>2. Stopping = 1 /\ Stopping' = 0 /\ Ahead' = 0
        BY <3>1, <1>0, <1>1, <1>2, <2>1, <2>3 DEF Stopping, Ahead
    <3> QED
        BY <3>1, <3>2, <2>2, <1>0, <1>2, <2>3 DEF IInv, BacklogIsAccepted
  <2>4. CASE taken' \in Job
    <3>1. Ahead' = 1 /\ queue[1] # Stop
        BY <1>1, <1>2, <2>4 DEF Ahead
    <3>2. Stopping' = Stopping
      <4>1. CASE Len(queue) = 1
        BY <4>1, <3>1, <1>1, <2>1 DEF Stopping
      <4>2. CASE Len(queue) > 1
        <5>1. queue'[Len(queue')] = queue[Len(queue)] /\ queue' # <<>>
            BY <4>2, <1>1, <2>1
        <5> QED
            BY <5>1, <1>0 DEF Stopping
      <4> QED
        BY <4>1, <4>2, <1>1
    <3>3. Stopping \in {0, 1}
        BY DEF Stopping
    <3>4. ASSUME ~error
          PROVE  /\ Len(accepted) = Len(queue) - Stopping
                 /\ accepted[1] = queue[1]
                 /\ \A i \in 1..Len(queue) :
                       queue[i] # Stop => accepted[i] = queue[i]
      <4>1. /\ Len(accepted) = Ahead + Len(queue) - Stopping
            /\ \A i \in 1..Len(queue) :
                  queue[i] # Stop => accepted[i + Ahead] = queue[i]
        BY <3>4 DEF IInv, BacklogIsAccepted
      <4>2. \A i \in 1..Len(queue) : i + Ahead = i
        BY <2>2, <1>1
      <4> HIDE DEF Job, Stop
      <4>3. \A i \in 1..Len(queue) : queue[i] # Stop => accepted[i] = queue[i]
        BY <4>1, <4>2
      <4> QED
        BY <4>1, <4>3, <3>1, <3>3, <2>2, <1>1, <1>a
    <3> HIDE DEF Job, Stop
    <3> QED
        BY <3>1, <3>2, <3>3, <3>4, <1>0, <1>1 DEF BacklogIsAccepted
  <2> QED
    BY <2>3, <2>4, <1>1
<1>6. CallersWait'
  <2>1. \A i, j \in 1..Len(queue) :
           queue[i].kind = "read" =>
              /\ answer[queue[i].of] = "waiting"
              /\ queue[j].of = queue[i].of => i = j
    BY DEF IInv, CallersWait
  <2>2. \A i \in 1..Len(queue') : i + 1 \in 1..Len(queue) /\ i + 1 # 1
                                 /\ queue'[i] = queue[i + 1]
    BY <1>1
  <2>3. 1 \in 1..Len(queue)
    BY <1>1
  <2>4. \A i, j \in 1..Len(queue') : i + 1 = j + 1 => i = j
    BY <1>1
  <2> HIDE DEF Job, Stop
  <2> QED
    BY <1>0, <1>1, <2>1, <2>2, <2>3, <2>4 DEF CallersWait
<1>7. DecisionsHaveHash'
    BY <1>0, <1>1 DEF IInv, DecisionsHaveHash
<1>8. TypeOK'
    BY <1>0, <1>1 DEF IInv, TypeOK, Take, bounds
<1> QED
    BY <1>4, <1>5, <1>6, <1>7, <1>8 DEF IInv

\* The job taken is done with, and whoever waits for it is answered.
LEMMA DoneKeepsIInv ==
    ASSUME IInv, taken \in Job, taken' = None,
           UNCHANGED <<queue, closer, alive>>,
           NEW text \in {"ok", "failed"}, Answer(text),
           \/ error' /\ UNCHANGED accepted
           \/ ~error /\ ~error' /\ accepted' = Tail(accepted)
    PROVE  /\ answer' \in [Callers -> {"none", "waiting", "ok", "failed"}]
           /\ accepted' \in Seq(Job)
           /\ StopIsLast' /\ BacklogIsAccepted' /\ CallersWait'
           /\ DecisionsHaveHash'
<1>0. /\ queue \in Seq(Job \cup {Stop}) /\ accepted \in Seq(Job)
      /\ answer \in [Callers -> {"none", "waiting", "ok", "failed"}]
      /\ answer' = [c \in Callers |-> IF c = taken.of THEN text ELSE answer[c]]
      /\ None \notin Job /\ Len(queue) \in Nat /\ taken # None /\ taken # Stop
    BY JobFacts, LenProperties, NoneIsNoJob DEF IInv, TypeOK, Answer
<1>1. answer' \in [Callers -> {"none", "waiting", "ok", "failed"}]
    BY <1>0
<1>2. StopIsLast'
    BY <1>0, NoneIsNoJob DEF IInv, StopIsLast
<1>3. Ahead = 1 /\ Ahead' = 0 /\ Stopping' = Stopping /\ Stopping \in {0, 1}
    BY <1>0 DEF Ahead, Stopping
<1>4. accepted' \in Seq(Job) /\ BacklogIsAccepted'
  <2>1. CASE error' /\ UNCHANGED accepted
    BY <2>1, <1>0 DEF BacklogIsAccepted
  <2>2. CASE ~error /\ ~error' /\ accepted' = Tail(accepted)
    <3>1. /\ Len(accepted) = 1 + Len(queue) - Stopping
          /\ \A i \in 1..Len(queue) :
                queue[i] # Stop => accepted[i + 1] = queue[i]
        BY <2>2, <1>3 DEF IInv, BacklogIsAccepted
    <3>2. Stopping = 1 => Len(queue) >= 1
        BY <1>0, EmptySeq DEF Stopping
    <3>3. accepted # <<>>
        BY <3>1, <3>2, <1>0, <1>3, EmptySeq
    <3>4. /\ accepted' \in Seq(Job) /\ Len(accepted') = Len(accepted) - 1
          /\ \A i \in 1..(Len(accepted) - 1) : accepted'[i] = accepted[i + 1]
      <4> HIDE DEF Job
      <4> QED
        BY <2>2, <3>3, <1>0, Shifted
    <3>5. \A i \in 1..Len(queue) :
             queue[i] # Stop => accepted'[i] = queue[i]
      <4> SUFFICES ASSUME NEW i \in 1..Len(queue), queue[i] # Stop
                   PROVE  accepted'[i] = queue[i]
        OBVIOUS
      <4>1. Stopping = 1 => i # Len(queue)
        BY DEF Stopping
      <4>2. i \in 1..(Len(accepted) - 1)
        BY <4>1, <3>1, <1>0, <1>3
      <4> QED
        BY <4>2, <3>1, <3>4
    <3> HIDE DEF Job, Stop
    <3> QED
        BY <3>1, <3>4, <3>5, <1>0, <1>3 DEF BacklogIsAccepted
  <2> QED
    BY <2>1, <2>2
<1>5. CallersWait'
  <2>1. \A i \in 1..Len(queue) : queue[i] \in Job \cup {Stop}
    BY <1>0, ElementOfSeq
  <2>2. \A i \in 1..Len(queue) :
           queue[i].kind = "read" => queue[i].of \in Callers
    BY <2>1, JobFacts DEF Stop
  <2> HIDE DEF Job, Stop
  <2> QED
    BY <2>2, <1>0 DEF IInv, CallersWait
<1>6. DecisionsHaveHash'
    BY <1>0 DEF IInv, DecisionsHaveHash
<1> QED
    BY <1>1, <1>2, <1>4, <1>5, <1>6

-----------------------------------------------------------------------------
(* The tables. *)

Tables ==
    [configs: SUBSET Configs, requests: Seq(Requests),
     decisions: SUBSET [kind: {"decision"}, of: Requests, hash: Configs],
     upstreams: SUBSET Requests, outcomes: SUBSET Requests]

\* Newest keeps a suffix, of MaxRequests rows if there are so many.
LEMMA NewestFacts ==
    ASSUME NEW rows \in Seq(Requests), MaxRequests # None
    PROVE  /\ Newest(rows) \in Seq(Requests)
           /\ Len(Newest(rows)) \in Nat /\ Len(Newest(rows)) <= MaxRequests
           /\ ToSet(Newest(rows)) \subseteq ToSet(rows)
<1>0. MaxRequests \in Nat /\ Len(rows) \in Nat /\ DOMAIN rows = 1..Len(rows)
    BY ConstantsAssumption, LenProperties
<1>1. CASE Len(rows) <= MaxRequests
    BY <1>0, <1>1 DEF Newest
<1>2. CASE Len(rows) > MaxRequests
  <2> DEFINE m == Len(rows) - MaxRequests + 1
             new == SubSeq(rows, m, Len(rows))
  <2>1. m \in 1..(Len(rows) + 1) /\ Newest(rows) = new
    BY <1>0, <1>2 DEF Newest
  <2>2. \A i \in m..Len(rows) : i \in 1..Len(rows) /\ rows[i] \in Requests
    BY <2>1, <1>0, ElementOfSeq
  <2>3. /\ new \in Seq(Requests)
        /\ Len(new) = IF m <= Len(rows) THEN Len(rows) - m + 1 ELSE 0
        /\ \A i \in 1..(Len(rows) - m + 1) : new[i] = rows[m + i - 1]
    <3> HIDE DEF m, new
    <3>1. m \in Int /\ Len(rows) \in Int
        BY <2>1, <1>0
    <3> QED
        BY <2>2, <3>1, SubSeqProperties DEF new
  <2>4. Len(new) = MaxRequests /\ DOMAIN new = 1..MaxRequests
    BY <2>3, <1>0, <1>2, LenProperties
  <2>5. \A i \in 1..MaxRequests : m + i - 1 \in 1..Len(rows)
                                 /\ new[i] = rows[m + i - 1]
    BY <2>1, <2>3, <1>0, <1>2
  <2> HIDE DEF m, new
  <2>6. ToSet(new) \subseteq ToSet(rows)
    BY <2>4, <2>5, <1>0 DEF ToSet
  <2> QED
    BY <2>1, <2>3, <2>4, <2>6, <1>0
<1> QED
    BY <1>0, <1>1, <1>2

\* A job that is run adds one row to one table.
LEMMA InsertFacts ==
    ASSUME NEW d \in Tables, NEW job \in Job, job.kind # "read",
           job.kind = "decision" => job.hash \in Configs
    PROVE  LET e == Insert(d, job)
           IN  /\ e \in Tables
               /\ d.configs \subseteq e.configs
               /\ \/ e.requests = d.requests
                  \/ e.requests = Append(d.requests, job.of)
                       /\ job.kind = "request"
               /\ ToSet(d.requests) \subseteq ToSet(e.requests)
               /\ d.decisions \subseteq e.decisions
               /\ e.decisions \subseteq d.decisions \cup {job}
               /\ d.upstreams \subseteq e.upstreams
               /\ e.upstreams \subseteq d.upstreams \cup {job.of}
               /\ d.outcomes \subseteq e.outcomes
               /\ e.outcomes \subseteq d.outcomes \cup {job.of}
               /\ e.decisions # d.decisions => job.kind = "decision"
               /\ e.upstreams # d.upstreams => job.kind = "upstream"
               /\ e.outcomes # d.outcomes => job.kind = "outcome"
<1>1. job.kind \in {"config", "request", "decision", "upstream", "outcome"}
    BY JobFacts DEF Stages
<1>2. CASE job.kind = "config"
    BY <1>2, JobFacts DEF Insert, Tables
<1>3. CASE job.kind = "request"
  <2>1. job.of \in Requests
    BY <1>3, JobFacts DEF Stages
  <2>2. d.requests \in Seq(Requests)
    BY DEF Tables
  <2> DEFINE rows == Append(d.requests, job.of)
  <2>3. /\ rows \in Seq(Requests) /\ Len(rows) = Len(d.requests) + 1
        /\ Len(d.requests) \in Nat
        /\ \A i \in 1..Len(d.requests) : rows[i] = d.requests[i]
        /\ DOMAIN rows = 1..Len(rows)
        /\ DOMAIN d.requests = 1..Len(d.requests)
    BY <2>1, <2>2, Appended, LenProperties
  <2>4. ToSet(d.requests) \subseteq ToSet(rows)
    BY <2>3 DEF ToSet
  <2>5. Insert(d, job) = [d EXCEPT !.requests = rows]
    BY <1>3 DEF Insert
  <2> HIDE DEF rows
  <2>6. /\ [d EXCEPT !.requests = rows] \in Tables
        /\ [d EXCEPT !.requests = rows].requests = rows
        /\ [d EXCEPT !.requests = rows].decisions = d.decisions
        /\ [d EXCEPT !.requests = rows].upstreams = d.upstreams
        /\ [d EXCEPT !.requests = rows].outcomes = d.outcomes
        /\ [d EXCEPT !.requests = rows].configs = d.configs
    BY <2>3 DEF Tables
  <2> QED
    BY <1>3, <2>4, <2>5, <2>6 DEF rows
<1>4. CASE job.kind = "decision"
  <2>1. job \in [kind: {"decision"}, of: Requests, hash: Configs]
    BY <1>4 DEF Job, Stages
  <2> QED
    BY <1>4, <2>1 DEF Insert, Tables
<1>5. CASE job.kind = "upstream"
    BY <1>5, JobFacts DEF Insert, Tables, Stages
<1>6. CASE job.kind = "outcome"
    BY <1>6, JobFacts DEF Insert, Tables, Stages
<1> QED
    BY <1>1, <1>2, <1>3, <1>4, <1>5, <1>6

\* Pruning keeps the newest requests and exactly what was recorded about them.
LEMMA PruneFacts ==
    ASSUME NEW d \in Tables
    PROVE  /\ Prune(d) \in Tables
           /\ MaxRequests = None => Prune(d) = d
           /\ MaxRequests # None =>
                 LET e == Prune(d)
                     kept == ToSet(e.requests)
                 IN  /\ e.requests = Newest(d.requests)
                     /\ e.decisions = {row \in d.decisions : row.of \in kept}
                     /\ e.upstreams = d.upstreams \cap kept
                     /\ e.outcomes = d.outcomes \cap kept
<1>1. CASE MaxRequests = None
    BY <1>1 DEF Prune
<1>2. CASE MaxRequests # None
  <2>1. d.requests \in Seq(Requests)
    BY DEF Tables
  <2>2. Newest(d.requests) \in Seq(Requests)
    BY <1>2, <2>1, NewestFacts
  <2> DEFINE rows == Newest(d.requests)
             kept == ToSet(rows)
             e == [d EXCEPT !.requests = rows,
                       !.decisions = {row \in @ : row.of \in kept},
                       !.upstreams = @ \cap kept,
                       !.outcomes = @ \cap kept]
  <2>3. Prune(d) = e
    BY <1>2 DEF Prune
  <2> HIDE DEF rows, kept
  <2>4. /\ e \in Tables /\ e.requests = rows
        /\ e.decisions = {row \in d.decisions : row.of \in kept}
        /\ e.upstreams = d.upstreams \cap kept
        /\ e.outcomes = d.outcomes \cap kept
    BY <2>2 DEF Tables, rows
  <2> QED
    BY <1>2, <2>3, <2>4 DEF kept, rows
<1> QED
    BY <1>1, <1>2

-----------------------------------------------------------------------------

\* What a write that succeeds leaves in the tables.
LEMMA RunFacts ==
    ASSUME IInv, Run
    PROVE  /\ taken \in Job /\ writes \in Nat /\ db \in Tables
           /\ taken.kind = "read" => UNCHANGED <<db, writes>>
           /\ taken.kind # "read" =>
                 /\ taken.kind = "decision" => taken.hash \in Configs
                 /\ writes' = writes + 1
                 /\ Insert(db, taken) \in Tables
                 /\ IF writes' % PruneInterval = 0
                    THEN db' = Prune(Insert(db, taken))
                    ELSE db' = Insert(db, taken)
           /\ db' \in Tables /\ writes' \in Nat
<1>1. taken \in Job /\ writes \in Nat /\ db \in Tables
    BY DEF IInv, TypeOK, Run, Tables
<1>2. CASE taken.kind = "read"
    BY <1>1, <1>2 DEF Run
<1>3. CASE taken.kind # "read"
  <2>1. taken.kind = "decision" => taken.hash \in Configs
    BY <1>1 DEF IInv, DecisionsHaveHash
  <2>2. Insert(db, taken) \in Tables
    BY <1>1, <1>3, <2>1, InsertFacts
  <2>3. writes' = writes + 1 /\ db' = IF writes' % PruneInterval = 0
                                      THEN Prune(Insert(db, taken))
                                      ELSE Insert(db, taken)
    BY <1>3 DEF Run
  <2>4. db' \in Tables
    BY <2>2, <2>3, PruneFacts
  <2> QED
    BY <1>1, <1>3, <2>1, <2>2, <2>3, <2>4
<1> QED
    BY <1>2, <1>3

LEMMA RunKeepsIInv ==
    ASSUME IInv, Run
    PROVE  IInv'
<1>1. taken \in Job /\ db' \in Tables /\ writes' \in Nat
    BY RunFacts
<1>2. /\ answer' \in [Callers -> {"none", "waiting", "ok", "failed"}]
      /\ accepted' \in Seq(Job)
      /\ StopIsLast' /\ BacklogIsAccepted' /\ CallersWait' /\ DecisionsHaveHash'
  <2>1. /\ taken' = None /\ UNCHANGED <<queue, closer, alive>>
        /\ Answer("ok") /\ ~error /\ ~error' /\ accepted' = Tail(accepted)
    BY DEF Run
  <2> QED
    BY <1>1, <2>1, DoneKeepsIInv
<1>3. TypeOK'
    BY <1>1, <1>2 DEF IInv, TypeOK, Run, Tables, bounds
<1> QED
    BY <1>2, <1>3 DEF IInv

LEMMA FailKeepsIInv ==
    ASSUME IInv, RunFails \/ Skip
    PROVE  IInv'
<1>1. taken \in Job
    BY DEF IInv, TypeOK, RunFails, Skip
<1>2. /\ answer' \in [Callers -> {"none", "waiting", "ok", "failed"}]
      /\ accepted' \in Seq(Job)
      /\ StopIsLast' /\ BacklogIsAccepted' /\ CallersWait' /\ DecisionsHaveHash'
  <2>1. /\ taken' = None /\ UNCHANGED <<queue, closer, alive, accepted>>
        /\ Answer("failed") /\ error'
    BY DEF RunFails, Skip
  <2> QED
    BY <1>1, <2>1, DoneKeepsIInv
<1>3. TypeOK'
    BY <1>2 DEF IInv, TypeOK, RunFails, Skip, bounds
<1> QED
    BY <1>2, <1>3 DEF IInv

LEMMA EndKeepsIInv ==
    ASSUME IInv, End
    PROVE  IInv'
<1>1. /\ taken = Stop /\ queue = <<>> /\ closer # "putting"
      /\ taken' = None /\ alive' = FALSE /\ error' \in {error, TRUE}
      /\ UNCHANGED <<queue, closer, answer, accepted>>
    BY DEF IInv, StopIsLast, End
<1>2. Stop \notin Job /\ None \notin Job /\ None # Stop
    BY JobFacts, NoneIsNoJob
<1>3. StopIsLast'
    BY <1>1, <1>2 DEF StopIsLast
<1>4. BacklogIsAccepted'
  <2>1. ~error' => ~error
    BY <1>1 DEF IInv, TypeOK
  <2>2. Ahead = 0 /\ Ahead' = 0 /\ Stopping = 0 /\ Stopping' = 0
    BY <1>1, <1>2 DEF Ahead, Stopping
  <2>3. ~error => Len(accepted) = 0
    BY <1>1, <2>2 DEF IInv, BacklogIsAccepted
  <2> QED
    BY <1>1, <1>2, <2>1, <2>2, <2>3 DEF BacklogIsAccepted
<1>5. CallersWait' /\ DecisionsHaveHash'
    BY <1>1, <1>2 DEF CallersWait, DecisionsHaveHash
<1>6. TypeOK'
    BY <1>1 DEF IInv, TypeOK, End, bounds
<1> QED
    BY <1>3, <1>4, <1>5, <1>6 DEF IInv

\* A start, the first or a later one, finds nothing queued and nobody waiting.
LEMMA FreshKeepsIInv ==
    ASSUME queue' = <<>>, taken' = None, closer' = "open", accepted' = <<>>
    PROVE  StopIsLast' /\ BacklogIsAccepted' /\ CallersWait'
             /\ DecisionsHaveHash'
<1>1. None \notin Job /\ None # Stop
    BY NoneIsNoJob
<1> QED
    BY <1>1 DEF StopIsLast, BacklogIsAccepted, CallersWait, DecisionsHaveHash,
                Ahead, Stopping

LEMMA RestartKeepsIInv ==
    ASSUME IInv, Restart
    PROVE  IInv'
<1>1. StopIsLast' /\ BacklogIsAccepted' /\ CallersWait' /\ DecisionsHaveHash'
    BY FreshKeepsIInv DEF Restart
<1>2. TypeOK'
  <2>1. chat' \in [Requests -> Stages \cup {"done"}]
    BY DEF IInv, TypeOK, Restart, Stages
  <2>2. Len(<<>>) <= QueueSize /\ 0 \in 0..MaxPublished
    BY ConstantsAssumption
  <2>3. restarts' \in 0..MaxRestarts
    BY ConstantsAssumption DEF IInv, TypeOK, Restart
  <2> QED
    BY <2>1, <2>2, <2>3 DEF IInv, TypeOK, Restart
<1> QED
    BY <1>1, <1>2 DEF IInv

LEMMA InitEstablishesIInv == Init => IInv
<1> SUFFICES ASSUME Init
             PROVE  IInv
    OBVIOUS
<1>1. None \notin Job /\ None # Stop
    BY NoneIsNoJob
<1>2. StopIsLast /\ BacklogIsAccepted /\ CallersWait /\ DecisionsHaveHash
    BY <1>1 DEF Init, StopIsLast, BacklogIsAccepted, CallersWait,
                DecisionsHaveHash, Ahead, Stopping
<1>3. TypeOK
    BY ConstantsAssumption DEF Init, TypeOK, Stages
<1> QED
    BY <1>2, <1>3 DEF IInv

LEMMA NextKeepsIInv == IInv /\ [Next]_vars => IInv'
<1> SUFFICES ASSUME IInv, [Next]_vars
             PROVE  IInv'
    OBVIOUS
<1>1. CASE UNCHANGED vars
    BY <1>1 DEF vars, writerVars, bounds, IInv, TypeOK, StopIsLast,
                BacklogIsAccepted, CallersWait, DecisionsHaveHash, Ahead, Stopping
<1>2. CASE Next
    BY <1>2, PublishKeepsIInv, RecordKeepsIInv, AbandonKeepsIInv, CallKeepsIInv,
       CloseKeepsIInv, PutStopKeepsIInv, TakeKeepsIInv, RunKeepsIInv,
       FailKeepsIInv, EndKeepsIInv, RestartKeepsIInv
    DEF Next, Writer
<1> QED
    BY <1>1, <1>2

\* The invariant holds.
LEMMA IInvAlways == Spec => []IInv
BY InitEstablishesIInv, NextKeepsIInv, PTL DEF Spec

\* Types are kept, and the queue never exceeds its limit.
THEOREM TypeCorrect == Spec => []TypeOK
<1>1. IInv => TypeOK
    BY DEF IInv
<1> QED
    BY <1>1, IInvAlways, PTL

-----------------------------------------------------------------------------
(* Evidence stays together. *)

\* Every step but a write leaves the tables alone.
LEMMA TablesKept ==
    ASSUME IInv, [Next]_vars, ~Run
    PROVE  UNCHANGED db
BY DEF Next, vars, writerVars, Publish, Record, Abandon, Call, Close, PutStop,
       Join, Writer, Take, RunFails, Skip, End, Restart

\* No write takes rows from a request it retains.
LEMMA RunKeepsTogether ==
    ASSUME IInv, Run,
           NEW r \in ToSet(db.requests) \cap ToSet(db'.requests)
    PROVE  /\ r \in db.upstreams => r \in db'.upstreams
           /\ r \in db.outcomes => r \in db'.outcomes
           /\ \A row \in db.decisions : row.of = r => row \in db'.decisions
<1> DEFINE e == Insert(db, taken)
<1>1. CASE taken.kind = "read"
    BY <1>1, RunFacts
<1>2. CASE taken.kind # "read"
  <2>1. /\ e \in Tables /\ db' \in {e, Prune(e)}
        /\ db.upstreams \subseteq e.upstreams
        /\ db.outcomes \subseteq e.outcomes
        /\ db.decisions \subseteq e.decisions
    BY <1>2, RunFacts, InsertFacts
  <2> HIDE DEF e
  <2>2. CASE db' = e
    BY <2>1, <2>2
  <2>3. CASE db' = Prune(e)
    BY <2>1, <2>3, PruneFacts
  <2> QED
    BY <2>1, <2>2, <2>3
<1> QED
    BY <1>1, <1>2

\* While a request is retained, so is everything recorded about it.
THEOREM EvidenceKeptTogether == Spec => EvidenceStaysTogether
<1>1. ASSUME IInv, [Next]_vars
      PROVE  [\A r \in ToSet(db.requests) \cap ToSet(db.requests') :
                /\ r \in db.upstreams => r \in db.upstreams'
                /\ r \in db.outcomes => r \in db.outcomes'
                /\ \A row \in db.decisions :
                      row.of = r => row \in db.decisions']_vars
  <2>1. CASE Run
    BY <1>1, <2>1, RunKeepsTogether
  <2>2. CASE ~Run
    BY <1>1, <2>2, TablesKept
  <2> QED
    BY <2>1, <2>2
<1> QED
    BY <1>1, IInvAlways, PTL DEF Spec, EvidenceStaysTogether

-----------------------------------------------------------------------------
(* Evidence is bounded. *)

\* Between two prunings the writes are counted.
LEMMA NextRemainder ==
    ASSUME NEW n \in Nat, NEW k \in Nat \ {0}
    PROVE  /\ n % k \in Nat
           /\ (n + 1) % k # 0 => (n + 1) % k = (n % k) + 1
           /\ k % k = 0
<1>1. n % k \in Nat
    OBVIOUS
<1>2. k % k = 0
    OBVIOUS
<1>3. ASSUME (n + 1) % k # 0
      PROVE  (n + 1) % k = (n % k) + 1
  <2>1. (n + 1) \div k = n \div k
    BY <1>3, SMTT(30)
  <2> QED
    BY <2>1, SMTT(30)
<1> QED
    BY <1>1, <1>2, <1>3

\* The rows that refer to a request that is gone.
Lost == {row \in Orphans : row[2] \notin ToSet(db.requests)}

\* EvidenceBounded, for a set of lost rows that is known to be finite.
Bounded ==
    MaxRequests # None /\ writes >= PruneInterval =>
        /\ Len(db.requests) <= MaxRequests + (writes % PruneInterval)
        /\ IsFiniteSet(Lost)
        /\ Cardinality(Lost) <= writes % PruneInterval

\* A row is added at a time, and so is a lost row.
LEMMA InsertLosesOne ==
    ASSUME IInv, Run, taken.kind # "read", db' = Insert(db, taken)
    PROVE  /\ Len(db.requests) \in Nat
           /\ Len(db'.requests) \in Nat
           /\ Len(db'.requests) <= Len(db.requests) + 1
           /\ Lost' \subseteq Lost \cup {<<taken.kind, taken.of>>}
<1> DEFINE x == <<taken.kind, taken.of>>
<1>1. /\ taken \in Job /\ db \in Tables
      /\ taken.kind = "decision" => taken.hash \in Configs
    BY RunFacts
<1>2. /\ db' \in Tables
      /\ \/ db'.requests = db.requests
         \/ db'.requests = Append(db.requests, taken.of)
              /\ taken.kind = "request"
      /\ ToSet(db.requests) \subseteq ToSet(db'.requests)
      /\ db'.decisions \subseteq db.decisions \cup {taken}
      /\ db'.upstreams \subseteq db.upstreams \cup {taken.of}
      /\ db'.outcomes \subseteq db.outcomes \cup {taken.of}
      /\ db'.decisions # db.decisions => taken.kind = "decision"
      /\ db'.upstreams # db.upstreams => taken.kind = "upstream"
      /\ db'.outcomes # db.outcomes => taken.kind = "outcome"
    BY <1>1, InsertFacts
<1>3. db.requests \in Seq(Requests) /\ db'.requests \in Seq(Requests)
    BY <1>1, <1>2 DEF Tables
<1>4. Len(db.requests) \in Nat /\ Len(db'.requests) \in Nat
    BY <1>3, LenProperties
<1>5. Len(db'.requests) <= Len(db.requests) + 1
  <2>1. CASE db'.requests = db.requests
    BY <2>1, <1>4
  <2>2. CASE db'.requests = Append(db.requests, taken.of)
              /\ taken.kind = "request"
    <3>1. taken.of \in Requests
        BY <2>2, <1>1, JobFacts DEF Stages
    <3>2. Len(db'.requests) = Len(db.requests) + 1
        BY <3>1, <2>2, <1>3, Appended
    <3> QED
        BY <3>2, <1>4
  <2> QED
    BY <2>1, <2>2, <1>2
<1>6. Orphans' \subseteq Orphans \cup {x}
  <2>1. \A row \in db'.decisions : row \in db.decisions \/ <<"decision", row.of>> = x
    BY <1>2
  <2>2. \A r \in db'.upstreams : r \in db.upstreams \/ <<"upstream", r>> = x
    BY <1>2
  <2>3. \A r \in db'.outcomes : r \in db.outcomes \/ <<"outcome", r>> = x
    BY <1>2
  <2> HIDE DEF x
  <2> QED
    BY <2>1, <2>2, <2>3 DEF Orphans
<1>7. Lost' \subseteq Lost \cup {x}
    BY <1>2, <1>6 DEF Lost
<1> QED
    BY <1>4, <1>5, <1>7

\* A pruning leaves no lost row.
LEMMA PruneLosesNone ==
    ASSUME IInv, MaxRequests # None, NEW d \in Tables, db' = Prune(d)
    PROVE  /\ Len(db'.requests) \in Nat /\ Len(db'.requests) <= MaxRequests
           /\ Lost' = {}
<1>1. /\ db'.requests = Newest(d.requests)
      /\ \A row \in db'.decisions : row.of \in ToSet(db'.requests)
      /\ db'.upstreams \subseteq ToSet(db'.requests)
      /\ db'.outcomes \subseteq ToSet(db'.requests)
    BY PruneFacts
<1>2. d.requests \in Seq(Requests)
    BY DEF Tables
<1>3. \A row \in Orphans' : row[2] \in ToSet(db'.requests)
    BY <1>1 DEF Orphans
<1> QED
    BY <1>1, <1>2, <1>3, NewestFacts DEF Lost

LEMMA RunKeepsBounded ==
    ASSUME IInv, Bounded, Run
    PROVE  Bounded'
<1>0. /\ PruneInterval \in Nat \ {0} /\ writes \in Nat
      /\ MaxRequests # None => MaxRequests \in Nat
    BY RunFacts, ConstantsAssumption
<1>1. CASE taken.kind = "read"
    BY <1>1, RunFacts DEF Bounded, Lost, Orphans
<1>2. CASE taken.kind # "read"
  <2>1. /\ writes' = writes + 1 /\ Insert(db, taken) \in Tables
        /\ IF writes' % PruneInterval = 0
           THEN db' = Prune(Insert(db, taken))
           ELSE db' = Insert(db, taken)
    BY <1>2, RunFacts
  <2> SUFFICES ASSUME MaxRequests # None, writes' >= PruneInterval
               PROVE  /\ Len(db'.requests) <=
                            MaxRequests + (writes' % PruneInterval)
                      /\ IsFiniteSet(Lost')
                      /\ Cardinality(Lost') <= writes' % PruneInterval
    BY DEF Bounded
  <2>2. CASE writes' % PruneInterval = 0
    <3>1. Len(db'.requests) \in Nat /\ Len(db'.requests) <= MaxRequests
             /\ Lost' = {}
        BY <2>1, <2>2, PruneLosesNone
    <3> QED
        BY <3>1, <2>2, <1>0, FS_EmptySet
  <2>3. CASE writes' % PruneInterval # 0
    <3>1. writes' % PruneInterval = (writes % PruneInterval) + 1
             /\ writes % PruneInterval \in Nat
        BY <2>1, <2>3, <1>0, NextRemainder
    <3>2. writes >= PruneInterval
      <4>1. writes' # PruneInterval
        BY <2>3, <1>0, NextRemainder
      <4> QED
        BY <4>1, <2>1, <1>0
    <3>3. /\ Len(db.requests) <= MaxRequests + (writes % PruneInterval)
          /\ IsFiniteSet(Lost)
          /\ Cardinality(Lost) <= writes % PruneInterval
        BY <3>2 DEF Bounded
    <3> DEFINE x == <<taken.kind, taken.of>>
    <3>4. /\ Len(db.requests) \in Nat /\ Len(db'.requests) \in Nat
          /\ Len(db'.requests) <= Len(db.requests) + 1
          /\ Lost' \subseteq Lost \cup {x}
        BY <2>1, <2>3, <1>2, InsertLosesOne
    <3>5. /\ IsFiniteSet(Lost \cup {x})
          /\ Cardinality(Lost \cup {x}) <= Cardinality(Lost) + 1
          /\ Cardinality(Lost) \in Nat /\ Cardinality(Lost \cup {x}) \in Nat
      <4> HIDE DEF x
      <4>1. /\ IsFiniteSet(Lost \cup {x})
            /\ Cardinality(Lost \cup {x}) \in
                  {Cardinality(Lost), Cardinality(Lost) + 1}
        BY <3>3, FS_AddElement
      <4>2. Cardinality(Lost) \in Nat
        BY <3>3, FS_CardinalityType
      <4> QED
        BY <4>1, <4>2
    <3>6. IsFiniteSet(Lost') /\ Cardinality(Lost') <= Cardinality(Lost \cup {x})
             /\ Cardinality(Lost') \in Nat
      <4> HIDE DEF x
      <4> QED
        BY <3>4, <3>5, FS_Subset, FS_CardinalityType
    <3> HIDE DEF x
    <3>7. Len(db'.requests) <= MaxRequests + (writes' % PruneInterval)
        BY <3>1, <3>3, <3>4, <1>0
    <3>8. Cardinality(Lost') <= writes' % PruneInterval
        BY <3>1, <3>3, <3>5, <3>6
    <3> QED
        BY <3>6, <3>7, <3>8
  <2> QED
    BY <2>2, <2>3
<1> QED
    BY <1>1, <1>2

LEMMA StepKeepsBounded ==
    ASSUME IInv, Bounded, [Next]_vars
    PROVE  Bounded'
<1>1. CASE Run
    BY <1>1, RunKeepsBounded
<1>2. CASE Restart
    BY <1>2, ConstantsAssumption DEF Restart, Bounded
<1>3. CASE ~Run /\ ~Restart
  <2>1. UNCHANGED <<db, writes>>
    BY <1>3 DEF Next, vars, writerVars, Publish, Record, Abandon, Call, Close,
                PutStop, Join, Writer, Take, RunFails, Skip, End
  <2> QED
    BY <2>1 DEF Bounded, Lost, Orphans
<1> QED
    BY <1>1, <1>2, <1>3

\* From the first pruning on, the requests and the rows whose request is gone are
\* no more than the limit and what was written since the last pruning.
THEOREM EvidenceLimited == Spec => []EvidenceBounded
<1>1. Init => Bounded
    BY ConstantsAssumption DEF Init, Bounded
<1>2. Bounded => EvidenceBounded
    BY DEF Bounded, EvidenceBounded, Lost
<1> QED
    BY <1>1, <1>2, IInvAlways, StepKeepsBounded, PTL DEF Spec

-----------------------------------------------------------------------------
(* What close() leaves undone. *)

\* close() has returned only if the thread is over.
ClosedWhenOver == closer = "closed" => ~alive

LEMMA ClosedStep ==
    ASSUME ClosedWhenOver, [Next]_vars
    PROVE  ClosedWhenOver'
<1>1. CASE UNCHANGED <<closer, alive>>
    BY <1>1 DEF ClosedWhenOver
<1>2. CASE Close \/ PutStop \/ Restart
    BY <1>2 DEF ClosedWhenOver, Close, PutStop, Restart
<1>3. CASE Join
    BY <1>3 DEF ClosedWhenOver, Join, writerVars
<1>4. CASE End
    BY <1>4 DEF ClosedWhenOver, End
<1>5. \/ UNCHANGED <<closer, alive>>
      \/ Close \/ PutStop \/ Join \/ End \/ Restart
    BY DEF Next, vars, writerVars, Publish, Record, Abandon, Call, Writer, Take,
           Run, RunFails, Skip
<1> QED
    BY <1>1, <1>2, <1>3, <1>4, <1>5

\* Unless a job failed, every job that was accepted has been run when close() has
\* returned, as the comment in close() says: what it may leave is behind a failure.
THEOREM CloseDrains == Spec => [](~error => AcceptedJobsRun)
<1>1. Init => ClosedWhenOver
    BY DEF Init, ClosedWhenOver
<1>2. IInv /\ ClosedWhenOver => (~error => AcceptedJobsRun)
  <2> SUFFICES ASSUME IInv, ClosedWhenOver, ~error, closer = "closed"
               PROVE  Len(accepted) <= 0
    BY DEF AcceptedJobsRun
  <2>1. taken = None /\ queue = <<>>
    BY DEF IInv, StopIsLast, ClosedWhenOver
  <2>2. Ahead = 0 /\ Stopping = 0
    BY <2>1, NoneIsNoJob DEF Ahead, Stopping
  <2>3. Len(accepted) = 0
    BY <2>1, <2>2, EmptySeq DEF IInv, BacklogIsAccepted
  <2> QED
    BY <2>3
<1> QED
    BY <1>1, <1>2, IInvAlways, ClosedStep, PTL DEF Spec

-----------------------------------------------------------------------------
(* The recorder implements the durable log. *)

LogStep == [Log!Next]_(Log!vars)

\* The job that is being run is the one the log has first.
LEMMA TakenIsHead ==
    ASSUME IInv, taken \in Job, ~error
    PROVE  accepted # <<>> /\ Head(accepted) = taken
<1>1. /\ queue \in Seq(Job \cup {Stop}) /\ accepted \in Seq(Job)
      /\ Len(queue) \in Nat
    BY LenProperties DEF IInv, TypeOK
<1>2. Ahead = 1 /\ Stopping \in {0, 1} /\ (Stopping = 1 => Len(queue) >= 1)
    BY <1>1, EmptySeq DEF Ahead, Stopping
<1>3. Len(accepted) = Ahead + Len(queue) - Stopping /\ accepted[1] = taken
    BY DEF IInv, BacklogIsAccepted
<1>4. accepted # <<>>
    BY <1>1, <1>2, <1>3, EmptySeq
<1> QED
    BY <1>1, <1>3, <1>4, Shifted

\* Nobody waits for a job that is no read.
LEMMA OthersUnanswered ==
    ASSUME IInv, NEW x, x \notin Callers, NEW text
    PROVE  [c \in Callers |-> IF c = x THEN text ELSE answer[c]] = answer
BY DEF IInv, TypeOK

LEMMA SubmitRefines ==
    ASSUME IInv, NEW job \in Job, job.kind # "read", SubmitOrDrop(job),
           UNCHANGED <<last, error, answer>>
    PROVE  LogStep
<1>1. CASE Accepting
  <2>1. /\ accepted' = Append(accepted, job) /\ ~error
    BY <1>1 DEF SubmitOrDrop, Enqueue, Accepting
  <2>2. answer' = [c \in Callers |-> IF c = job.of THEN "waiting" ELSE answer[c]]
    BY JobFacts, OthersUnanswered
  <2>3. Log!Accept(job)
    BY <2>1, <2>2 DEF Log!Accept
  <2> QED
    BY <2>3 DEF LogStep, Log!Next
<1>2. CASE ~Accepting
    BY <1>2 DEF SubmitOrDrop, LogStep, Log!vars
<1> QED
    BY <1>1, <1>2

LEMMA PublishRefines ==
    ASSUME IInv, NEW h \in Configs, Publish(h)
    PROVE  LogStep
<1> DEFINE job == [kind |-> "config", of |-> None, hash |-> h]
<1>1. job \in Job /\ job.kind # "read" /\ SubmitOrDrop(job)
      /\ UNCHANGED <<last, error, answer>>
    BY JobsMade DEF Publish, writerVars
<1> HIDE DEF job
<1> QED
    BY <1>1, SubmitRefines

LEMMA RecordRefines ==
    ASSUME IInv, NEW r \in Requests, Record(r)
    PROVE  LogStep
<1> DEFINE job == [kind |-> chat[r], of |-> r,
                   hash |-> IF chat[r] = "decision" THEN configHash ELSE None]
<1>1. chat[r] \in Stages /\ configHash \in Configs
    BY DEF Record, IInv, TypeOK
<1>2. job \in Job /\ job.kind # "read"
    BY <1>1, JobsMade DEF Stages
<1>3. SubmitOrDrop(job) /\ UNCHANGED <<last, error, answer>>
    BY DEF Record, writerVars
<1> HIDE DEF job
<1> QED
    BY <1>2, <1>3, SubmitRefines

LEMMA CallRefines ==
    ASSUME IInv, NEW c \in Callers, Call(c)
    PROVE  LogStep
<1> DEFINE job == [kind |-> "read", of |-> c, hash |-> None]
<1>1. /\ job \in Job /\ job.of = c /\ SubmitOrDrop(job)
      /\ answer \in [Callers -> {"none", "waiting", "ok", "failed"}]
      /\ answer[c] = "none"
      /\ answer' = [answer EXCEPT ![c] = IF Accepting THEN "waiting"
                                         ELSE "failed"]
      /\ UNCHANGED <<last, error>>
    BY JobsMade DEF Call, writerVars, IInv, TypeOK
<1> HIDE DEF job
<1>2. CASE Accepting
  <2>1. accepted' = Append(accepted, job) /\ ~error
    BY <1>1, <1>2 DEF SubmitOrDrop, Enqueue, Accepting
  <2>2. answer' = [d \in Callers |-> IF d = job.of THEN "waiting" ELSE answer[d]]
    BY <1>1, <1>2
  <2>3. Log!Accept(job)
    BY <2>1, <2>2, <1>1 DEF Log!Accept
  <2> QED
    BY <2>3, <1>1 DEF LogStep, Log!Next
<1>3. CASE ~Accepting
  <2>1. Log!Refuse(c)
    BY <1>1, <1>3 DEF SubmitOrDrop, Log!Refuse
  <2> QED
    BY <2>1 DEF LogStep, Log!Next
<1> QED
    BY <1>2, <1>3

LEMMA RunRefines ==
    ASSUME IInv, Run
    PROVE  LogStep
<1>1. taken \in Job /\ ~error
    BY RunFacts DEF Run
<1>2. accepted # <<>> /\ Head(accepted) = taken
    BY <1>1, TakenIsHead
<1>3. Log!Persist
  <2>1. /\ last' = taken /\ accepted' = Tail(accepted) /\ error' = error
        /\ answer' = [c \in Callers |-> IF c = taken.of THEN "ok" ELSE answer[c]]
    BY DEF Run, Answer
  <2> HIDE DEF Job
  <2> QED
    BY <1>1, <1>2, <2>1 DEF Log!Persist, Log!Turn
<1> QED
    BY <1>3 DEF LogStep, Log!Next

LEMMA RunFailsRefines ==
    ASSUME IInv, RunFails
    PROVE  LogStep
<1>1. taken \in Job /\ ~error
    BY DEF IInv, TypeOK, RunFails
<1>2. accepted # <<>> /\ Head(accepted) = taken
    BY <1>1, TakenIsHead
<1>3. Log!Freeze
  <2>1. /\ error' = TRUE /\ UNCHANGED <<accepted, last>>
        /\ answer' = [c \in Callers |-> IF c = taken.of THEN "failed"
                                        ELSE answer[c]]
    BY DEF RunFails, Answer
  <2> HIDE DEF Job
  <2> QED
    BY <1>2, <2>1 DEF Log!Freeze, Log!Turn
<1> QED
    BY <1>3 DEF LogStep, Log!Next

LEMMA SkipRefines ==
    ASSUME IInv, Skip
    PROVE  LogStep
<1>1. /\ taken \in Job /\ error /\ UNCHANGED <<accepted, last, error>>
      /\ answer \in [Callers -> {"none", "waiting", "ok", "failed"}]
      /\ answer' = [c \in Callers |-> IF c = taken.of THEN "failed"
                                      ELSE answer[c]]
    BY DEF IInv, TypeOK, Skip, Answer
<1>2. CASE taken.kind = "read"
  <2>1. taken.of \in Callers /\ answer[taken.of] = "waiting"
    BY <1>1, <1>2, JobFacts DEF IInv, CallersWait
  <2>2. answer' = [answer EXCEPT ![taken.of] = "failed"]
    BY <1>1, <2>1
  <2>3. Log!Discard(taken.of)
    BY <1>1, <2>1, <2>2 DEF Log!Discard
  <2> QED
    BY <2>1, <2>3 DEF LogStep, Log!Next
<1>3. CASE taken.kind # "read"
  <2>1. answer' = answer
    BY <1>1, <1>3, JobFacts, OthersUnanswered
  <2> QED
    BY <1>1, <2>1 DEF LogStep, Log!vars
<1> QED
    BY <1>2, <1>3

\* When the thread ends nothing accepted is left, unless a job had failed.
LEMMA EndRefines ==
    ASSUME IInv, End
    PROVE  LogStep
<1>1. /\ taken = Stop /\ queue = <<>> /\ error' \in {error, TRUE}
      /\ UNCHANGED <<accepted, last, answer>>
      /\ error \in BOOLEAN /\ accepted \in Seq(Job)
      /\ answer \in [Callers -> {"none", "waiting", "ok", "failed"}]
    BY DEF IInv, TypeOK, StopIsLast, End
<1>2. CASE error' = error
    BY <1>1, <1>2 DEF LogStep, Log!vars
<1>3. CASE error' # error
  <2>1. ~error /\ error' = TRUE
    BY <1>1, <1>3
  <2>2. Ahead = 0 /\ Stopping = 0
    BY <1>1, JobFacts DEF Ahead, Stopping
  <2>3. accepted = <<>>
    BY <1>1, <2>1, <2>2, EmptySeq DEF IInv, BacklogIsAccepted
  <2>4. answer' = [c \in Callers |-> IF Log!Turn(c) THEN "failed" ELSE answer[c]]
    BY <1>1, <2>3 DEF Log!Turn
  <2>5. Log!Freeze
    BY <1>1, <2>1, <2>4 DEF Log!Freeze
  <2> QED
    BY <2>5 DEF LogStep, Log!Next
<1> QED
    BY <1>2, <1>3

LEMMA RestartRefines ==
    ASSUME Restart
    PROVE  LogStep
<1>1. Log!Restart
    BY DEF Restart, Log!Restart
<1> QED
    BY <1>1 DEF LogStep, Log!Next

\* Every step is one of the durable log's, or changes nothing of it.
LEMMA StepRefines ==
    ASSUME IInv, [Next]_vars
    PROVE  LogStep
<1>1. CASE UNCHANGED vars
    BY <1>1 DEF vars, writerVars, LogStep, Log!vars
<1>2. CASE \/ \E r \in Requests : Abandon(r)
           \/ Close \/ PutStop \/ Join \/ Take
    BY <1>2 DEF Abandon, Close, PutStop, Join, Take, writerVars, LogStep, Log!vars
<1>3. CASE Next
    BY <1>2, <1>3, PublishRefines, RecordRefines, CallRefines, RunRefines,
       RunFailsRefines, SkipRefines, EndRefines, RestartRefines
    DEF Next, Writer
<1> QED
    BY <1>1, <1>3

\* What the recorder accepts is committed in that order and without a gap, a call
\* succeeds only when everything accepted before it is committed, and nothing is
\* committed after a failure.
THEOREM CommitsInOrder == Spec => KeepsOrder
<1>1. Init => Log!Init
    BY DEF Init, Log!Init
<1>2. IInv /\ [Next]_vars => [Log!Next]_(Log!vars)
    BY StepRefines DEF LogStep
<1> QED
    BY <1>1, <1>2, IInvAlways, PTL DEF Spec, KeepsOrder, Log!Spec

=============================================================================
