------------------------ MODULE StreamDeliveryProofs ------------------------
(***************************************************************************)
(* Proofs of the invariants of StreamDelivery, for any number of requests  *)
(* and chunks and any limit of the registry.                               *)
(*                                                                         *)
(* A request's state is written by its own steps only; what requests share *)
(* is the registry. So the inductive invariant is a predicate of each      *)
(* request (Local), what the registry says of it (Listed) and the bound of *)
(* the registry, and each action is examined for the request it serves.    *)
(***************************************************************************)
EXTENDS StreamDelivery, FiniteSetTheorems, TLAPS

Outcomes == {list \in Seq(BOOLEAN) : Len(list) <= 1}

Succeeded(r) == outcomes[r] # <<>> /\ outcomes[r][1]

SdkState == [chunks: 0..MaxChunks, reason: BOOLEAN, exhausted: BOOLEAN,
             closed: BOOLEAN]

Flags == [interrupted: BOOLEAN, completed: BOOLEAN, delivered: BOOLEAN,
          terminal: BOOLEAN]

Types ==
    /\ pc \in [Requests -> Steps]
    /\ streams \in [Requests -> BOOLEAN]
    /\ tracked \in [Requests -> BOOLEAN]
    /\ registry \subseteq Requests
    /\ complete \in BOOLEAN
    /\ loop \in [Requests -> {"next", "waiting", "chunk", "end"}]
    /\ worker \in [Requests -> {"none", "queued", "reading"}]
    /\ generator \in [Requests -> {"fresh", "suspended", "ended", "closed"}]
    /\ sdk \in [Requests -> SdkState]
    /\ flags \in [Requests -> Flags]
    /\ outcomes \in [Requests -> Outcomes]
    /\ captured \in [Requests -> BOOLEAN]

\* Nothing has been delivered or recorded yet.
Untouched(r) ==
    /\ worker[r] = "none" /\ generator[r] = "fresh"
    /\ outcomes[r] = <<>>
    /\ ~flags[r].interrupted /\ ~flags[r].completed
    /\ ~sdk[r].closed

Streaming == {"respond", "serving", "closing", "closeSdk", "finish", "settle"}

\* Where a request stands, and what that says of its stream.
Stage(r) ==
    /\ pc[r] \in {"new", "call", "capture", "respond", "reply"} => Untouched(r)
    /\ pc[r] = "reply" => ~streams[r]
    /\ pc[r] \in Streaming => streams[r]
    /\ pc[r] = "serving" => ~flags[r].interrupted
    /\ pc[r] \in {"closing", "closeSdk", "finish", "settle"}
          => flags[r].interrupted
    /\ sdk[r].closed => pc[r] \in {"finish", "settle", "done"}

\* What a worker may find when it gets to its generator.
WorkerFinds(r) ==
    /\ worker[r] = "queued" /\ pc[r] # "serving" => flags[r].interrupted
    /\ pc[r] = "serving" /\ worker[r] # "none" => loop[r] = "waiting"
    /\ pc[r] = "serving" /\ generator[r] \in {"ended", "closed"}
          => loop[r] = "end"
    /\ worker[r] = "reading" => /\ pc[r] \in {"serving", "closing"}
                                /\ generator[r] \in {"fresh", "suspended"}

\* What a success rests on.
Success(r) ==
    /\ pc[r] # "done" => ~captured[r] /\ ~Succeeded(r)
    /\ flags[r].completed => sdk[r].exhausted /\ sdk[r].reason
    /\ streams[r] /\ (captured[r] \/ Succeeded(r))
          => flags[r].completed /\ flags[r].terminal

Local(r) == Stage(r) /\ WorkerFinds(r) /\ Success(r)

\* What the registry says of a request.
Listed(r) ==
    /\ r \in registry => tracked[r]
    /\ complete /\ InFlight(r) => r \in registry
    /\ pc[r] \in {"new", "settle", "done"} => r \notin registry

RegistryBound ==
    IsFiniteSet(registry) /\ Cardinality(registry) <= ActivityLimit

IInv ==
    /\ Types
    /\ RegistryBound
    /\ \A r \in Requests : Local(r) /\ Listed(r)

\* A step of r leaves every other request as it is.
Kept(r) ==
    /\ \A o \in Requests \ {r} :
          /\ pc'[o] = pc[o] /\ streams'[o] = streams[o]
          /\ tracked'[o] = tracked[o] /\ (o \in registry' <=> o \in registry)
          /\ loop'[o] = loop[o] /\ worker'[o] = worker[o]
          /\ generator'[o] = generator[o] /\ sdk'[o] = sdk[o]
          /\ flags'[o] = flags[o] /\ outcomes'[o] = outcomes[o]
          /\ captured'[o] = captured[o]
    /\ complete' => complete

-----------------------------------------------------------------------------
(* Frames. *)

LEMMA StepKeepsIInv ==
    ASSUME IInv, NEW r \in Requests, Types', RegistryBound', Kept(r),
           Local(r)', Listed(r)'
    PROVE  IInv'
<1>1. ASSUME NEW o \in Requests \ {r}
      PROVE  Local(o)'
    BY <1>1 DEF IInv, Kept, Local, Stage, Untouched, WorkerFinds, Success,
                Succeeded
<1>2. ASSUME NEW o \in Requests \ {r}
      PROVE  Listed(o)'
    BY <1>2 DEF IInv, Kept, Listed, InFlight
<1> QED
    BY <1>1, <1>2 DEF IInv

\* A registry that loses requests keeps its bound.
LEMMA RegistryShrinks ==
    ASSUME RegistryBound, registry' \subseteq registry
    PROVE  RegistryBound'
<1>1. IsFiniteSet(registry') /\ Cardinality(registry') <= Cardinality(registry)
    BY FS_Subset DEF RegistryBound
<1>2. Cardinality(registry) \in Nat /\ Cardinality(registry') \in Nat
    BY <1>1, FS_CardinalityType DEF RegistryBound
<1> QED
    BY <1>1, <1>2, ConstantsAssumption DEF RegistryBound

\* A registry that had room may take one more.
LEMMA RegistryGrows ==
    ASSUME RegistryBound, NEW r, Cardinality(registry) < ActivityLimit,
           registry' = registry \cup {r}
    PROVE  RegistryBound'
<1>1. Cardinality(registry) \in Nat
    BY FS_CardinalityType DEF RegistryBound
<1>2. IsFiniteSet(registry')
      /\ Cardinality(registry') <= Cardinality(registry) + 1
    BY <1>1, FS_AddElement DEF RegistryBound
<1>3. Cardinality(registry') \in Nat
    BY <1>2, FS_CardinalityType
<1> QED
    BY <1>1, <1>2, <1>3, ConstantsAssumption DEF RegistryBound

\* The first outcome is recorded, and a stream records no second one.
LEMMA OutcomeRecorded ==
    ASSUME Types, NEW r \in Requests, NEW ok \in BOOLEAN,
           \/ RecordOutcome(r, ok) /\ outcomes[r] = <<>>
           \/ RecordStreamOutcome(r, ok)
    PROVE  /\ outcomes' \in [Requests -> Outcomes]
           /\ \A o \in Requests \ {r} : outcomes'[o] = outcomes[o]
           /\ outcomes[r] = <<>> => Succeeded(r)' = ok
           /\ outcomes[r] # <<>> => Succeeded(r)' = Succeeded(r)
<1> DEFINE one == Append(<<>>, ok)
<1>1. one \in Outcomes /\ one # <<>> /\ one[1] = ok
    BY DEF Outcomes
<1> HIDE DEF one
<1>2. outcomes \in [Requests -> Outcomes]
    BY DEF Types
<1>3. CASE outcomes[r] = <<>>
    <2>1. outcomes' = [outcomes EXCEPT ![r] = one]
        BY <1>3 DEF one, RecordOutcome, RecordStreamOutcome
    <2> QED
        BY <1>1, <1>2, <1>3, <2>1 DEF Succeeded
<1>4. CASE outcomes[r] # <<>>
    <2>1. outcomes' = outcomes
        BY <1>4 DEF RecordStreamOutcome
    <2> QED
        BY <1>2, <1>4, <2>1 DEF Succeeded
<1> QED
    BY <1>3, <1>4

\* A failure that may be recorded makes no success.
LEMMA FailureRecorded ==
    ASSUME Types, NEW r \in Requests,
           RecordStreamOutcome(r, FALSE) \/ outcomes' = outcomes
    PROVE  /\ outcomes' \in [Requests -> Outcomes]
           /\ \A o \in Requests \ {r} : outcomes'[o] = outcomes[o]
           /\ Succeeded(r)' => Succeeded(r)
<1>1. CASE RecordStreamOutcome(r, FALSE)
    BY <1>1, OutcomeRecorded DEF Succeeded
<1>2. CASE outcomes' = outcomes
    BY <1>2 DEF Types, Succeeded
<1> QED
    BY <1>1, <1>2

-----------------------------------------------------------------------------
(* The route. *)

\* The registry takes the request if it has room.
LEMMA BeginKeepsIInv ==
    ASSUME IInv, NEW r \in Requests, Begin(r)
    PROVE  IInv'
<1>1. Types /\ RegistryBound /\ Local(r) /\ Listed(r)
    BY DEF IInv
<1>2. /\ registry' \in {registry, registry \cup {r}} /\ complete' \in BOOLEAN
      /\ tracked' \in {tracked, [tracked EXCEPT ![r] = TRUE]}
    BY <1>1 DEF Types, Begin, BeginActivity, activity
<1>3. Types'
    BY <1>1, <1>2 DEF Types, Steps, Begin, Goto, served, activity,
           BeginActivity
<1>4. RegistryBound'
    <2>1. Cardinality(registry) \in Nat
        BY <1>1, FS_CardinalityType DEF RegistryBound
    <2>2. CASE Cardinality(registry) >= ActivityLimit
        BY <1>1, <2>2, RegistryShrinks DEF Begin, BeginActivity
    <2>3. CASE ~(Cardinality(registry) >= ActivityLimit)
        <3>1. Cardinality(registry) < ActivityLimit
            BY <2>1, <2>3, ConstantsAssumption
        <3> QED
            BY <1>1, <2>3, <3>1, RegistryGrows DEF Begin, BeginActivity
    <2> QED
        BY <2>2, <2>3
<1>5. Kept(r)
    BY <1>1, <1>2 DEF Types, Kept, Begin, Goto, served, activity, BeginActivity
<1>6. Local(r)'
    BY <1>1, <1>2 DEF Types, Local, Stage, Streaming, Untouched, WorkerFinds,
           Success, Succeeded, Begin, Goto, served, activity, BeginActivity
<1>7. Listed(r)'
    BY <1>1, <1>2 DEF Types, Listed, InFlight, Local, Stage, Streaming,
           Untouched, WorkerFinds, Success, Succeeded, Begin, Goto, served,
           activity, BeginActivity
<1> QED
    BY <1>3, <1>4, <1>5, <1>6, <1>7, StepKeepsIInv

\* The provider answers.
LEMMA CallProviderKeepsIInv ==
    ASSUME IInv, NEW r \in Requests, CallProvider(r)
    PROVE  IInv'
<1>1. Types /\ RegistryBound /\ Local(r) /\ Listed(r)
    BY DEF IInv
<1>2. Types'
    BY <1>1 DEF Types, Steps, CallProvider, Goto, served, activity, MarkStream
<1>3. RegistryBound'
    BY <1>1, RegistryShrinks DEF CallProvider, Goto, served, activity,
           MarkStream
<1>4. Kept(r)
    BY <1>1 DEF Types, Kept, CallProvider, Goto, served, activity, MarkStream
<1>5. Local(r)'
    BY <1>1 DEF Types, Local, Stage, Streaming, Untouched, WorkerFinds,
           Success, Succeeded, CallProvider, Goto, served, activity, MarkStream
<1>6. Listed(r)'
    BY <1>1 DEF Types, Listed, InFlight, Local, Stage, Streaming, Untouched,
           WorkerFinds, Success, Succeeded, CallProvider, Goto, served,
           activity, MarkStream
<1> QED
    BY <1>2, <1>3, <1>4, <1>5, <1>6, StepKeepsIInv

\* There are no credentials.
LEMMA MissCredentialsKeepsIInv ==
    ASSUME IInv, NEW r \in Requests, MissCredentials(r)
    PROVE  IInv'
<1>1. Types /\ RegistryBound /\ Local(r) /\ Listed(r)
    BY DEF IInv
<1>2. Types'
    BY <1>1 DEF Types, Steps, MissCredentials, Goto, served, activity,
           FinishActivity
<1>3. RegistryBound'
    BY <1>1, RegistryShrinks DEF MissCredentials, Goto, served, activity,
           FinishActivity
<1>4. Kept(r)
    BY <1>1 DEF Types, Kept, MissCredentials, Goto, served, activity,
           FinishActivity
<1>5. Local(r)'
    BY <1>1 DEF Types, Local, Stage, Streaming, Untouched, WorkerFinds,
           Success, Succeeded, MissCredentials, Goto, served, activity,
           FinishActivity
<1>6. Listed(r)'
    BY <1>1 DEF Types, Listed, InFlight, Local, Stage, Streaming, Untouched,
           WorkerFinds, Success, Succeeded, MissCredentials, Goto, served,
           activity, FinishActivity
<1> QED
    BY <1>2, <1>3, <1>4, <1>5, <1>6, StepKeepsIInv

\* The call fails.
LEMMA CallFailsKeepsIInv ==
    ASSUME IInv, NEW r \in Requests, CallFails(r)
    PROVE  IInv'
<1>1. Types /\ RegistryBound /\ Local(r) /\ Listed(r)
    BY DEF IInv
<1>2. /\ outcomes' \in [Requests -> Outcomes] /\ ~Succeeded(r)'
      /\ \A o \in Requests \ {r} : outcomes'[o] = outcomes[o]
    BY <1>1, OutcomeRecorded DEF CallFails, Local, Stage, Untouched
<1>3. Types'
    BY <1>1, <1>2 DEF Types, Steps, CallFails, Goto, served, activity
<1>4. RegistryBound'
    BY <1>1, RegistryShrinks DEF CallFails, Goto, served, activity
<1>5. Kept(r)
    BY <1>1, <1>2 DEF Types, Kept, CallFails, Goto, served, activity
<1>6. Local(r)'
    BY <1>1, <1>2 DEF Types, Local, Stage, Streaming, Untouched, WorkerFinds,
           Success, Succeeded, CallFails, Goto, served, activity
<1>7. Listed(r)'
    BY <1>1, <1>2 DEF Types, Listed, InFlight, Local, Stage, Streaming,
           Untouched, WorkerFinds, Success, Succeeded, CallFails, Goto, served,
           activity
<1> QED
    BY <1>3, <1>4, <1>5, <1>6, <1>7, StepKeepsIInv

\* The answer will be captured.
LEMMA CaptureKeepsIInv ==
    ASSUME IInv, NEW r \in Requests, Capture(r)
    PROVE  IInv'
<1>1. Types /\ RegistryBound /\ Local(r) /\ Listed(r)
    BY DEF IInv
<1>2. Types'
    BY <1>1 DEF Types, Steps, Capture, Goto, served, activity
<1>3. RegistryBound'
    BY <1>1, RegistryShrinks DEF Capture, Goto, served, activity
<1>4. Kept(r)
    BY <1>1 DEF Types, Kept, Capture, Goto, served, activity
<1>5. Local(r)'
    BY <1>1 DEF Types, Local, Stage, Streaming, Untouched, WorkerFinds,
           Success, Succeeded, Capture, Goto, served, activity
<1>6. Listed(r)'
    BY <1>1 DEF Types, Listed, InFlight, Local, Stage, Streaming, Untouched,
           WorkerFinds, Success, Succeeded, Capture, Goto, served, activity
<1> QED
    BY <1>2, <1>3, <1>4, <1>5, <1>6, StepKeepsIInv

\* Or it cannot be.
LEMMA CaptureFailsKeepsIInv ==
    ASSUME IInv, NEW r \in Requests, CaptureFails(r)
    PROVE  IInv'
<1>1. Types /\ RegistryBound /\ Local(r) /\ Listed(r)
    BY DEF IInv
<1>2. sdk' \in [Requests -> SdkState]
    <2>1. CASE streams[r]
        <3>1. CloseSdk(r)
            BY <2>1 DEF CaptureFails
        <3> QED
            BY <1>1, <3>1 DEF Types, SdkState, CloseSdk
    <2>2. CASE ~streams[r]
        BY <1>1, <2>2 DEF Types, CaptureFails
    <2> QED
        BY <2>1, <2>2
<1>3. Types'
    BY <1>1, <1>2 DEF Types, Steps, CaptureFails, Goto, served, activity,
           FinishActivity, CloseSdk
<1>4. RegistryBound'
    BY <1>1, RegistryShrinks DEF CaptureFails, Goto, served, activity,
           FinishActivity, CloseSdk
<1>5. Kept(r)
    BY <1>1, <1>2 DEF Types, Kept, CaptureFails, Goto, served, activity,
           FinishActivity, CloseSdk
<1>6. Local(r)'
    BY <1>1, <1>2 DEF Types, Local, Stage, Streaming, Untouched, WorkerFinds,
           Success, Succeeded, CaptureFails, Goto, served, activity,
           FinishActivity, CloseSdk
<1>7. Listed(r)'
    BY <1>1, <1>2 DEF Types, Listed, InFlight, Local, Stage, Streaming,
           Untouched, WorkerFinds, Success, Succeeded, CaptureFails, Goto,
           served, activity, FinishActivity, CloseSdk
<1> QED
    BY <1>3, <1>4, <1>5, <1>6, <1>7, StepKeepsIInv

\* A request that is not streamed is answered.
LEMMA ReplyKeepsIInv ==
    ASSUME IInv, NEW r \in Requests, Reply(r)
    PROVE  IInv'
<1>1. Types /\ RegistryBound /\ Local(r) /\ Listed(r)
    BY DEF IInv
<1>2. ~streams[r] /\ outcomes[r] = <<>>
    BY <1>1 DEF Reply, Local, Stage, Untouched
<1>3. /\ outcomes' \in [Requests -> Outcomes]
      /\ \A o \in Requests \ {r} : outcomes'[o] = outcomes[o]
    <2>1. CASE RecordOutcome(r, TRUE)
        BY <1>1, <1>2, <2>1, OutcomeRecorded
    <2>2. CASE outcomes' = outcomes
        BY <1>1, <2>2 DEF Types
    <2> QED
        BY <2>1, <2>2 DEF Reply
<1>4. Types'
    BY <1>1, <1>2, <1>3 DEF Types, Steps, Reply, Goto, served, activity,
           FinishActivity
<1>5. RegistryBound'
    BY <1>1, RegistryShrinks DEF Reply, Goto, served, activity, FinishActivity
<1>6. Kept(r)
    BY <1>1, <1>2, <1>3 DEF Types, Kept, Reply, Goto, served, activity,
           FinishActivity
<1>7. Local(r)'
    BY <1>1, <1>2, <1>3 DEF Types, Local, Stage, Streaming, Untouched,
           WorkerFinds, Success, Succeeded, Reply, Goto, served, activity,
           FinishActivity
<1>8. Listed(r)'
    BY <1>1, <1>2, <1>3 DEF Types, Listed, InFlight, Local, Stage, Streaming,
           Untouched, WorkerFinds, Success, Succeeded, Reply, Goto, served,
           activity, FinishActivity
<1> QED
    BY <1>4, <1>5, <1>6, <1>7, <1>8, StepKeepsIInv

\* The response to a stream is built.
LEMMA RespondKeepsIInv ==
    ASSUME IInv, NEW r \in Requests, Respond(r)
    PROVE  IInv'
<1>1. Types /\ RegistryBound /\ Local(r) /\ Listed(r)
    BY DEF IInv
<1>2. Types'
    BY <1>1 DEF Types, Steps, Respond, Goto, served, activity
<1>3. RegistryBound'
    BY <1>1, RegistryShrinks DEF Respond, Goto, served, activity
<1>4. Kept(r)
    BY <1>1 DEF Types, Kept, Respond, Goto, served, activity
<1>5. Local(r)'
    BY <1>1 DEF Types, Local, Stage, Streaming, Untouched, WorkerFinds,
           Success, Succeeded, Respond, Goto, served, activity
<1>6. Listed(r)'
    BY <1>1 DEF Types, Listed, InFlight, Local, Stage, Streaming, Untouched,
           WorkerFinds, Success, Succeeded, Respond, Goto, served, activity
<1> QED
    BY <1>2, <1>3, <1>4, <1>5, <1>6, StepKeepsIInv

\* Or it cannot be.
LEMMA RespondFailsKeepsIInv ==
    ASSUME IInv, NEW r \in Requests, RespondFails(r)
    PROVE  IInv'
<1>1. Types /\ RegistryBound /\ Local(r) /\ Listed(r)
    BY DEF IInv
<1>2. /\ outcomes' \in [Requests -> Outcomes] /\ ~Succeeded(r)'
      /\ \A o \in Requests \ {r} : outcomes'[o] = outcomes[o]
    BY <1>1, OutcomeRecorded DEF RespondFails, Local, Stage, Untouched
<1>3. flags' \in [Requests -> Flags] /\ sdk' \in [Requests -> SdkState]
    BY <1>1 DEF Types, Flags, SdkState, RespondFails, CloseSdk
<1>4. Types'
    BY <1>1, <1>2, <1>3 DEF Types, Steps, RespondFails, Goto, served, activity,
           FinishActivity, CloseSdk
<1>5. RegistryBound'
    BY <1>1, RegistryShrinks DEF RespondFails, Goto, served, activity,
           FinishActivity, CloseSdk
<1>6. Kept(r)
    BY <1>1, <1>2, <1>3 DEF Types, Kept, RespondFails, Goto, served, activity,
           FinishActivity, CloseSdk
<1>7. Local(r)'
    BY <1>1, <1>2, <1>3 DEF Types, Local, Stage, Streaming, Untouched,
           WorkerFinds, Success, Succeeded, RespondFails, Goto, served,
           activity, FinishActivity, CloseSdk
<1>8. Listed(r)'
    BY <1>1, <1>2, <1>3 DEF Types, Listed, InFlight, Local, Stage, Streaming,
           Untouched, WorkerFinds, Success, Succeeded, RespondFails, Goto,
           served, activity, FinishActivity, CloseSdk
<1> QED
    BY <1>4, <1>5, <1>6, <1>7, <1>8, StepKeepsIInv

-----------------------------------------------------------------------------
(* The event loop. *)

\* A worker is asked for the next chunk.
LEMMA AskNextKeepsIInv ==
    ASSUME IInv, NEW r \in Requests, AskNext(r)
    PROVE  IInv'
<1>1. Types /\ RegistryBound /\ Local(r) /\ Listed(r)
    BY DEF IInv
<1>2. Types'
    BY <1>1 DEF Types, Steps, AskNext, Goto, served, activity
<1>3. RegistryBound'
    BY <1>1, RegistryShrinks DEF AskNext, Goto, served, activity
<1>4. Kept(r)
    BY <1>1 DEF Types, Kept, AskNext, Goto, served, activity
<1>5. Local(r)'
    BY <1>1 DEF Types, Local, Stage, Streaming, Untouched, WorkerFinds,
           Success, Succeeded, AskNext, Goto, served, activity
<1>6. Listed(r)'
    BY <1>1 DEF Types, Listed, InFlight, Local, Stage, Streaming, Untouched,
           WorkerFinds, Success, Succeeded, AskNext, Goto, served, activity
<1> QED
    BY <1>2, <1>3, <1>4, <1>5, <1>6, StepKeepsIInv

\* A frame is delivered.
LEMMA SendKeepsIInv ==
    ASSUME IInv, NEW r \in Requests, Send(r)
    PROVE  IInv'
<1>1. Types /\ RegistryBound /\ Local(r) /\ Listed(r)
    BY DEF IInv
<1>2. /\ flags' \in [Requests -> Flags]
      /\ \A o \in Requests \ {r} : flags'[o] = flags[o]
      /\ flags'[r].completed = flags[r].completed
      /\ loop[r] = "end" => flags'[r].interrupted /\ flags'[r].terminal
      /\ loop[r] # "end" => flags'[r] = flags[r]
    <2>1. CASE loop[r] = "chunk"
        BY <1>1, <2>1 DEF Types, Send
    <2>2. CASE loop[r] = "end"
        <3> DEFINE q(returned) == [flags[r] EXCEPT !.interrupted = TRUE,
                                                   !.delivered = returned,
                                                   !.terminal = TRUE]
        <3>1. PICK returned \in BOOLEAN :
                 flags' = [flags EXCEPT ![r] = q(returned)]
            BY <2>2 DEF Send
        <3>2. /\ q(returned) \in Flags
              /\ q(returned).interrupted /\ q(returned).terminal
              /\ q(returned).completed = flags[r].completed
            BY <1>1 DEF Types, Flags
        <3> HIDE DEF q
        <3> QED
            BY <1>1, <2>2, <3>1, <3>2 DEF Types
    <2> QED
        BY <2>1, <2>2 DEF Send
<1>3. \/ loop[r] = "chunk" /\ UNCHANGED pc
      \/ loop[r] = "end" /\ pc' = [pc EXCEPT ![r] = "closing"]
    BY DEF Send, Goto
<1>4. Types'
    BY <1>1, <1>2, <1>3 DEF Types, Steps, Send, Goto, served, activity
<1>5. RegistryBound'
    BY <1>1, RegistryShrinks DEF Send, Goto, served, activity
<1>6. Kept(r)
    BY <1>1, <1>2, <1>3 DEF Types, Kept, Send, Goto, served, activity
<1>7. Local(r)'
    BY <1>1, <1>2, <1>3 DEF Types, Local, Stage, Streaming, Untouched,
           WorkerFinds, Success, Succeeded, Send, Goto, served, activity
<1>8. Listed(r)'
    BY <1>1, <1>2, <1>3 DEF Types, Listed, InFlight, Local, Stage, Streaming,
           Untouched, WorkerFinds, Success, Succeeded, Send, Goto, served,
           activity
<1> QED
    BY <1>4, <1>5, <1>6, <1>7, <1>8, StepKeepsIInv

\* The response stops early.
LEMMA StopKeepsIInv ==
    ASSUME IInv, NEW r \in Requests, Stop(r)
    PROVE  IInv'
<1>1. Types /\ RegistryBound /\ Local(r) /\ Listed(r)
    BY DEF IInv
<1>2. /\ flags' \in [Requests -> Flags]
      /\ \A o \in Requests \ {r} : flags'[o] = flags[o]
      /\ flags'[r].completed = flags[r].completed
      /\ flags'[r].interrupted /\ flags'[r].terminal = flags[r].terminal
    <2> DEFINE q(returned) == [flags[r] EXCEPT !.interrupted = TRUE,
                                               !.delivered = returned]
    <2>1. PICK returned \in BOOLEAN :
             flags' = [flags EXCEPT ![r] = q(returned)]
        BY DEF Stop
    <2>2. /\ q(returned) \in Flags /\ q(returned).interrupted
          /\ q(returned).terminal = flags[r].terminal
          /\ q(returned).completed = flags[r].completed
        BY <1>1 DEF Types, Flags
    <2> HIDE DEF q
    <2> QED
        BY <1>1, <2>1, <2>2 DEF Types
<1>3. Types'
    BY <1>1, <1>2 DEF Types, Steps, Stop, Goto, served, activity
<1>4. RegistryBound'
    BY <1>1, RegistryShrinks DEF Stop, Goto, served, activity
<1>5. Kept(r)
    BY <1>1, <1>2 DEF Types, Kept, Stop, Goto, served, activity
<1>6. Local(r)'
    BY <1>1, <1>2 DEF Types, Local, Stage, Streaming, Untouched, WorkerFinds,
           Success, Succeeded, Stop, Goto, served, activity
<1>7. Listed(r)'
    BY <1>1, <1>2 DEF Types, Listed, InFlight, Local, Stage, Streaming,
           Untouched, WorkerFinds, Success, Succeeded, Stop, Goto, served,
           activity
<1> QED
    BY <1>3, <1>4, <1>5, <1>6, <1>7, StepKeepsIInv

\* The generator is closed.
LEMMA CloseBodyKeepsIInv ==
    ASSUME IInv, NEW r \in Requests, CloseBody(r)
    PROVE  IInv'
<1>1. Types /\ RegistryBound /\ Local(r) /\ Listed(r)
    BY DEF IInv
<1>2. RecordStreamOutcome(r, FALSE) \/ outcomes' = outcomes
    BY DEF CloseBody, EndIncomplete
<1>3. /\ outcomes' \in [Requests -> Outcomes]
      /\ \A o \in Requests \ {r} : outcomes'[o] = outcomes[o]
      /\ Succeeded(r)' => Succeeded(r)
    BY <1>1, <1>2, FailureRecorded
<1>4. Types'
    BY <1>1, <1>2, <1>3 DEF Types, Steps, CloseBody, Goto, served, activity,
           FinishActivity, EndIncomplete
<1>5. RegistryBound'
    BY <1>1, RegistryShrinks DEF CloseBody, Goto, served, activity,
           FinishActivity, EndIncomplete
<1>6. Kept(r)
    BY <1>1, <1>2, <1>3 DEF Types, Kept, CloseBody, Goto, served, activity,
           FinishActivity, EndIncomplete
<1>7. Local(r)'
    BY <1>1, <1>2, <1>3 DEF Types, Local, Stage, Streaming, Untouched,
           WorkerFinds, Success, Succeeded, CloseBody, Goto, served, activity,
           FinishActivity, EndIncomplete
<1>8. Listed(r)'
    BY <1>1, <1>2, <1>3 DEF Types, Listed, InFlight, Local, Stage, Streaming,
           Untouched, WorkerFinds, Success, Succeeded, CloseBody, Goto, served,
           activity, FinishActivity, EndIncomplete
<1> QED
    BY <1>4, <1>5, <1>6, <1>7, <1>8, StepKeepsIInv

\* The provider's stream is closed.
LEMMA CloseStreamKeepsIInv ==
    ASSUME IInv, NEW r \in Requests, CloseStream(r)
    PROVE  IInv'
<1>1. Types /\ RegistryBound /\ Local(r) /\ Listed(r)
    BY DEF IInv
<1>2. Types'
    BY <1>1 DEF Types, Steps, CloseStream, Goto, served, activity, CloseSdk,
           SdkState
<1>3. RegistryBound'
    BY <1>1, RegistryShrinks DEF CloseStream, Goto, served, activity, CloseSdk,
           SdkState
<1>4. Kept(r)
    BY <1>1 DEF Types, Kept, CloseStream, Goto, served, activity, CloseSdk,
           SdkState
<1>5. Local(r)'
    BY <1>1 DEF Types, Local, Stage, Streaming, Untouched, WorkerFinds,
           Success, Succeeded, CloseStream, Goto, served, activity, CloseSdk,
           SdkState
<1>6. Listed(r)'
    BY <1>1 DEF Types, Listed, InFlight, Local, Stage, Streaming, Untouched,
           WorkerFinds, Success, Succeeded, CloseStream, Goto, served,
           activity, CloseSdk, SdkState
<1> QED
    BY <1>2, <1>3, <1>4, <1>5, <1>6, StepKeepsIInv

\* The activity is finished.
LEMMA FinishKeepsIInv ==
    ASSUME IInv, NEW r \in Requests, Finish(r)
    PROVE  IInv'
<1>1. Types /\ RegistryBound /\ Local(r) /\ Listed(r)
    BY DEF IInv
<1>2. Types'
    BY <1>1 DEF Types, Steps, Finish, Goto, served, activity, FinishActivity
<1>3. RegistryBound'
    BY <1>1, RegistryShrinks DEF Finish, Goto, served, activity, FinishActivity
<1>4. Kept(r)
    BY <1>1 DEF Types, Kept, Finish, Goto, served, activity, FinishActivity
<1>5. Local(r)'
    BY <1>1 DEF Types, Local, Stage, Streaming, Untouched, WorkerFinds,
           Success, Succeeded, Finish, Goto, served, activity, FinishActivity
<1>6. Listed(r)'
    BY <1>1 DEF Types, Listed, InFlight, Local, Stage, Streaming, Untouched,
           WorkerFinds, Success, Succeeded, Finish, Goto, served, activity,
           FinishActivity
<1> QED
    BY <1>2, <1>3, <1>4, <1>5, <1>6, StepKeepsIInv

\* The outcome of the stream is settled.
LEMMA SettleKeepsIInv ==
    ASSUME IInv, NEW r \in Requests, Settle(r)
    PROVE  IInv'
<1>1. Types /\ RegistryBound /\ Local(r) /\ Listed(r)
    BY DEF IInv
<1>2. /\ outcomes' \in [Requests -> Outcomes]
      /\ Succeeded(r)' => /\ flags[r].delivered /\ flags[r].terminal
                         /\ flags[r].completed
      /\ \A o \in Requests \ {r} : outcomes'[o] = outcomes[o]
    BY <1>1, OutcomeRecorded DEF Settle, Local, Success, Types, Flags
<1>3. Types'
    BY <1>1, <1>2 DEF Types, Steps, Settle, Goto, served, activity
<1>4. RegistryBound'
    BY <1>1, RegistryShrinks DEF Settle, Goto, served, activity
<1>5. Kept(r)
    BY <1>1, <1>2 DEF Types, Kept, Settle, Goto, served, activity
<1>6. Local(r)'
    BY <1>1, <1>2 DEF Types, Local, Stage, Streaming, Untouched, WorkerFinds,
           Success, Succeeded, Flags, Settle, Goto, served, activity
<1>7. Listed(r)'
    BY <1>1, <1>2 DEF Types, Listed, InFlight, Local, Stage, Streaming,
           Untouched, WorkerFinds, Success, Succeeded, Settle, Goto, served,
           activity
<1> QED
    BY <1>3, <1>4, <1>5, <1>6, <1>7, StepKeepsIInv

-----------------------------------------------------------------------------
(* The worker thread. *)

\* The worker has the lock.
LEMMA StartNextKeepsIInv ==
    ASSUME IInv, NEW r \in Requests, StartNext(r)
    PROVE  IInv'
<1>1. Types /\ RegistryBound /\ Local(r) /\ Listed(r)
    BY DEF IInv
<1>2. Types'
    BY <1>1 DEF Types, Steps, StartNext, Goto, served, activity, Return
<1>3. RegistryBound'
    BY <1>1, RegistryShrinks DEF StartNext, Goto, served, activity, Return
<1>4. Kept(r)
    BY <1>1 DEF Types, Kept, StartNext, Goto, served, activity, Return
<1>5. Local(r)'
    BY <1>1 DEF Types, Local, Stage, Streaming, Untouched, WorkerFinds,
           Success, Succeeded, StartNext, Goto, served, activity, Return
<1>6. Listed(r)'
    BY <1>1 DEF Types, Listed, InFlight, Local, Stage, Streaming, Untouched,
           WorkerFinds, Success, Succeeded, StartNext, Goto, served, activity,
           Return
<1> QED
    BY <1>2, <1>3, <1>4, <1>5, <1>6, StepKeepsIInv

\* It reads a chunk.
LEMMA ReadChunkKeepsIInv ==
    ASSUME IInv, NEW r \in Requests, ReadChunk(r)
    PROVE  IInv'
<1>1. Types /\ RegistryBound /\ Local(r) /\ Listed(r)
    BY DEF IInv
<1>2. /\ sdk' \in [Requests -> SdkState]
      /\ \A o \in Requests \ {r} : sdk'[o] = sdk[o]
      /\ sdk'[r].closed = sdk[r].closed
      /\ sdk'[r].exhausted = sdk[r].exhausted
      /\ sdk[r].reason => sdk'[r].reason
    <2> DEFINE n == sdk[r].chunks + 1
               reason(final) == sdk[r].reason \/ final
               q(final) == [sdk[r] EXCEPT !.chunks = n, !.reason = reason(final)]
    <2>1. PICK final \in BOOLEAN : sdk' = [sdk EXCEPT ![r] = q(final)]
        BY DEF ReadChunk
    <2>2. sdk[r] \in SdkState /\ n \in 0..MaxChunks
        BY <1>1, ConstantsAssumption DEF Types, SdkState, ReadChunk
    <2>3. reason(final) \in BOOLEAN /\ (sdk[r].reason => reason(final))
        OBVIOUS
    <2> HIDE DEF n, reason
    <2>4. /\ q(final) \in SdkState /\ q(final).closed = sdk[r].closed
          /\ q(final).exhausted = sdk[r].exhausted
          /\ sdk[r].reason => q(final).reason
        BY <2>2, <2>3 DEF SdkState
    <2> HIDE DEF q
    <2> QED
        BY <1>1, <2>1, <2>4 DEF Types
<1>3. Types'
    BY <1>1, <1>2 DEF Types, Steps, ReadChunk, Goto, served, activity, Return
<1>4. RegistryBound'
    BY <1>1, RegistryShrinks DEF ReadChunk, Goto, served, activity, Return
<1>5. Kept(r)
    BY <1>1, <1>2 DEF Types, Kept, ReadChunk, Goto, served, activity, Return
<1>6. Local(r)'
    BY <1>1, <1>2 DEF Types, Local, Stage, Streaming, Untouched, WorkerFinds,
           Success, Succeeded, ReadChunk, Goto, served, activity, Return
<1>7. Listed(r)'
    BY <1>1, <1>2 DEF Types, Listed, InFlight, Local, Stage, Streaming,
           Untouched, WorkerFinds, Success, Succeeded, ReadChunk, Goto, served,
           activity, Return
<1> QED
    BY <1>3, <1>4, <1>5, <1>6, <1>7, StepKeepsIInv

\* There are no more.
LEMMA ReadEndKeepsIInv ==
    ASSUME IInv, NEW r \in Requests, ReadEnd(r)
    PROVE  IInv'
<1>1. Types /\ RegistryBound /\ Local(r) /\ Listed(r)
    BY DEF IInv
<1>2. Types'
    BY <1>1 DEF Types, Steps, ReadEnd, Goto, served, activity, Return, SdkState
<1>3. RegistryBound'
    BY <1>1, RegistryShrinks DEF ReadEnd, Goto, served, activity, Return,
           SdkState
<1>4. Kept(r)
    BY <1>1 DEF Types, Kept, ReadEnd, Goto, served, activity, Return, SdkState
<1>5. Local(r)'
    BY <1>1 DEF Types, Local, Stage, Streaming, Untouched, WorkerFinds,
           Success, Succeeded, ReadEnd, Goto, served, activity, Return,
           SdkState
<1>6. Listed(r)'
    BY <1>1 DEF Types, Listed, InFlight, Local, Stage, Streaming, Untouched,
           WorkerFinds, Success, Succeeded, ReadEnd, Goto, served, activity,
           Return, SdkState
<1> QED
    BY <1>2, <1>3, <1>4, <1>5, <1>6, StepKeepsIInv

\* The provider's stream raises.
LEMMA ReadFailsKeepsIInv ==
    ASSUME IInv, NEW r \in Requests, ReadFails(r)
    PROVE  IInv'
<1>1. Types /\ RegistryBound /\ Local(r) /\ Listed(r)
    BY DEF IInv
<1>2. RecordStreamOutcome(r, FALSE) \/ outcomes' = outcomes
    BY DEF ReadFails, EndIncomplete
<1>3. /\ outcomes' \in [Requests -> Outcomes]
      /\ \A o \in Requests \ {r} : outcomes'[o] = outcomes[o]
      /\ Succeeded(r)' => Succeeded(r)
    BY <1>1, <1>2, FailureRecorded
<1>4. Types'
    BY <1>1, <1>2, <1>3 DEF Types, Steps, ReadFails, Goto, served, activity,
           FinishActivity, EndIncomplete, Return
<1>5. RegistryBound'
    BY <1>1, RegistryShrinks DEF ReadFails, Goto, served, activity,
           FinishActivity, EndIncomplete, Return
<1>6. Kept(r)
    BY <1>1, <1>2, <1>3 DEF Types, Kept, ReadFails, Goto, served, activity,
           FinishActivity, EndIncomplete, Return
<1>7. Local(r)'
    BY <1>1, <1>2, <1>3 DEF Types, Local, Stage, Streaming, Untouched,
           WorkerFinds, Success, Succeeded, ReadFails, Goto, served, activity,
           FinishActivity, EndIncomplete, Return
<1>8. Listed(r)'
    BY <1>1, <1>2, <1>3 DEF Types, Listed, InFlight, Local, Stage, Streaming,
           Untouched, WorkerFinds, Success, Succeeded, ReadFails, Goto, served,
           activity, FinishActivity, EndIncomplete, Return
<1> QED
    BY <1>4, <1>5, <1>6, <1>7, <1>8, StepKeepsIInv

\* The generator ends.
LEMMA EndOfBodyKeepsIInv ==
    ASSUME IInv, NEW r \in Requests, EndOfBody(r)
    PROVE  IInv'
<1>1. Types /\ RegistryBound /\ Local(r) /\ Listed(r)
    BY DEF IInv
<1>2. RecordStreamOutcome(r, FALSE) \/ outcomes' = outcomes
    BY DEF EndOfBody, EndIncomplete
<1>3. /\ outcomes' \in [Requests -> Outcomes]
      /\ \A o \in Requests \ {r} : outcomes'[o] = outcomes[o]
      /\ Succeeded(r)' => Succeeded(r)
    BY <1>1, <1>2, FailureRecorded
<1>4. flags' \in [Requests -> Flags]
    BY <1>1 DEF Types, Flags, SdkState, EndOfBody
<1>5. Types'
    BY <1>1, <1>2, <1>3, <1>4 DEF Types, Steps, EndOfBody, Goto, served,
           activity, FinishActivity, EndIncomplete, Return
<1>6. RegistryBound'
    BY <1>1, RegistryShrinks DEF EndOfBody, Goto, served, activity,
           FinishActivity, EndIncomplete, Return
<1>7. Kept(r)
    BY <1>1, <1>2, <1>3, <1>4 DEF Types, Kept, EndOfBody, Goto, served,
           activity, FinishActivity, EndIncomplete, Return
<1>8. Local(r)'
    BY <1>1, <1>2, <1>3, <1>4 DEF Types, Local, Stage, Streaming, Untouched,
           WorkerFinds, Success, Succeeded, Flags, EndOfBody, Goto, served,
           activity, FinishActivity, EndIncomplete, Return
<1>9. Listed(r)'
    BY <1>1, <1>2, <1>3, <1>4 DEF Types, Listed, InFlight, Local, Stage,
           Streaming, Untouched, WorkerFinds, Success, Succeeded, EndOfBody,
           Goto, served, activity, FinishActivity, EndIncomplete, Return
<1> QED
    BY <1>5, <1>6, <1>7, <1>8, <1>9, StepKeepsIInv

-----------------------------------------------------------------------------
(* The theorems. *)

LEMMA InitIInv == ASSUME Init PROVE IInv
<1>1. <<>> \in Outcomes
    BY DEF Outcomes
<1>2. Types
    BY <1>1, ConstantsAssumption DEF Init, Types, Steps, SdkState, Flags
<1>3. RegistryBound
    BY FS_EmptySet, ConstantsAssumption DEF Init, RegistryBound
<1>4. ASSUME NEW r \in Requests
      PROVE  Local(r) /\ Listed(r)
    BY <1>4 DEF Init, Local, Stage, Streaming, Untouched, WorkerFinds, Success,
                Succeeded, Listed, InFlight
<1> QED
    BY <1>2, <1>3, <1>4 DEF IInv

LEMMA StutterKeepsIInv == ASSUME IInv, UNCHANGED vars PROVE IInv'
<1>1. Types' /\ RegistryBound'
    BY DEF IInv, Types, RegistryBound, vars, served, activity
<1>2. ASSUME NEW r \in Requests
      PROVE  Local(r)' /\ Listed(r)'
    BY <1>2 DEF IInv, Local, Stage, Untouched, WorkerFinds, Success, Succeeded,
                Listed, InFlight, vars, served, activity
<1> QED
    BY <1>1, <1>2 DEF IInv

LEMMA Invariance == Spec => []IInv
<1>1. Init => IInv
    BY InitIInv
<1>2. IInv /\ [Next]_vars => IInv'
    <2> SUFFICES ASSUME IInv, [Next]_vars
                 PROVE  IInv'
        OBVIOUS
    <2>1. ASSUME NEW r \in Requests, RouteStep(r)
          PROVE  IInv'
        BY <2>1, BeginKeepsIInv, CallProviderKeepsIInv, MissCredentialsKeepsIInv,
           CallFailsKeepsIInv, CaptureKeepsIInv, CaptureFailsKeepsIInv,
           ReplyKeepsIInv, RespondKeepsIInv, RespondFailsKeepsIInv
           DEF RouteStep
    <2>2. ASSUME NEW r \in Requests, LoopStep(r) \/ Stop(r)
          PROVE  IInv'
        BY <2>2, AskNextKeepsIInv, SendKeepsIInv, StopKeepsIInv,
           CloseBodyKeepsIInv, CloseStreamKeepsIInv, FinishKeepsIInv,
           SettleKeepsIInv
           DEF LoopStep
    <2>3. ASSUME NEW r \in Requests, WorkerStep(r)
          PROVE  IInv'
        BY <2>3, StartNextKeepsIInv, ReadChunkKeepsIInv, ReadEndKeepsIInv,
           ReadFailsKeepsIInv, EndOfBodyKeepsIInv
           DEF WorkerStep
    <2> QED
        BY <2>1, <2>2, <2>3, StutterKeepsIInv DEF Next
<1> QED
    BY <1>1, <1>2, PTL DEF Spec

\* The state is what TypeOK says, and the registry never exceeds its limit.
THEOREM TypeCorrect == Spec => []TypeOK
<1>1. IInv => TypeOK
    <2> SUFFICES ASSUME IInv
                 PROVE  TypeOK
        OBVIOUS
    <2>1. Types /\ RegistryBound /\ \A r \in Requests : Listed(r)
        BY DEF IInv
    <2>2. registry \subseteq {r \in Requests : tracked[r]}
        BY <2>1 DEF Types, Listed
    <2>3. outcomes \in [Requests -> Seq(BOOLEAN)]
        BY <2>1 DEF Types, Outcomes
    <2> QED
        BY <2>1, <2>2, <2>3
           DEF TypeOK, Types, RegistryBound, SdkState, Flags
<1> QED
    BY <1>1, Invariance, PTL

\* Whichever of the worker, the close of the generator and the end of the
\* response gets to it first, an attempt has at most one outcome.
THEOREM AttemptsSettleOnce == Spec => []OneOutcome
<1>1. IInv => OneOutcome
    BY DEF IInv, Types, Outcomes, OneOutcome
<1> QED
    BY <1>1, Invariance, PTL

\* The event loop never closes the provider's stream under a worker that is
\* still in next().
THEOREM WorkersKeepTheirStream == Spec => []ClosedAfterRead
<1>1. IInv => ClosedAfterRead
    BY DEF IInv, Local, Stage, WorkerFinds, ClosedAfterRead
<1> QED
    BY <1>1, Invariance, PTL

\* A recorded success, and a continuation that is kept, rest on a stream that
\* the provider finished and a last frame that was delivered.
THEOREM SuccessesAreDelivered == Spec => []SuccessIsDelivered
<1>1. IInv => SuccessIsDelivered
    <2> SUFFICES ASSUME IInv, NEW r \in Requests, streams[r],
                        captured[r] \/ TRUE \in {outcomes[r][i] :
                                                   i \in DOMAIN outcomes[r]}
                 PROVE  sdk[r].exhausted /\ sdk[r].reason /\ flags[r].terminal
        BY DEF SuccessIsDelivered
    <2>1. outcomes[r] \in Outcomes /\ Success(r)
        BY DEF IInv, Types, Local
    <2>2. CASE captured[r]
        BY <2>1, <2>2 DEF Success
    <2>3. CASE TRUE \in {outcomes[r][i] : i \in DOMAIN outcomes[r]}
        <3>1. PICK i \in DOMAIN outcomes[r] : outcomes[r][i] = TRUE
            BY <2>3
        <3>2. DOMAIN outcomes[r] = 1..Len(outcomes[r])
            BY <2>1 DEF Outcomes
        <3>3. i = 1 /\ outcomes[r] # <<>>
            BY <2>1, <3>1, <3>2 DEF Outcomes
        <3>4. outcomes[r][1]
            BY <3>1, <3>3
        <3> QED
            BY <2>1, <3>3, <3>4 DEF Success, Succeeded
    <2> QED
        BY <2>2, <2>3
<1> QED
    BY <1>1, Invariance, PTL

\* A registry that claims to be complete lists exactly what is under way.
THEOREM RegistryTellsTheTruth == Spec => []RegistryIsTrue
<1>1. IInv => RegistryIsTrue
    BY DEF IInv, Listed, RegistryIsTrue
<1> QED
    BY <1>1, Invariance, PTL

=============================================================================
