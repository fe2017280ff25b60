------------------------ MODULE SharedTensorEnvironment ------------------------
(***************************************************************************)
(* One environment of a batch that negotiated shared memory: its worker    *)
(* with GPU sensors (HeadlessGpuSensorManager.js, SensorPublisher.js), the *)
(* supervisor's handlers that publish what the sensors capture and what a  *)
(* response carries (HeadlessSupervisor.js, SharedTensorTransport.js), the *)
(* environment's arena, and the client that reads the references           *)
(* (python/src/cev_sim/tensors.py).                                        *)
(*                                                                         *)
(* A capture is one raw product, transient, and one observation, retained  *)
(* until the frame that carried it is replaced.  Which sensors are due,    *)
(* and when a frame is delivered, is left open: the configured rates and   *)
(* latencies allow any of it.                                              *)
(***************************************************************************)
EXTENDS SharedTensorArena, FiniteSets, SequencesExt

CONSTANTS
    Sensor,        \* the sensors, numbered in the order of their ids
    RawLen,        \* the units of a sensor's raw product
    ObsLen,        \* the units of its observation
    Call,          \* the resets and steps a client may have in flight
    MaxQueueFrames,
    MaxCalls,      \* bound: calls made
    MaxCaptures,   \* bound: capture groups
    MaxRestarts,   \* restartBudget
    None

Incarnation == 0..MaxRestarts
Handler == Incarnation \X Sensor
Sequence == Nat
Ref == [off: Unit, len: Nat \ {0}, gen: Sequence, content: Content]

\* Every publication has a content of its own, its number.
ASSUME EnvironmentAssumption ==
    /\ IsFiniteSet(Sensor) /\ Sensor # {} /\ Sensor = 1..Cardinality(Sensor)
    /\ {RawLen, ObsLen} \subseteq [Sensor -> Nat \ {0}]
    /\ {MaxQueueFrames, MaxCalls, MaxCaptures, MaxRestarts} \subseteq Nat
    /\ Handler \cup Call \subseteq Caller /\ Handler \cap Call = {}
    /\ Content = Nat
    /\ None \notin Call \cup Ref

VARIABLES
    transportSequence, \* environment.transportSequence
    published,     \* ghost: publications asked for, which names their content
    captures,      \* capture groups asked for
    incarnation,   \* which of the environment's workers is the current one
    alive,         \* it has been prepared and not terminated
    recovering,    \* recoveryPromise
    requiresReset, \* requiresReset
    busy,          \* the call the worker is executing
    handler,       \* the capture-group handlers, by worker and sensor
    queue,         \* SensorPublisher.queue
    latest,        \* latestObservation
    call,          \* what the supervisor is doing for each call
    calls,         \* calls made
    response,      \* the references of the last successful response
    newest,        \* TensorMapCodec._shared_sequences, for this arena
    refused,       \* the references decode has refused as stale
    outlived,      \* ghost: references of responses a recovery has overtaken
    late,          \* ghost: a handler has gone on after its worker had gone
    read,          \* a read in progress
    misread        \* ghost: references read as something else than was published

workerVars == <<incarnation, alive, busy, queue, latest>>
clientVars == <<response, newest, refused, outlived>>
readVars == <<read, misread>>
vars == <<arenaVars, transportSequence, published, captures, workerVars, recovering,
          requiresReset, handler, late, call, calls, clientVars, readVars>>

NoRefs == [s \in Sensor |-> None]
Resting == [stage |-> "idle", seq |-> 0, raw |-> None, obs |-> None]
NoCall == [stage |-> "idle", seq |-> 0, refs |-> NoRefs]

Release(ref) == [op |-> "release", off |-> ref.off]
\* The release-shared requests for the references in f at S, in order.
ReleaseAll(f, S) ==
    FlattenSeq([s \in Sensor |-> IF s \in S /\ f[s] # None THEN <<Release(f[s])>> ELSE <<>>])

Publish(who, n, seq, keep, c) ==
    [op |-> "publish", by |-> who, len |-> n, gen |-> seq, retained |-> keep, content |-> c]

Mine == {s \in Sensor : handler[<<incarnation, s>>].stage # "idle"}
Quiet == Mine = {}

(* The client's calls *)

\* A reset or a step reaches the worker.  resetRun releases every frame the
\* sensors hold, queued or delivered.
StartCall(c, reset) ==
    /\ call[c].stage = "idle" /\ busy = None
    /\ alive /\ ~recovering /\ ~closed
    /\ requiresReset => reset
    /\ calls < MaxCalls
    /\ calls' = calls + 1
    /\ call' = [call EXCEPT ![c].stage = "working"]
    /\ busy' = c
    /\ IF reset
         THEN /\ Submit(ReleaseAll(latest, Sensor)
                          \o FlattenSeq([s \in Sensor |-> [i \in DOMAIN queue[s] |-> Release(queue[s][i])]]))
              /\ queue' = [s \in Sensor |-> <<>>]
              /\ latest' = NoRefs
         ELSE UNCHANGED <<arenaVars, queue, latest>>
    /\ UNCHANGED <<transportSequence, published, captures, incarnation, alive, recovering,
                   requiresReset, handler, clientVars, late, readVars>>

\* updateAsync: the sensors due are captured together, each by its own route.
CaptureGroup(S) ==
    /\ busy # None /\ alive /\ Quiet
    /\ captures < MaxCaptures
    /\ captures' = captures + 1
    /\ handler' = [h \in Handler |-> IF h[1] = incarnation /\ h[2] \in S
                                       THEN [Resting EXCEPT !.stage = "gpu"] ELSE handler[h]]
    /\ UNCHANGED <<arenaVars, transportSequence, published, workerVars, recovering,
                   requiresReset, call, calls, clientVars, late, readVars>>

\* The GPU has answered: the handler reads transportSequence and publishes the
\* raw product.  Its worker may have been replaced meanwhile.
Rendered(h) ==
    /\ handler[h].stage = "gpu"
    /\ handler' = [handler EXCEPT ![h].stage = "raw", ![h].seq = transportSequence + 1]
    /\ published' = published + 1
    /\ Submit(<<Publish(h, RawLen[h[2]], transportSequence + 1, FALSE, published')>>)
    /\ UNCHANGED <<transportSequence, captures, workerVars, recovering, requiresReset, call,
                   calls, clientVars, late, readVars>>

RawPublished(h) ==
    LET r == Head(tail) IN
    /\ handler[h].stage = "raw" /\ Running("publish") /\ r.by = h
    /\ published' = published + 1
    /\ WriteHeader(<<Publish(h, ObsLen[h[2]], handler[h].seq, TRUE, published')>>)
    /\ handler' = [handler EXCEPT ![h].stage = "obs", ![h].raw = ReferenceTo(r, placed)]
    /\ UNCHANGED <<transportSequence, captures, workerVars, recovering, requiresReset, call,
                   calls, clientVars, late, readVars>>

\* The last product: the sequence is taken, and the worker is answered.
ObservationPublished(h) ==
    LET r == Head(tail) IN
    /\ handler[h].stage = "obs" /\ Running("publish") /\ r.by = h
    /\ WriteHeader(<<>>)
    /\ handler' = [handler EXCEPT ![h] =
         IF h[1] = incarnation /\ alive
           THEN [@ EXCEPT !.stage = "done", !.obs = ReferenceTo(r, placed)]
           ELSE Resting]
    /\ transportSequence' = handler[h].seq
    /\ UNCHANGED <<published, captures, workerVars, recovering, requiresReset, call,
                   calls, clientVars, late, readVars>>

\* allocateCaptureProducts releases what it had published.
CaptureFails(h) ==
    /\ handler[h].stage \in {"raw", "obs"} /\ Running("publish") /\ Head(tail).by = h
    /\ PublishFails(IF handler[h].raw = None THEN <<>> ELSE <<Release(handler[h].raw)>>)
    /\ handler' = [handler EXCEPT ![h] =
         IF h[1] = incarnation /\ alive THEN [Resting EXCEPT !.stage = "failed"] ELSE Resting]
    /\ UNCHANGED <<transportSequence, published, captures, workerVars, recovering,
                   requiresReset, call, calls, clientVars, late, readVars>>

ProcessGroupM ==
    LET of(s) == handler[<<incarnation, s>>]
        raws == [s \in Sensor |-> of(s).raw]
    IN
    /\ busy # None /\ alive /\ ~Quiet
    /\ \A s \in Mine : of(s).stage = "done"
    /\ Submit(ReleaseAll(raws, Mine))
    /\ queue' = [s \in Sensor |-> IF s \in Mine THEN Append(queue[s], of(s).obs)
                                  ELSE queue[s]]
    /\ handler' = [h \in Handler |-> IF h[1] = incarnation THEN Resting ELSE handler[h]]
    /\ UNCHANGED <<transportSequence, published, captures, incarnation, alive, busy, latest,
                   recovering, requiresReset, call, calls, clientVars, late, readVars>>

\* The rest of updateAsync, once every route has answered: the raw products are
\* read and released and the frames queued, none if one queue is full.
ProcessGroup ==
    LET of(s) == handler[<<incarnation, s>>]
        raws == [s \in Sensor |-> of(s).raw]
        full == \E s \in Mine : Len(queue[s]) >= MaxQueueFrames
    IN
    /\ busy # None /\ alive /\ ~Quiet
    /\ \A s \in Mine : of(s).stage = "done"
    /\ Submit(ReleaseAll(raws, Mine)
                \o IF full THEN ReleaseAll([s \in Sensor |-> of(s).obs], Mine) ELSE <<>>)
    /\ queue' = [s \in Sensor |-> IF s \in Mine /\ ~full THEN Append(queue[s], of(s).obs)
                                  ELSE queue[s]]
    /\ handler' = [h \in Handler |-> IF h[1] = incarnation THEN Resting ELSE handler[h]]
    /\ UNCHANGED <<transportSequence, published, captures, incarnation, alive, busy, latest,
                   recovering, requiresReset, call, calls, clientVars, late, readVars>>

DeliverM(s) ==
    /\ busy # None /\ alive /\ Quiet
    /\ queue[s] # <<>>
    /\ latest' = [latest EXCEPT ![s] = Head(queue[s])]
    /\ Submit(ReleaseAll(latest', {s}))
    /\ queue' = [queue EXCEPT ![s] = Tail(queue[s])]
    /\ UNCHANGED <<transportSequence, published, captures, incarnation, alive, busy,
                   recovering, requiresReset, handler, call, calls, clientVars, late, readVars>>

\* deliver, onDeliveredObservation: the frame replaces the latest one.
Deliver(s) ==
    /\ busy # None /\ alive /\ Quiet
    /\ queue[s] # <<>>
    /\ Submit(ReleaseAll(latest, {s}))
    /\ latest' = [latest EXCEPT ![s] = Head(queue[s])]
    /\ queue' = [queue EXCEPT ![s] = Tail(queue[s])]
    /\ UNCHANGED <<transportSequence, published, captures, incarnation, alive, busy,
                   recovering, requiresReset, handler, call, calls, clientVars, late, readVars>>

(* The response: _externalizeObservation *)

\* The python client decodes the references of a response in the order of the
\* sensors, and refuses one whose sequence is below the last it accepted.
Newest(refs, s) ==
    Max({newest} \cup {refs[t].gen : t \in 1..s})
Decode(refs) ==
    LET stale == {s \in Sensor : refs[s].gen < Newest(refs, s - 1)} IN
    /\ refused' = refused \cup {refs[s] : s \in stale}
    /\ newest' = IF stale = {} THEN Newest(refs, Cardinality(Sensor))
                 ELSE Newest(refs, Min(stale) - 1)

\* The call succeeds with these references.
Respond(c, seq, refs) ==
    /\ transportSequence' = seq
    /\ call' = [call EXCEPT ![c] = NoCall]
    /\ response' = refs
    /\ Decode(refs)
    /\ outlived' = IF call[c].stage = "overtaken"
                     THEN outlived \cup {refs[s] : s \in Sensor} ELSE outlived

Missing(refs) == {s \in Sensor : refs[s] = None}

\* The worker has answered with the references it holds; an observation not yet
\* captured travels inline, and the supervisor publishes it.
WorkerAnswers(c) ==
    LET seq == transportSequence + 1 IN
    /\ busy = c /\ alive /\ Quiet /\ ~recovering
    /\ busy' = None
    /\ requiresReset' = FALSE
    /\ IF Missing(latest) = {}
         THEN Respond(c, seq, latest) /\ UNCHANGED <<arenaVars, published>>
         ELSE /\ call' = [call EXCEPT ![c] = [NoCall EXCEPT !.stage = "externalize", !.seq = seq, !.refs = latest]]
              /\ published' = published + 1
              /\ Submit(<<Publish(c, ObsLen[Min(Missing(latest))], seq, FALSE, published')>>)
              /\ UNCHANGED <<transportSequence, clientVars>>
    /\ UNCHANGED <<captures, incarnation, alive, queue, latest, recovering, handler, calls, late, readVars>>

Externalized(c) ==
    LET r == Head(tail)
        refs == [call[c].refs EXCEPT ![Min(Missing(call[c].refs))] = ReferenceTo(r, placed)]
    IN
    /\ call[c].stage \in {"externalize", "overtaken"} /\ Running("publish") /\ r.by = c
    /\ IF Missing(refs) = {}
         THEN WriteHeader(<<>>) /\ Respond(c, call[c].seq, refs) /\ UNCHANGED published
         ELSE /\ published' = published + 1
              /\ WriteHeader(<<Publish(c, ObsLen[Min(Missing(refs))], call[c].seq, FALSE, published')>>)
              /\ call' = [call EXCEPT ![c].refs = refs]
              /\ UNCHANGED <<transportSequence, clientVars>>
    /\ UNCHANGED <<captures, workerVars, recovering, requiresReset, handler, calls, late, readVars>>

\* The arena is closed, or exhausted: then RESOURCE_LIMIT replaces the worker.
ExternalizeFails(c) ==
    /\ call[c].stage \in {"externalize", "overtaken"} /\ Running("publish") /\ Head(tail).by = c
    /\ call' = [call EXCEPT ![c] = NoCall]
    /\ IF ~closed /\ alive /\ ~recovering
         THEN PublishFails(<<[op |-> "invalidate"]>>) /\ recovering' = TRUE /\ requiresReset' = TRUE
         ELSE PublishFails(<<>>) /\ UNCHANGED <<recovering, requiresReset>>
    /\ UNCHANGED <<transportSequence, published, captures, workerVars, handler, calls,
                   clientVars, late, readVars>>

(* _recover, and the closing of the batch *)

\* The worker has crashed, timed out, breached a limit or answered with an
\* error that costs it a restart.  Until it is terminated it may go on.
Recover ==
    /\ alive /\ ~recovering /\ ~closed
    /\ Submit(<<[op |-> "invalidate"]>>)
    /\ recovering' = TRUE
    /\ requiresReset' = TRUE
    /\ UNCHANGED <<transportSequence, published, captures, workerVars, handler, call, calls,
                   clientVars, late, readVars>>

\* What the handlers of a worker that is gone have is lost with it; those still
\* at work are not told.
Abandon(hs) ==
    [h \in Handler |-> IF h \in hs /\ handler[h].stage \in {"done", "failed"}
                         THEN Resting ELSE handler[h]]

\* The worker is gone, and the call it was executing fails.
WorkerGone ==
    /\ busy' = None
    /\ call' = [c \in Call |-> IF call[c].stage \in {"externalize", "overtaken"}
                               THEN [call[c] EXCEPT !.stage = "overtaken"] ELSE NoCall]
    /\ queue' = [s \in Sensor |-> <<>>]
    /\ latest' = NoRefs
    /\ handler' = Abandon(Handler)
    /\ late' = (late \/ \E h \in Handler : handler'[h].stage # "idle")

\* The arena has been invalidated; the worker is replaced while the budget lasts.
Replaced ==
    /\ recovering
    /\ Grow(<<>>)
    /\ recovering' = FALSE
    /\ WorkerGone
    /\ alive' = (incarnation < MaxRestarts)
    /\ incarnation' = IF alive' THEN incarnation + 1 ELSE incarnation
    /\ outlived' = outlived \cup (ToSet(response) \ {None})
    /\ UNCHANGED <<transportSequence, published, captures, requiresReset, calls, response,
                   newest, refused, readVars>>

\* _closeBatch: the workers first, then the arena.
CloseBatch ==
    /\ ~recovering
    /\ Close
    /\ WorkerGone
    /\ alive' = FALSE
    /\ UNCHANGED <<transportSequence, published, captures, incarnation, recovering,
                   requiresReset, calls, clientVars, readVars>>

(* A reader: any reference of the last response, at any moment *)

ReadBefore(ref) ==
    /\ read = Idle /\ Readable(ref)
    /\ read' = [stage |-> "payload", ref |-> ref, before |-> cells[ref.off]]
    /\ UNCHANGED misread

ReadPayload ==
    /\ read.stage = "payload"
    /\ read' = IF Readable(read.ref)
                 THEN [stage |-> "after", ref |-> read.ref, before |-> read.before,
                       payload |-> PayloadAt(read.ref)]
                 ELSE Idle
    /\ UNCHANGED misread

ReadAfter ==
    /\ read.stage = "after"
    /\ read' = Idle
    /\ misread' = IF /\ Accepts(read.ref, read.before, read.payload, cells[read.ref.off])
                     /\ \E i \in DOMAIN read.payload : read.payload[i] # Payload(read.ref.content, i)
                    THEN misread \cup {read.ref} ELSE misread

Read ==
    /\ \/ \E s \in Sensor : response[s] # None /\ ReadBefore(response[s])
       \/ ReadPayload \/ ReadAfter
    /\ UNCHANGED <<arenaVars, transportSequence, published, captures, workerVars, recovering,
                   requiresReset, handler, call, calls, late, clientVars>>

\* The steps of the arena that no one waits for.
ArenaStep ==
    /\ Place \/ WritePayload \/ ReleaseKeeps \/ ReleaseFrees \/ EraseMagic \/ Truncate \/ Unlink
    /\ UNCHANGED <<transportSequence, published, captures, workerVars, recovering,
                   requiresReset, handler, call, calls, clientVars, late, readVars>>

Init ==
    /\ ArenaInit
    /\ transportSequence = 0 /\ published = 0 /\ captures = 0
    /\ incarnation = 0 /\ alive = TRUE /\ recovering = FALSE /\ requiresReset = TRUE
    /\ busy = None
    /\ handler = [h \in Handler |-> Resting]
    /\ queue = [s \in Sensor |-> <<>>] /\ latest = NoRefs
    /\ call = [c \in Call |-> NoCall] /\ calls = 0
    /\ response = NoRefs /\ newest = 0
    /\ refused = {} /\ outlived = {} /\ late = FALSE
    /\ read = Idle /\ misread = {}

Next ==
    \/ \E c \in Call, reset \in BOOLEAN : StartCall(c, reset)
    \/ \E S \in (SUBSET Sensor) \ {{}} : CaptureGroup(S)
    \/ \E h \in Handler : Rendered(h) \/ RawPublished(h) \/ ObservationPublished(h) \/ CaptureFails(h)
    \/ ProcessGroup
    \/ \E s \in Sensor : Deliver(s)
    \/ \E c \in Call : WorkerAnswers(c) \/ Externalized(c) \/ ExternalizeFails(c)
    \/ Recover \/ Replaced \/ CloseBatch
    \/ Read
    \/ ArenaStep

Spec == Init /\ [][Next]_vars

-----------------------------------------------------------------------------

RefOrNone == Ref \cup {None}

TypeOK ==
    /\ ArenaTypeOK
    /\ transportSequence \in Sequence
    /\ published \in Nat /\ captures \in 0..MaxCaptures /\ calls \in 0..MaxCalls
    /\ incarnation \in Incarnation
    /\ {alive, recovering, requiresReset, late} \subseteq BOOLEAN
    /\ busy \in Call \cup {None}
    /\ handler \in [Handler -> [stage: {"idle", "gpu", "raw", "obs", "done", "failed"},
                                seq: Sequence, raw: RefOrNone, obs: RefOrNone]]
    /\ queue \in [Sensor -> Seq(Ref)]
    /\ \A s \in Sensor : Len(queue[s]) <= MaxQueueFrames
    /\ {latest, response} \subseteq [Sensor -> RefOrNone]
    /\ call \in [Call -> [stage: {"idle", "working", "externalize", "overtaken"}, seq: Sequence,
                          refs: [Sensor -> RefOrNone]]]
    /\ newest \in Sequence /\ refused \cup outlived \cup misread \subseteq Ref

\* The reference is to an allocation, and that allocation holds its content.
Live(ref) == \E b \in blocks : b.off = ref.off /\ b.gen = ref.gen /\ b.content = ref.content

\* The observations the current worker holds.
Frames ==
    {latest[s] : s \in Sensor} \cup (UNION {ToSet(queue[s]) : s \in Sensor})
      \cup {handler[<<incarnation, s>>].obs : s \in Sensor}

\* What a worker holds is still allocated, whatever the number of responses
\* since: its observations, queued, delivered or not yet processed, and the raw
\* products it has been answered with and not released.  No retirement, no
\* release of another block at the same offset and no roll-back takes them
\* (SharedTensorArena.js:203 finds a block by its offset alone), also after a
\* recovery, as long as the handlers of the worker replaced had ended.
HeldReferencesAreLive ==
    alive /\ ~recovering /\ ~late =>
      /\ \A ref \in Frames : ref # None => Live(ref)
      /\ \A h \in Handler : handler[h].raw # None => Live(handler[h].raw)

\* Between a successful response and the next call, with no recovery, all the
\* references of the response can be read: none is retired, released or replaced.
ResponseIsReadable ==
    (\A c \in Call : call[c].stage = "idle") /\ ~requiresReset /\ ~closed /\ ~late =>
      \A s \in Sensor : response[s] # None => Live(response[s])

\* A reader that accepts a reference has what that reference was published with,
\* also when the reference has expired and its space is being written again;
\* the responses a recovery overtakes are not promised it.
ReadIsTruthful == ~late => misread \subseteq outlived

\* docs/headless-simulation-plan.md:1004: stale references are rejected.  When
\* a handler has gone on without its worker they need not be: two tensors of one
\* transport sequence may follow each other at one offset.
StaleReferencesAreRejected == misread \subseteq outlived

\* docs/headless-supervisor.md:269 gives a reference until the next successful
\* response; the client refuses none of the response it has just received.
FreshReferencesDecode == refused = {}
=============================================================================
