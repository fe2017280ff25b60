------------------------- MODULE HeadlessSupervisor -------------------------
(***************************************************************************)
(* One batch of the headless supervisor, from CreateBatch to CloseBatch    *)
(* (server/headless/HeadlessSupervisor.js), with the worker processes it   *)
(* owns (WorkerHandle.js) and the session inside each of them              *)
(* (HeadlessSession.js, HeadlessWorker.js).                                *)
(*                                                                         *)
(* The supervisor is one Node.js event loop.  An action is what runs from  *)
(* one real suspension point to the next: an incoming call, a message or   *)
(* the exit of a worker, a timer, or the continuation of an await.  The    *)
(* continuations that run in the same turn of the loop as the event that   *)
(* released them (a promise rejected by an exit, a caller woken by the end *)
(* of a recovery) are actions of their own, and EventLoopIdle keeps every  *)
(* event out until they have run.                                          *)
(***************************************************************************)
EXTENDS Naturals, FiniteSets

CONSTANTS
    Env,            \* environments of the batch
    Call,           \* client calls that may be in flight at the same time
    Closer,         \* the actor that finalizes episodes inside CloseBatch
    RestartBudget,  \* limits.restartBudget: 1 for "safety", 3 for "permissive"
    MaxEpisodes,    \* bound: accepted resets of one environment
    Overlapping,    \* may a client issue a call while another is in flight?
    Faults          \* kinds of failure that may happen, a subset of FaultKind

FaultKind == {"create", "crash", "uncertain", "command", "plugin", "breach", "health",
              "watchdog", "spawn", "publish", "reject"}

ASSUME SupervisorAssumption ==
    /\ Env # {}
    /\ Closer \notin Call
    /\ RestartBudget \in Nat
    /\ MaxEpisodes \in Nat
    /\ Overlapping \in BOOLEAN
    /\ Faults \subseteq FaultKind
    /\ (Call \cup {Closer}) \cap {"idle", "initialize", "close"} = {}

Actor == Call \cup {Closer}

\* The workers ever forked for an environment, in order; 0 stands for null.
Gen == 1..(RestartBudget + 1)
NoWorker == 0

VARIABLES
    sup,          \* "serving", or how far close() has come; shuttingDown is sup # "serving"
    batch,        \* progress of _createBatch, then of the batches map entry and _closeBatch
    disposal,     \* per environment: its share of _closeBatch or of a failed creation
    snapshot,     \* per environment: the workers whose close() that share awaits
    state,        \* environment.state
    requiresReset,\* environment.requiresReset
    episode,      \* environment.episodeSequence
    active,       \* the episode environment.episodeSpec was last reset to
    finalized,    \* the episode of environment.lastFinalizeResult, 0 for null
    armed,        \* environment.episodeTimer is pending
    restartCount, \* environment.restartCount
    worker,       \* environment.worker
    recovery,     \* where the recovery behind environment.recoveryPromise has come
    proc,         \* the worker processes
    session,      \* the session inside the current worker process
    pending,      \* the request in flight on the current worker handle
    call,         \* the calls in flight
    thread        \* per call and environment: where its share of the call has come

envVars == <<state, requiresReset, episode, active, finalized, armed>>
workerVars == <<restartCount, worker, recovery, proc, session, pending>>
batchVars == <<sup, batch, disposal, snapshot>>
callVars == <<call, thread>>
vars == <<batchVars, envVars, workerVars, callVars>>

-----------------------------------------------------------------------------
EnvState == {"preparing", "prepared", "ready", "terminal", "finalized",
             "restarting", "faulted", "closing"}
RecoveryPhase == {"none", "draining", "killing", "revalidating", "initializing",
                  "discarding"}
ThreadAt == {"none", "parked", "resumed", "sent", "publishing", "breached",
             "thrown", "lateThrown", "joined", "done"}
Session == [st : {"idle", "prepared", "ready", "terminal", "finalized"}, episode : Nat]
Thread == [at : ThreadAt, episode : Nat, worker : Gen \cup {NoWorker}]
NoThread == [at |-> "none", episode |-> 0, worker |-> NoWorker]

TypeOK ==
    /\ sup \in {"serving", "closing", "draining", "down"}
    /\ batch \in {"spawning", "initializing", "cleanup", "failed", "open",
                  "finalizing", "disposing", "closed"}
    /\ disposal \in [Env -> {"none", "waiting", "disposing", "closing", "done"}]
    /\ snapshot \in [Env -> SUBSET Gen]
    /\ state \in [Env -> EnvState]
    /\ requiresReset \in [Env -> BOOLEAN]
    /\ episode \in [Env -> Nat]
    /\ active \in [Env -> Nat]
    /\ finalized \in [Env -> Nat]
    /\ armed \in [Env -> BOOLEAN]
    /\ restartCount \in [Env -> 0..RestartBudget]
    /\ worker \in [Env -> Gen \cup {NoWorker}]
    /\ recovery \in [Env -> RecoveryPhase]
    /\ proc \in [Env -> [Gen -> {"unborn", "running", "killed", "exited"}]]
    /\ session \in [Env -> Session]
    /\ pending \in [Env -> Actor \cup {"idle", "initialize", "close"}]
    /\ call \in [Actor -> {"idle", "reset", "step", "finalize"}]
    /\ thread \in [Actor -> [Env -> Thread]]

Live(e) == {w \in Gen : proc[e][w] \in {"running", "killed"}}
shuttingDown == sup # "serving"

\* Mutant: a worker counts as exited as soon as it has been signalled.
CurrentRunning(e) == worker[e] # NoWorker /\ proc[e][worker[e]] = "running"
CurrentLive(e) == worker[e] \in Live(e)

\* A worker failure of its own accord: before the batch is open it makes the
\* creation fail as well.
MayFail(kind) ==
    IF batch \in {"spawning", "initializing", "cleanup"}
    THEN "create" \in Faults ELSE kind \in Faults

\* A continuation that runs before the event loop takes the next event.
CallContinues(e) ==
    \E c \in Actor : thread[c][e].at \in {"resumed", "thrown", "lateThrown"}
RecoveryContinues(e) ==
    recovery[e] \in {"killing", "discarding"} /\ ~CurrentLive(e)
AllSpawned == \A e \in Env : worker[e] # NoWorker \/ state[e] # "preparing"
\* The initialize in flight is the one of CreateBatch, not of a recovery.
Creating(e) == pending[e] = "initialize" /\ recovery[e] # "initializing"
AllInitialized == \A e \in Env : state[e] # "preparing" /\ ~Creating(e)
CreationContinues ==
    \/ batch = "spawning" /\ AllSpawned
    \/ batch = "initializing" /\ AllInitialized
EventLoopIdle ==
    /\ \A e \in Env : ~CallContinues(e) /\ ~RecoveryContinues(e)
    /\ ~CreationContinues

Init ==
    /\ sup = "serving"
    /\ batch = "spawning"
    /\ disposal = [e \in Env |-> "none"]
    /\ snapshot = [e \in Env |-> {}]
    /\ state = [e \in Env |-> "preparing"]
    /\ requiresReset = [e \in Env |-> TRUE]
    /\ episode = [e \in Env |-> 0]
    /\ active = [e \in Env |-> 0]
    /\ finalized = [e \in Env |-> 0]
    /\ armed = [e \in Env |-> FALSE]
    /\ restartCount = [e \in Env |-> 0]
    /\ worker = [e \in Env |-> NoWorker]
    /\ recovery = [e \in Env |-> "none"]
    /\ proc = [e \in Env |-> [w \in Gen |-> "unborn"]]
    /\ session = [e \in Env |-> [st |-> "idle", episode |-> 0]]
    /\ pending = [e \in Env |-> "idle"]
    /\ call = [c \in Actor |-> "idle"]
    /\ thread = [c \in Actor |-> [e \in Env |-> NoThread]]

-----------------------------------------------------------------------------
(***************************************************************************)
(* Steps shared by several actions.                                        *)
(***************************************************************************)

\* Mutant: _recover leaves the episode timer running.
RecoverKeepingTimer(e) ==
    /\ recovery' = [recovery EXCEPT ![e] = IF @ = "none" THEN "draining" ELSE @]
    /\ UNCHANGED armed

\* _recover: a second caller finds recoveryPromise and only waits for it.
Recover(e) ==
    IF recovery[e] = "none"
    THEN /\ recovery' = [recovery EXCEPT ![e] = "draining"]
         /\ armed' = [armed EXCEPT ![e] = FALSE]
    ELSE UNCHANGED <<recovery, armed>>

\* Mutant: a command held back by _dispatch is forgotten.
WokenButForgotten(at) == CASE at = "joined" -> "done"
                           [] at = "breached" -> "lateThrown"
                           [] OTHER -> at

\* Mutant: a caller that waited for recoveryPromise starts a recovery after it.
WokenToRecover(at) == CASE at = "joined" -> "thrown"
                        [] at = "breached" -> "lateThrown"
                        [] at = "parked" -> "resumed"
                        [] OTHER -> at

\* What the end of recoveryPromise does to the callers that await it: joined
\* callers answer, a resource breach found by _dispatch is thrown after all
\* (lateThrown: the command had succeeded), and a command held back goes on.
Woken(at) == CASE at = "joined" -> "done"
               [] at = "breached" -> "lateThrown"
               [] at = "parked" -> "resumed"
               [] OTHER -> at

RecoveryEnds(e) ==
    /\ recovery' = [recovery EXCEPT ![e] = "none"]
    /\ thread' = [c \in Actor |-> [thread[c] EXCEPT ![e].at = Woken(@)]]
    /\ disposal' = [disposal EXCEPT ![e] = IF @ = "waiting" THEN "disposing" ELSE @]

\* Mutant: close() waits for the exit of a busy worker without a signal.
ClosedProcPolitely(e, W) ==
    [w \in Gen |-> IF w \in W /\ proc[e][w] = "running" /\ w # worker[e]
                   THEN "killed" ELSE proc[e][w]]

\* WorkerHandle.close on the workers of the set W: an idle handle sends
\* "close" first, a busy one is killed at once.
ClosedProc(e, W) ==
    [w \in Gen |-> IF w \in W /\ proc[e][w] = "running"
                      /\ (w # worker[e] \/ pending[e] # "idle")
                   THEN "killed" ELSE proc[e][w]]
ClosedPending(e, W) ==
    IF worker[e] \in W /\ pending[e] = "idle" THEN "close" ELSE pending[e]

At(c, e, p) == thread' = [thread EXCEPT ![c][e].at = p]
SessionTo(e, st, ep) == session' = [session EXCEPT ![e] = [st |-> st, episode |-> ep]]

\* Mutant: the session keeps its phase when a command fails.
SessionKept(e) == UNCHANGED session

\* markResetRequiredFailure: the session needs a reset.
ResetRequired(e) == SessionTo(e, "prepared", session[e].episode)

-----------------------------------------------------------------------------
(***************************************************************************)
(* Client calls.  A call on a batch that is closing or gone is refused     *)
(* without an effect, and so is an environment in the wrong state.         *)
(***************************************************************************)

MayStart(c) ==
    /\ EventLoopIdle
    /\ batch = "open"
    /\ call[c] = "idle"
    /\ Overlapping \/ \A d \in Call : call[d] = "idle"

\* The thread of an environment whose command enters _dispatch.
Entering(e, ep) ==
    [at |-> IF recovery[e] = "none" THEN "resumed" ELSE "parked",
     episode |-> ep, worker |-> worker[e]]
Refused == [NoThread EXCEPT !.at = "done"]

\* Mutant: the sequence starts again with a replacement worker.
NextEpisodeOfWorker(e) == IF state[e] = "prepared" THEN 1 ELSE episode[e] + 1
NextEpisode(e) == episode[e] + 1

ResetBatch(c, S) ==
    LET accepted == {e \in S : state[e] \in {"prepared", "finalized"}}
    IN  /\ MayStart(c)
        /\ \A e \in accepted : episode[e] < MaxEpisodes
        /\ call' = [call EXCEPT ![c] = "reset"]
        /\ episode' = [e \in Env |-> IF e \in accepted THEN NextEpisode(e) ELSE episode[e]]
        /\ thread' = [thread EXCEPT ![c] =
               [e \in Env |-> IF e \in accepted THEN Entering(e, NextEpisode(e))
                              ELSE IF e \in S THEN Refused ELSE NoThread]]
        /\ UNCHANGED <<batchVars, workerVars, state, requiresReset, active, finalized, armed>>

\* Exactly one action for every ready environment.  The late ones are those
\* whose deadline has passed although the watchdog has not fired yet.
StepBatch(c, late) ==
    LET ready == {e \in Env : state[e] = "ready"}
    IN  /\ MayStart(c)
        /\ ready # {}
        /\ late \subseteq {e \in ready : armed[e] /\ "watchdog" \in Faults}
        /\ call' = [call EXCEPT ![c] = "step"]
        /\ thread' = [thread EXCEPT ![c] =
               [e \in Env |-> IF e \in late
                              THEN [Entering(e, active[e]) EXCEPT !.at = "thrown"]
                              ELSE IF e \in ready THEN Entering(e, active[e]) ELSE NoThread]]
        /\ UNCHANGED <<batchVars, envVars, workerVars>>

\* _finalizeEnvironment up to its _dispatch, for the environments of S: a
\* completed episode answers from lastFinalizeResult.
FinalizeStarts(c, S) ==
    LET running == {e \in S : finalized[e] = 0 /\ state[e] \in {"ready", "terminal"}}
    IN  /\ call' = [call EXCEPT ![c] = "finalize"]
        /\ armed' = [e \in Env |-> armed[e] /\ e \notin running]
        /\ thread' = [thread EXCEPT ![c] =
               [e \in Env |-> IF e \in running THEN Entering(e, active[e])
                              ELSE IF e \in S THEN Refused ELSE NoThread]]

FinalizeBatch(c, S) ==
    /\ MayStart(c)
    /\ FinalizeStarts(c, S)
    /\ UNCHANGED <<batchVars, workerVars, state, requiresReset, episode, active, finalized>>

\* The call answers once every environment of it has.
Return(c) ==
    /\ c \in Call
    /\ call[c] # "idle"
    /\ \A e \in Env : thread[c][e].at \in {"none", "done"}
    /\ call' = [call EXCEPT ![c] = "idle"]
    /\ thread' = [thread EXCEPT ![c] = [e \in Env |-> NoThread]]
    /\ UNCHANGED <<batchVars, envVars, workerVars>>

-----------------------------------------------------------------------------
(***************************************************************************)
(* _dispatch and the catch block of a call.                                *)
(***************************************************************************)

\* The worker a command goes to is the one there is by now.
SentTo(c, e, p) ==
    thread' = [thread EXCEPT ![c][e].at = p, ![c][e].worker = worker[e]]

\* _dispatch past its await of recoveryPromise, and WorkerHandle.dispatch.
\* Only "faulted" is asked for again: otherwise the command goes to whatever
\* worker is there, unless it is cancelled by now or over the queue limit.
Dispatch(c, e) ==
    /\ thread[c][e].at = "resumed"
    /\ \/ /\ \/ ~CurrentLive(e) \/ state[e] = "faulted"
             \/ pending[e] = "idle" /\ "uncertain" \in Faults
          /\ SentTo(c, e, "thrown")
          /\ UNCHANGED pending
       \/ /\ CurrentLive(e) /\ state[e] # "faulted" /\ pending[e] # "idle"
          /\ At(c, e, "done")
          /\ UNCHANGED pending
       \/ /\ CurrentLive(e) /\ state[e] # "faulted" /\ pending[e] = "idle"
          /\ SentTo(c, e, "sent")
          /\ pending' = [pending EXCEPT ![e] = c]
    /\ UNCHANGED <<batchVars, envVars, restartCount, worker, recovery, proc, session, call>>

\* _recoverIfInfrastructure with an infrastructure code.
CatchInfrastructure(c, e) ==
    /\ thread[c][e].at \in {"thrown", "lateThrown"}
    /\ Recover(e)
    /\ At(c, e, "joined")
    /\ UNCHANGED <<batchVars, state, requiresReset, episode, active, finalized,
                   restartCount, worker, proc, session, pending, call>>

\* A step timeout, an aborted call, a failed send or IPC backpressure: the
\* outcome is uncertain, so the request fails and the worker is killed.
Uncertain(c, e) ==
    /\ EventLoopIdle
    /\ "uncertain" \in Faults
    /\ pending[e] = c
    /\ pending' = [pending EXCEPT ![e] = "idle"]
    /\ proc' = [proc EXCEPT ![e][worker[e]] = "killed"]
    /\ At(c, e, "thrown")
    /\ UNCHANGED <<batchVars, envVars, restartCount, worker, recovery, session, call>>

-----------------------------------------------------------------------------
(***************************************************************************)
(* A worker answers the command in flight.  What the session did and what  *)
(* the supervisor does with the answer are one action: an answer nobody    *)
(* waits for any more is dropped by WorkerHandle._message.                 *)
(***************************************************************************)

Answering(c, e, op) ==
    /\ EventLoopIdle
    /\ CurrentLive(e)
    /\ pending[e] = c
    /\ call[c] = op
    /\ pending' = [pending EXCEPT ![e] = "idle"]
    /\ UNCHANGED <<batchVars, restartCount, worker, proc, call>>

\* A good answer over a resource limit: _dispatch itself recovers and then
\* throws, so no state of the episode is recorded.
Breach(c, e) ==
    /\ "breach" \in Faults
    /\ Recover(e)
    /\ At(c, e, "breached")
    /\ UNCHANGED <<state, requiresReset, active, finalized>>

\* Mutant: the finalize result of the episode before is kept.
EpisodeBeginsWithResult(e, ep) ==
    /\ active' = [active EXCEPT ![e] = ep]
    /\ requiresReset' = [requiresReset EXCEPT ![e] = FALSE]
    /\ state' = [state EXCEPT ![e] = "ready"]
    /\ armed' = [armed EXCEPT ![e] = TRUE]
    /\ UNCHANGED finalized

EpisodeBegins(e, ep) ==
    /\ active' = [active EXCEPT ![e] = ep]
    /\ requiresReset' = [requiresReset EXCEPT ![e] = FALSE]
    /\ state' = [state EXCEPT ![e] = "ready"]
    /\ finalized' = [finalized EXCEPT ![e] = 0]
    /\ armed' = [armed EXCEPT ![e] = TRUE]

ResetAnswered(c, e) ==
    LET ep == thread[c][e].episode
    IN  /\ Answering(c, e, "reset")
        /\ session[e].st \in {"prepared", "finalized"}
        /\ SessionTo(e, "ready", ep)
        /\ UNCHANGED episode
        /\ \/ Breach(c, e)
           \/ /\ EpisodeBegins(e, ep)
              /\ At(c, e, "publishing")
              /\ UNCHANGED recovery

\* Mutant: a session that was never reset steps as well.
SessionStepsPrepared(e) == session[e].st \in {"ready", "prepared"}
SessionSteps(e) == session[e].st = "ready"

StepAnswered(c, e) ==
    /\ Answering(c, e, "step")
    /\ SessionSteps(e)
    /\ UNCHANGED episode
    /\ \E ends \in BOOLEAN :
         /\ SessionTo(e, IF ends THEN "terminal" ELSE "ready", session[e].episode)
         /\ \/ Breach(c, e)
            \/ /\ state' = [state EXCEPT ![e] = IF ends THEN "terminal" ELSE @]
               /\ armed' = [armed EXCEPT ![e] = @ /\ ~ends]
               /\ At(c, e, "publishing")
               /\ UNCHANGED <<requiresReset, active, finalized, recovery>>

FinalizeAnswered(c, e) ==
    /\ Answering(c, e, "finalize")
    /\ session[e].st \in {"ready", "terminal", "finalized"}
    /\ SessionTo(e, "finalized", session[e].episode)
    /\ UNCHANGED episode
    /\ \/ Breach(c, e)
       \/ /\ finalized' = [finalized EXCEPT ![e] = session[e].episode]
          /\ state' = [state EXCEPT ![e] = "finalized"]
          /\ requiresReset' = [requiresReset EXCEPT ![e] = TRUE]
          /\ At(c, e, "done")
          /\ UNCHANGED <<active, armed, recovery>>

\* The session refuses the command, or the command fails in a way that says
\* nothing about the worker: only this call is told.
Rejected(c, e) ==
    /\ \/ Answering(c, e, "reset")
       \/ Answering(c, e, "step")
       \/ Answering(c, e, "finalize")
    /\ \/ "reject" \in Faults
       \/ call[c] = "reset" /\ session[e].st \notin {"prepared", "finalized"}
       \/ call[c] = "step" /\ ~SessionSteps(e)
       \/ call[c] = "finalize" /\ session[e].st \notin {"ready", "terminal", "finalized"}
    /\ At(c, e, "done")
    /\ UNCHANGED <<envVars, recovery, session>>

\* An infrastructure failure inside the command.  markResetRequiredFailure
\* puts the session back to prepared, except for an observation over the limit
\* after the step and for an artifact that cannot be published.
CommandFails(c, e) ==
    /\ "command" \in Faults
    /\ UNCHANGED <<recovery, episode, active, finalized, armed>>
    /\ At(c, e, "thrown")
    /\ \/ /\ Answering(c, e, "reset")
          /\ session[e].st \in {"prepared", "finalized"}
          /\ ResetRequired(e)
          /\ UNCHANGED <<state, requiresReset>>
       \/ /\ Answering(c, e, "step")
          /\ SessionSteps(e)
          /\ ResetRequired(e)
          /\ state' = [state EXCEPT ![e] = "prepared"]
          /\ requiresReset' = [requiresReset EXCEPT ![e] = TRUE]
       \/ /\ Answering(c, e, "step")
          /\ SessionSteps(e)
          /\ UNCHANGED <<session, state, requiresReset>>
       \/ /\ Answering(c, e, "finalize")
          /\ session[e].st \in {"ready", "terminal"}
          /\ UNCHANGED <<session, state, requiresReset>>

\* A plugin failure: the session needs a reset, but the code is not an
\* infrastructure code, so the worker stays.
PluginFails(c, e) ==
    /\ "plugin" \in Faults
    /\ UNCHANGED <<recovery, episode, active, finalized, armed>>
    /\ At(c, e, "done")
    /\ ResetRequired(e)
    /\ \/ /\ Answering(c, e, "reset")
          /\ session[e].st \in {"prepared", "finalized"}
          /\ UNCHANGED <<state, requiresReset>>
       \/ /\ Answering(c, e, "step")
          /\ SessionSteps(e)
          /\ state' = [state EXCEPT ![e] = "prepared"]
          /\ requiresReset' = [requiresReset EXCEPT ![e] = TRUE]

\* _externalizeObservation: the arena has written the observation, or not.
Publish(c, e) ==
    /\ EventLoopIdle
    /\ thread[c][e].at = "publishing"
    /\ \E p \in {"done"} \cup (IF "publish" \in Faults THEN {"lateThrown"} ELSE {}) : At(c, e, p)
    /\ UNCHANGED <<batchVars, envVars, workerVars, call>>

-----------------------------------------------------------------------------
(***************************************************************************)
(* The events that end an episode, and _recover.                           *)
(***************************************************************************)

\* _observeExit: somebody expects the exit.
ExitExpected(e) == shuttingDown \/ state[e] \in {"closing", "restarting", "faulted"}

\* The exit of a worker: WorkerHandle fails its request in flight, then onExit
\* runs _observeExit, which recovers unless the state says that somebody
\* expects this exit.  The catch block of the failed request runs after that.
Exit(e, w) ==
    LET current == w = worker[e]
        failing == current /\ pending[e] # "idle"
        starting == failing /\ pending[e] = "initialize"
    IN  /\ EventLoopIdle
        /\ w \in Live(e)
        /\ proc[e][w] = "killed" \/ MayFail("crash")
        /\ proc' = [proc EXCEPT ![e][w] = "exited"]
        /\ pending' = [pending EXCEPT ![e] = IF current THEN "idle" ELSE @]
        /\ thread' = [c \in Actor |-> [thread[c] EXCEPT ![e].at =
                          IF failing /\ pending[e] = c THEN "thrown" ELSE @]]
        /\ IF starting /\ recovery[e] = "initializing"
           THEN /\ recovery' = [recovery EXCEPT ![e] = "discarding"]
                /\ state' = [state EXCEPT ![e] = "faulted"]
                /\ UNCHANGED armed
           ELSE /\ UNCHANGED state
                /\ IF ExitExpected(e) THEN UNCHANGED <<recovery, armed>>
                   ELSE Recover(e)
        /\ batch' = IF starting /\ recovery[e] # "initializing" /\ batch = "initializing"
                    THEN "cleanup" ELSE batch
        /\ UNCHANGED <<sup, disposal, snapshot, requiresReset, episode, active, finalized,
                       restartCount, worker, session, call>>

\* _observeHealth: a periodic report over a limit, with no command in flight.
HealthBreach(e) ==
    /\ EventLoopIdle
    /\ MayFail("health")
    /\ CurrentLive(e)
    /\ pending[e] = "idle"
    /\ recovery[e] = "none"
    /\ state[e] \notin {"preparing", "restarting", "faulted", "closing"}
    /\ Recover(e)
    /\ UNCHANGED <<batchVars, callVars, state, requiresReset, episode, active, finalized,
                   restartCount, worker, proc, session, pending>>

\* The episode timer: it asks for a recovery whatever the state is by then.
WatchdogFires(e) ==
    /\ EventLoopIdle
    /\ "watchdog" \in Faults
    /\ armed[e]
    /\ recovery' = [recovery EXCEPT ![e] = IF @ = "none" THEN "draining" ELSE @]
    /\ armed' = [armed EXCEPT ![e] = FALSE]
    /\ UNCHANGED <<batchVars, callVars, state, requiresReset, episode, active, finalized,
                   restartCount, worker, proc, session, pending>>

\* Mutant: the flag is only raised by callers that see the error.
RestartingSilently(e) ==
    /\ state' = [state EXCEPT ![e] = "restarting"]
    /\ UNCHANGED requiresReset

Restarting(e) ==
    /\ state' = [state EXCEPT ![e] = "restarting"]
    /\ requiresReset' = [requiresReset EXCEPT ![e] = TRUE]

\* _recover after the transports and the arena are invalidated; the arena
\* serializes its writes, so no observation is still being published.
Drained(e) ==
    /\ EventLoopIdle
    /\ recovery[e] = "draining"
    /\ \A c \in Actor : thread[c][e].at # "publishing"
    /\ Restarting(e)
    /\ recovery' = [recovery EXCEPT ![e] = "killing"]
    /\ IF CurrentLive(e)
       THEN /\ proc' = [proc EXCEPT ![e][worker[e]] = "killed"]
            /\ pending' = [pending EXCEPT ![e] = ClosedPending(e, {worker[e]})]
       ELSE UNCHANGED <<proc, pending>>
    /\ UNCHANGED <<batchVars, callVars, episode, active, finalized, armed,
                   restartCount, worker, session>>

Fault(e) ==
    /\ state' = [state EXCEPT ![e] = "faulted"]
    /\ worker' = [worker EXCEPT ![e] = NoWorker]
    /\ RecoveryEnds(e)

\* Mutant: one restart too many.
BudgetExceeded(e) == restartCount[e] > RestartBudget \/ shuttingDown
BudgetSpent(e) == restartCount[e] >= RestartBudget \/ shuttingDown

\* _recover once the failed worker has exited: give up, or go on to replace it.
FailedWorkerGone(e) ==
    /\ recovery[e] = "killing"
    /\ ~CurrentLive(e)
    /\ ~CallContinues(e)
    /\ \/ /\ BudgetSpent(e)
          /\ Fault(e)
          /\ UNCHANGED restartCount
       \/ /\ ~BudgetSpent(e)
          /\ restartCount' = [restartCount EXCEPT ![e] = @ + 1]
          /\ recovery' = [recovery EXCEPT ![e] = "revalidating"]
          /\ UNCHANGED <<state, worker, thread, disposal>>
    /\ UNCHANGED <<sup, batch, snapshot, requiresReset, episode, active, finalized, armed,
                   proc, session, pending, call>>

\* _newWorker for environment e, and its session before initialize.
NewWorker(e) ==
    LET w == restartCount[e] + 1
    IN  /\ worker' = [worker EXCEPT ![e] = w]
        /\ proc' = [proc EXCEPT ![e][w] = "running"]
        /\ SessionTo(e, "idle", 0)

\* The admission is valid again: fork the replacement and initialize it.
Respawn(e) ==
    /\ EventLoopIdle
    /\ recovery[e] = "revalidating"
    /\ NewWorker(e)
    /\ pending' = [pending EXCEPT ![e] = "initialize"]
    /\ recovery' = [recovery EXCEPT ![e] = "initializing"]
    /\ UNCHANGED <<batchVars, callVars, envVars, restartCount>>

\* The admission is gone, or the process cannot be forked.
RespawnFails(e) ==
    /\ EventLoopIdle
    /\ "spawn" \in Faults
    /\ recovery[e] = "revalidating"
    /\ Fault(e)
    /\ UNCHANGED <<sup, batch, snapshot, requiresReset, episode, active, finalized, armed,
                   restartCount, proc, session, pending, call>>

\* The replacement answers initialize.
Replaced(e) ==
    /\ EventLoopIdle
    /\ CurrentLive(e)
    /\ recovery[e] = "initializing"
    /\ pending[e] = "initialize"
    /\ pending' = [pending EXCEPT ![e] = "idle"]
    /\ SessionTo(e, "prepared", 0)
    /\ state' = [state EXCEPT ![e] = "prepared"]
    /\ RecoveryEnds(e)
    /\ UNCHANGED <<sup, batch, snapshot, requiresReset, episode, active, finalized, armed,
                   restartCount, worker, proc, call>>

\* It answers with an error or over a limit: it is closed as well.
ReplacementFails(e) ==
    /\ EventLoopIdle
    /\ "spawn" \in Faults
    /\ CurrentLive(e)
    /\ recovery[e] = "initializing"
    /\ pending[e] = "initialize"
    /\ pending' = [pending EXCEPT ![e] = "close"]
    /\ state' = [state EXCEPT ![e] = "faulted"]
    /\ recovery' = [recovery EXCEPT ![e] = "discarding"]
    /\ UNCHANGED <<batchVars, callVars, requiresReset, episode, active, finalized, armed,
                   restartCount, worker, proc, session>>

FailedReplacementGone(e) ==
    /\ recovery[e] = "discarding"
    /\ ~CurrentLive(e)
    /\ ~CallContinues(e)
    /\ worker' = [worker EXCEPT ![e] = NoWorker]
    /\ RecoveryEnds(e)
    /\ UNCHANGED <<sup, batch, snapshot, envVars, restartCount, proc, session, pending, call>>

\* A worker answers "close", or does not in time: SIGTERM follows.
CloseAnswered(e) ==
    /\ EventLoopIdle
    /\ pending[e] = "close"
    /\ pending' = [pending EXCEPT ![e] = "idle"]
    /\ proc' = [proc EXCEPT ![e][worker[e]] = "killed"]
    /\ UNCHANGED <<batchVars, callVars, envVars, restartCount, worker, recovery, session>>

-----------------------------------------------------------------------------
(***************************************************************************)
(* _createBatch, after its capacity check.                                 *)
(***************************************************************************)

Spawn(e) ==
    /\ EventLoopIdle
    /\ batch = "spawning"
    /\ state[e] = "preparing" /\ worker[e] = NoWorker
    /\ NewWorker(e)
    /\ UNCHANGED <<batchVars, envVars, callVars, restartCount, recovery, pending>>

\* The renderer, the arena, the admission or a limit refuses an environment.
SpawnFails ==
    /\ EventLoopIdle
    /\ "create" \in Faults
    /\ batch = "spawning"
    /\ batch' = "cleanup"
    /\ UNCHANGED <<sup, disposal, snapshot, envVars, workerVars, callVars>>

\* Promise.all of the initialize commands; one that cannot be sent fails it, as
\* does one to a worker that has been killed already, which does not answer.
InitializeAll ==
    LET sendable == {e \in Env : /\ CurrentLive(e)
                                 /\ proc[e][worker[e]] = "running"
                                 /\ pending[e] = "idle"}
    IN  /\ batch = "spawning" /\ AllSpawned
        /\ pending' = [e \in Env |-> IF e \in sendable THEN "initialize" ELSE pending[e]]
        /\ batch' = IF sendable = Env THEN "initializing" ELSE "cleanup"
        /\ UNCHANGED <<sup, disposal, snapshot, envVars, callVars,
                       restartCount, worker, recovery, proc, session>>

\* The code after the await does not ask whether the creation has failed since.
Initialized(e) ==
    /\ EventLoopIdle
    /\ CurrentLive(e)
    /\ Creating(e)
    /\ pending' = [pending EXCEPT ![e] = "idle"]
    /\ SessionTo(e, "prepared", 0)
    /\ state' = [state EXCEPT ![e] = "prepared"]
    /\ UNCHANGED <<batchVars, callVars, requiresReset, episode, active, finalized, armed,
                   restartCount, worker, recovery, proc>>

\* It answers with an error or over a limit, or the client cancels the call.
InitializeFails(e) ==
    /\ EventLoopIdle
    /\ "create" \in Faults
    /\ CurrentLive(e)
    /\ Creating(e)
    /\ pending' = [pending EXCEPT ![e] = "idle"]
    /\ \E p \in {proc[e][worker[e]], "killed"} : proc' = [proc EXCEPT ![e][worker[e]] = p]
    /\ batch' = IF batch = "initializing" THEN "cleanup" ELSE batch
    /\ UNCHANGED <<sup, disposal, snapshot, envVars, callVars,
                   restartCount, worker, recovery, session>>

\* The spaces are compared and the batch registered, unless they are
\* incompatible or the supervisor began to shut down.
CreateCompletes ==
    /\ batch = "initializing" /\ AllInitialized
    /\ batch' \in (IF shuttingDown THEN {} ELSE {"open"})
                  \cup (IF shuttingDown \/ "create" \in Faults THEN {"cleanup"} ELSE {})
    /\ UNCHANGED <<sup, disposal, snapshot, envVars, workerVars, callVars>>

CloseAllLive ==
    /\ snapshot' = [e \in Env |-> Live(e)]
    /\ proc' = [e \in Env |-> ClosedProc(e, Live(e))]
    /\ pending' = [e \in Env |-> ClosedPending(e, Live(e))]

\* The catch block: close the workers the environments have at this moment.
CleanupWorkers ==
    /\ EventLoopIdle
    /\ batch = "cleanup"
    /\ \A e \in Env : disposal[e] = "none"
    /\ CloseAllLive
    /\ disposal' = [e \in Env |-> "closing"]
    /\ UNCHANGED <<sup, batch, envVars, callVars, restartCount, worker, recovery, session>>

\* Mutant: the exits are not awaited.
DisposedAtOnce(e) ==
    /\ EventLoopIdle
    /\ disposal[e] = "closing"
    /\ disposal' = [disposal EXCEPT ![e] = "done"]
    /\ UNCHANGED <<sup, batch, snapshot, envVars, workerVars, callVars>>

Disposed(e) ==
    /\ EventLoopIdle
    /\ disposal[e] = "closing"
    /\ snapshot[e] \cap Live(e) = {}
    /\ disposal' = [disposal EXCEPT ![e] = "done"]
    /\ UNCHANGED <<sup, batch, snapshot, envVars, workerVars, callVars>>

CreateFails ==
    /\ EventLoopIdle
    /\ batch = "cleanup"
    /\ \A e \in Env : disposal[e] = "done"
    /\ batch' = "failed"
    /\ UNCHANGED <<sup, disposal, snapshot, envVars, workerVars, callVars>>

-----------------------------------------------------------------------------
(***************************************************************************)
(* closeBatch: one operation, whoever calls it.                            *)
(***************************************************************************)

CloseFinalizes ==
    /\ EventLoopIdle
    /\ batch = "open"
    /\ Overlapping \/ \A c \in Call : call[c] = "idle"
    /\ batch' = "finalizing"
    /\ FinalizeStarts(Closer, {e \in Env : state[e] \in {"ready", "terminal", "finalized"}})
    /\ UNCHANGED <<sup, disposal, snapshot, workerVars, state, requiresReset,
                   episode, active, finalized>>

\* Mutant: a recovery under way is not awaited.
ShareAtOnce(e) == "disposing"
Share(e) == IF recovery[e] = "none" THEN "disposing" ELSE "waiting"

\* The synchronous part of disposal; an environment in recovery is waited for.
Dispose ==
    /\ batch' = "disposing"
    /\ armed' = [e \in Env |-> FALSE]
    /\ state' = [e \in Env |-> "closing"]
    /\ disposal' = [e \in Env |-> Share(e)]
    /\ call' = [call EXCEPT ![Closer] = "idle"]
    /\ thread' = [thread EXCEPT ![Closer] = [e \in Env |-> NoThread]]
    /\ UNCHANGED <<sup, snapshot, workerVars, requiresReset, episode, active, finalized>>

\* Called by a client that does not finalize, or by the supervisor's close().
CloseDisposes ==
    /\ EventLoopIdle
    /\ batch = "open"
    /\ sup = "closing" \/ Overlapping \/ \A c \in Call : call[c] = "idle"
    /\ Dispose

CloseFinalized ==
    /\ EventLoopIdle
    /\ batch = "finalizing"
    /\ \A e \in Env : thread[Closer][e].at \in {"none", "done"}
    /\ Dispose

\* Close the workers the environment has at this moment.
DisposeWorkers(e) ==
    /\ EventLoopIdle
    /\ disposal[e] = "disposing"
    /\ snapshot' = [snapshot EXCEPT ![e] = Live(e)]
    /\ proc' = [proc EXCEPT ![e] = ClosedProc(e, Live(e))]
    /\ pending' = [pending EXCEPT ![e] = ClosedPending(e, Live(e))]
    /\ disposal' = [disposal EXCEPT ![e] = "closing"]
    /\ UNCHANGED <<sup, batch, envVars, callVars, restartCount, worker, recovery, session>>

BatchCloses ==
    /\ EventLoopIdle
    /\ batch = "disposing"
    /\ \A e \in Env : disposal[e] = "done"
    /\ batch' = "closed"
    /\ UNCHANGED <<sup, disposal, snapshot, envVars, workerVars, callVars>>

-----------------------------------------------------------------------------
(***************************************************************************)
(* close() of the supervisor: it waits for the creation, closes the batch  *)
(* (CloseDisposes, or the close already under way) and then whatever       *)
(* worker is left.                                                         *)
(***************************************************************************)

BeginShutdown ==
    /\ EventLoopIdle
    /\ sup = "serving"
    /\ sup' = "closing"
    /\ UNCHANGED <<batch, disposal, snapshot, envVars, workerVars, callVars>>

ShutdownWorkers ==
    /\ EventLoopIdle
    /\ sup = "closing"
    /\ batch \in {"failed", "closed"}
    /\ sup' = "draining"
    /\ CloseAllLive
    /\ UNCHANGED <<batch, disposal, envVars, callVars, restartCount, worker, recovery, session>>

ShutdownEnds ==
    /\ EventLoopIdle
    /\ sup = "draining"
    /\ \A e \in Env : snapshot[e] \cap Live(e) = {}
    /\ sup' = "down"
    /\ UNCHANGED <<batch, disposal, snapshot, envVars, workerVars, callVars>>

Terminated == sup = "down" /\ UNCHANGED vars

-----------------------------------------------------------------------------
Command(c, e) ==
    \/ ResetAnswered(c, e) \/ StepAnswered(c, e) \/ FinalizeAnswered(c, e)
    \/ Rejected(c, e) \/ CommandFails(c, e) \/ PluginFails(c, e)
    \/ Uncertain(c, e)

Creation == SpawnFails \/ InitializeAll \/ CreateCompletes \/ CleanupWorkers \/ CreateFails
Closing == CloseFinalizes \/ CloseDisposes \/ CloseFinalized \/ BatchCloses
Shutdown == BeginShutdown \/ ShutdownWorkers \/ ShutdownEnds

Next ==
    \/ \E c \in Call, S \in (SUBSET Env) \ {{}} : ResetBatch(c, S) \/ FinalizeBatch(c, S)
    \/ \E c \in Call, late \in SUBSET Env : StepBatch(c, late)
    \/ \E c \in Call : Return(c)
    \/ \E c \in Actor, e \in Env :
          Dispatch(c, e) \/ CatchInfrastructure(c, e) \/ Command(c, e) \/ Publish(c, e)
    \/ \E e \in Env, w \in Gen : Exit(e, w)
    \/ \E e \in Env :
          \/ HealthBreach(e) \/ WatchdogFires(e)
          \/ Drained(e) \/ FailedWorkerGone(e) \/ Respawn(e) \/ RespawnFails(e)
          \/ Replaced(e) \/ ReplacementFails(e) \/ FailedReplacementGone(e)
          \/ CloseAnswered(e)
          \/ Spawn(e) \/ Initialized(e) \/ InitializeFails(e)
          \/ DisposeWorkers(e) \/ Disposed(e)
    \/ Creation \/ Closing \/ Shutdown \/ Terminated

Spec == Init /\ [][Next]_vars

(***************************************************************************)
(* Fairness.  Continuations run.  The supervisor's own events come about:  *)
(* its timers fire, a killed process exits (close() escalates to SIGKILL), *)
(* a worker being initialized or closed answers or is killed.  A worker    *)
(* with a command in flight answers, too; only a step has a timeout, so    *)
(* for the other commands this is an assumption about the worker.          *)
(*                                                                         *)
(* Events are strongly fair: the loop takes them in the order they come,   *)
(* so calls that keep arriving, each with continuations of its own, do not *)
(* hold up the events behind them.  Clients, failures and BeginShutdown    *)
(* owe nothing.                                                            *)
(***************************************************************************)
RecoveryEvent(e) ==
    \/ Drained(e)
    \/ Respawn(e) \/ RespawnFails(e)
    \/ Replaced(e) \/ ReplacementFails(e)
    \/ CloseAnswered(e)
    \/ \E w \in Gen : proc[e][w] = "killed" /\ Exit(e, w)

LifecycleEvent ==
    \/ \E e \in Env : \/ Spawn(e) \/ Initialized(e) \/ InitializeFails(e)
                      \/ DisposeWorkers(e) \/ Disposed(e)
    \/ SpawnFails \/ CleanupWorkers \/ CreateFails
    \/ CloseFinalized \/ BatchCloses
    \/ sup = "closing" /\ CloseDisposes
    \/ ShutdownWorkers \/ ShutdownEnds

FairSpec ==
    /\ Spec
    /\ \A c \in Actor, e \in Env :
          /\ WF_vars(Dispatch(c, e)) /\ WF_vars(CatchInfrastructure(c, e))
          /\ SF_vars(Publish(c, e))
    /\ \A c \in Call : WF_vars(Return(c))
    /\ \A e \in Env :
          /\ WF_vars(FailedWorkerGone(e)) /\ WF_vars(FailedReplacementGone(e))
          /\ SF_vars(\E c \in Actor : Command(c, e))
    /\ WF_vars(InitializeAll) /\ WF_vars(CreateCompletes)
    /\ SF_vars(LifecycleEvent \/ \E e \in Env : RecoveryEvent(e))

-----------------------------------------------------------------------------
(***************************************************************************)
(* Properties.                                                             *)
(***************************************************************************)

\* An environment never has two worker processes, nor one that
\* environment.worker does not name: a recovery forks the replacement only
\* after the failed worker has exited.
LiveIsCurrent == \A e \in Env : Live(e) \subseteq {worker[e]}

\* Nothing runs while a recovery decides whether to fork, and an environment in
\* recovery is not one that CreateBatch still forks for.
RecoveryForksAlone ==
    \A e \in Env :
        /\ recovery[e] = "revalidating" => Live(e) = {}
        /\ recovery[e] \in {"killing", "revalidating", "initializing", "discarding"}
             => state[e] # "preparing"

\* A request in flight is one to a live worker: an exit fails it, and a
\* recovery never replaces a worker that could still answer.
PendingOnLiveWorker == \A e \in Env : pending[e] # "idle" => CurrentLive(e)

\* LiveIsCurrent made inductive.
LiveInv == LiveIsCurrent /\ RecoveryForksAlone /\ PendingOnLiveWorker

\* Whenever no recovery is under way, what the supervisor believes about an
\* environment is what its worker's session is in, for the same episode.
SessionAgrees ==
    \A e \in Env :
        batch \in {"open", "finalizing"} /\ ~shuttingDown
        /\ recovery[e] = "none" /\ ~CallContinues(e)
        => /\ state[e] = "faulted" \/ CurrentLive(e)
           /\ state[e] = "prepared" => session[e].st = "prepared"
           /\ state[e] \in {"ready", "terminal"} =>
                session[e] = [st |-> state[e], episode |-> active[e]]
           /\ state[e] = "finalized" => session[e].st \in {"prepared", "finalized"}

\* A failure "reports requires_reset": outside a recovery the flag of an open
\* batch is down exactly while an episode is under way.
RequiresResetIsReported ==
    \A e \in Env :
        batch \in {"open", "finalizing"} /\ ~shuttingDown
        /\ recovery[e] = "none" /\ ~CallContinues(e)
        => requiresReset[e] = (state[e] \notin {"ready", "terminal"})

\* A remembered finalize result is the one of the last episode that was reset,
\* and none is remembered while that episode is still running: FinalizeBatch
\* never answers for an episode it did not finalize.
FinalizeResultIsCurrent ==
    \A e \in Env : /\ finalized[e] \in {0, active[e]}
                   /\ state[e] \in {"ready", "terminal"} => finalized[e] = 0

\* A share of a call has sent its command exactly while that is the request in
\* flight, and until its failure has been dealt with the worker is the one it
\* was sent to.
ThreadsFollowCalls ==
    /\ \A c \in Actor, e \in Env :
          /\ thread[c][e].at = "sent" <=> pending[e] = c
          /\ call[c] = "idle" => thread[c][e].at = "none"
          /\ thread[c][e].at \in {"sent", "thrown"} => thread[c][e].worker = worker[e]
    /\ batch # "finalizing" => call[Closer] = "idle"

\* A command is held back by a recovery only.  One that _dispatch lets through
\* meets no recovery but one that a continuation of the same turn has begun, and
\* no command that is still held back.
Resumed(e) == \E c \in Actor : thread[c][e].at = "resumed"
ResumedBeforeEvents ==
    \A e \in Env :
        /\ recovery[e] = "none" => \A c \in Actor : thread[c][e].at # "parked"
        /\ Resumed(e) => /\ recovery[e] \in {"none", "draining"}
                         /\ \A c \in Actor : thread[c][e].at # "parked"

\* A session that may still get or answer a command runs, or has run, the
\* episode the supervisor knows of, which has no finalize result before its end.
Heard(e) == CurrentLive(e) /\ (recovery[e] = "none" \/ pending[e] \in Actor \/ Resumed(e))
SessionEpisode ==
    \A e \in Env : Heard(e) =>
        /\ session[e].st \in {"ready", "terminal", "finalized"} => session[e].episode = active[e]
        /\ session[e].st \in {"ready", "terminal"} => finalized[e] = 0

\* A step that reaches a running session was accepted for its episode.
StepsMeetTheirEpisode ==
    \A c \in Actor, e \in Env :
        call[c] = "step" /\ thread[c][e].at \in {"resumed", "sent"}
        /\ CurrentLive(e) /\ session[e].st = "ready"
        => session[e].episode = thread[c][e].episode

\* A reset on its way has a number above that of the active episode, and one
\* held back a number above that of the one in flight.
ResetsAreNumbered ==
    \A e \in Env :
        /\ active[e] <= episode[e]
        /\ \A c \in Actor :
              call[c] = "reset" /\ thread[c][e].at \in {"parked", "resumed", "sent"}
              => active[e] < thread[c][e].episode /\ thread[c][e].episode <= episode[e]
        /\ \A c, d \in Actor :
              call[c] = "reset" /\ call[d] = "reset"
              /\ thread[c][e].at = "sent" /\ thread[d][e].at = "parked"
              => thread[c][e].episode < thread[d][e].episode

\* A replacement that failed is not heard any more.
Usable == batch \in {"spawning", "initializing", "open", "finalizing"}
DiscardedIsSilent ==
    \A e \in Env : recovery[e] = "discarding" =>
        /\ Usable => state[e] = "faulted"
        /\ pending[e] \in {"idle", "close"}
        /\ pending[e] = "idle" /\ CurrentLive(e) => proc[e][worker[e]] = "killed"

\* Outside a recovery the state names the phase of the session, from the first
\* initialize on.
StateNamesPhase ==
    \A e \in Env : Usable /\ ~shuttingDown =>
        /\ batch \in {"open", "finalizing"} => state[e] # "preparing"
        /\ recovery[e] = "none" /\ state[e] # "preparing" =>
              /\ state[e] \notin {"restarting", "closing"}
              /\ state[e] = "faulted" <=> ~CurrentLive(e)
              /\ state[e] = "prepared" => session[e].st = "prepared"
              /\ state[e] \in {"ready", "terminal"} => session[e].st = state[e]
              /\ state[e] = "finalized" => session[e].st \in {"prepared", "finalized"}

\* The invariant the proofs rest on: who talks to which session, about which
\* episode.
SupervisorInv ==
    /\ LiveInv
    /\ ThreadsFollowCalls
    /\ ResumedBeforeEvents
    /\ SessionEpisode
    /\ FinalizeResultIsCurrent
    /\ StepsMeetTheirEpisode
    /\ ResetsAreNumbered
    /\ DiscardedIsSilent
    /\ StateNamesPhase

\* An episode that was lost or finalized never becomes active again, and no
\* later one takes its number, which names its artifacts.
EpisodesOnlyAdvance(e) ==
    \/ state[e] # "ready" /\ state'[e] = "ready"
    \/ active'[e] # active[e]
    => active'[e] > active[e]

\* "The failed action is never replayed and the failed episode never
\* continues": a step runs in the very episode it was accepted for, and its
\* number is one that no other episode ever has.
StepsItsEpisode ==
    [][\A e \in Env :
          /\ EpisodesOnlyAdvance(e)
          /\ \A c \in Actor : StepAnswered(c, e) =>
                session[e] = [st |-> "ready", episode |-> thread[c][e].episode]]_vars

\* A caller that is about to ask for a recovery does not ask for that of a
\* worker other than the one it used, as long as restarts are granted.
RecoversItsWorker(p) ==
    \A c \in Actor, e \in Env :
        thread[c][e].at = p /\ recovery[e] = "none" /\ ~shuttingDown
        => thread[c][e].worker = worker[e]

\* A failure consumes one restart, however many callers, events and timers see
\* it: a call whose command failed never recovers the replacement.
OneRestartPerFailure == RecoversItsWorker("thrown")

\* A "memory breach, or resource breach [...] consumes one restart", also when
\* it shows in the answer of a command.  The code does not do this (section 4 of
\* the README).
BreachCostsOneRestart == RecoversItsWorker("lateThrown")

\* The episode timer runs only while the session runs an episode.
WatchdogGuardsAnEpisode ==
    \A e \in Env : armed[e] /\ recovery[e] = "none" /\ ~CallContinues(e)
                   => session[e] = [st |-> "ready", episode |-> active[e]]

\* A recovery under way when the batch was closed has put the environment back
\* from closing to prepared, and another one has begun since.
PutBack(e) == state[e] # "closing" /\ restartCount[e] > 1

\* "CloseBatch always disposes every worker", but for the second replacement in
\* an environment that was put back (section 4 of the README).
ClosedBatchHasNoWorker ==
    batch = "closed" => \A e \in Env : Live(e) # {} => PutBack(e)

CloseDisposesEveryWorker == batch = "closed" => \A e \in Env : Live(e) = {}

\* "Creation is all-or-nothing": a failed one leaves no worker behind.
FailedBatchHasNoWorker == batch = "failed" => \A e \in Env : Live(e) = {}

\* Both, for a batch that grants no restarts: with some, a recovery that starts
\* late enough leaves a worker (section 4 of the README).
EndedBatchHasNoWorker == CloseDisposesEveryWorker /\ FailedBatchHasNoWorker

\* Whatever restarts it grants, the worker that CreateBatch forked is gone when
\* the batch has failed or is closed.
FirstWorkerIsDisposed == batch \in {"failed", "closed"} => \A e \in Env : 1 \notin Live(e)

\* close() of the supervisor leaves no worker process behind, but for those.
NothingSurvivesShutdown ==
    sup = "down" => \A e \in Env : Live(e) # {} => PutBack(e)

\* Whatever fails, and whatever else is in flight, every client call answers.
EveryCallReturns == \A c \in Call : call[c] # "idle" ~> call[c] = "idle"

\* So does the creation of a batch, its cleanup included.
CreationEnds == batch = "spawning" ~> batch \in {"failed", "open"}

\* CloseBatch, waiting for recoveries that wait for exits, comes to an end, and
\* so does close() of the supervisor, which waits for it.
ClosingEnds ==
    /\ batch \in {"finalizing", "disposing"} ~> batch = "closed"
    /\ sup = "closing" ~> sup = "down"

=============================================================================
