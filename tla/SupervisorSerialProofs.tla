----------------------- MODULE SupervisorSerialProofs -----------------------
(***************************************************************************)
(* Theorems about HeadlessSupervisor for clients that wait for their       *)
(* answers: what CloseBatch and close() leave behind, what the flag        *)
(* requiresReset says and what the episode timer guards.  With calls that  *)
(* overlap all four fail, and those with a hypothesis on Faults fail       *)
(* without it (section 4 of the README).                                   *)
(*                                                                         *)
(* As for the sessions, lemmas on all actions come first (CallMoves,       *)
(* LifeMoves, CreationMoves, FlagMoves); each says what a step does to the *)
(* calls or to one environment, in the terms of the invariant that needs   *)
(* it.                                                                     *)
(***************************************************************************)
EXTENDS HeadlessSupervisorProofs

-----------------------------------------------------------------------------
(***************************************************************************)
(* The calls in flight, and the progress of the batch.                     *)
(***************************************************************************)

\* Before a batch is open or after its creation has failed; from disposal on.
Early == batch \in {"spawning", "initializing", "cleanup", "failed"}
Ended == batch \in {"disposing", "closed"}
\* When the model lets a client begin something.
NoCall == \A c \in Call : call[c] = "idle"
Admits == Overlapping \/ NoCall

\* What a step does to the calls in flight and to the batch they are about.
KeepsCalls ==
    /\ call' = call
    /\ batch' = batch \/ (Early /\ ~Ended' /\ batch' # "finalizing") \/ Ended
EndsCall == batch' = batch /\ \E c \in Call : call' = [call EXCEPT ![c] = "idle"]
BeginsCall ==
    /\ batch = "open" /\ batch' = "open" /\ Admits
    /\ \E c \in Call : \A d \in Actor \ {c} : call'[d] = call[d]
BeginsClose ==
    /\ batch = "open" /\ batch' = "finalizing" /\ Admits
    /\ call'[Closer] = "finalize" /\ \A d \in Call : call'[d] = call[d]
BeginsDisposal ==
    /\ batch \in {"open", "finalizing"} /\ batch' = "disposing"
    /\ batch = "open" => shuttingDown \/ Admits
    /\ call'[Closer] = "idle" /\ \A d \in Call : call'[d] = call[d]
\* Creation, the calls of an open batch and its end follow one another.
CallMove ==
    /\ Early' => Early
    /\ Ended => Ended'
    /\ shuttingDown => shuttingDown'
    /\ KeepsCalls \/ EndsCall \/ BeginsCall \/ BeginsClose \/ BeginsDisposal

LEMMA SameCalls ==
    ASSUME UNCHANGED <<call, batch, sup>> PROVE CallMove
BY DEF CallMove, KeepsCalls, Early, Ended, shuttingDown

\* Each operation of a client begins or ends one call, and only when the clients
\* may have that many in flight.
LEMMA CallMoves == ASSUME TypeOK, [Next]_vars PROVE CallMove
<1> USE SupervisorAssumption
<1>1. ASSUME NEW d \in Call, NEW S \in SUBSET Env, ResetBatch(d, S) PROVE CallMove
  BY <1>1 DEF CallMove, KeepsCalls, EndsCall, BeginsCall, BeginsClose, BeginsDisposal, Admits,
     NoCall, Early, Ended, shuttingDown, TypeOK, MayStart, Actor, ResetBatch, batchVars, envVars,
     workerVars, callVars
<1>2. ASSUME NEW d \in Call, NEW S \in SUBSET Env, FinalizeBatch(d, S) PROVE CallMove
  BY <1>2 DEF CallMove, KeepsCalls, EndsCall, BeginsCall, BeginsClose, BeginsDisposal, Admits,
     NoCall, Early, Ended, shuttingDown, TypeOK, MayStart, Actor, FinalizeBatch, FinalizeStarts,
     batchVars, envVars, workerVars, callVars
<1>3. ASSUME NEW d \in Call, NEW late \in SUBSET Env, StepBatch(d, late) PROVE CallMove
  BY <1>3 DEF CallMove, KeepsCalls, EndsCall, BeginsCall, BeginsClose, BeginsDisposal, Admits,
     NoCall, Early, Ended, shuttingDown, TypeOK, MayStart, Actor, StepBatch, batchVars, envVars,
     workerVars, callVars
<1>4. ASSUME NEW d \in Call, Return(d) PROVE CallMove
  BY <1>4 DEF CallMove, KeepsCalls, EndsCall, BeginsCall, BeginsClose, BeginsDisposal, Admits,
     NoCall, Early, Ended, shuttingDown, TypeOK, MayStart, Actor, Return, batchVars, envVars,
     workerVars, callVars
<1>5. ASSUME NEW d \in Actor, NEW f \in Env, Dispatch(d, f) PROVE CallMove
  BY <1>5, SameCalls DEF Dispatch, SentTo, batchVars, envVars, workerVars, callVars
<1>6. ASSUME NEW d \in Actor, NEW f \in Env, CatchInfrastructure(d, f) PROVE CallMove
  BY <1>6, SameCalls DEF CatchInfrastructure, batchVars, envVars, workerVars, callVars
<1>7. ASSUME NEW d \in Actor, NEW f \in Env, ResetAnswered(d, f) PROVE CallMove
  BY <1>7, SameCalls DEF ResetAnswered, Answering, batchVars, envVars, workerVars, callVars
<1>8. ASSUME NEW d \in Actor, NEW f \in Env, StepAnswered(d, f) PROVE CallMove
  BY <1>8, SameCalls DEF StepAnswered, Answering, batchVars, envVars, workerVars, callVars
<1>9. ASSUME NEW d \in Actor, NEW f \in Env, FinalizeAnswered(d, f) PROVE CallMove
  BY <1>9, SameCalls DEF FinalizeAnswered, Answering, batchVars, envVars, workerVars, callVars
<1>10. ASSUME NEW d \in Actor, NEW f \in Env, Rejected(d, f) PROVE CallMove
  BY <1>10, SameCalls DEF Rejected, Answering, batchVars, envVars, workerVars, callVars
<1>11. ASSUME NEW d \in Actor, NEW f \in Env, CommandFails(d, f) PROVE CallMove
  BY <1>11, SameCalls DEF CommandFails, Answering, batchVars, envVars, workerVars, callVars
<1>12. ASSUME NEW d \in Actor, NEW f \in Env, PluginFails(d, f) PROVE CallMove
  BY <1>12, SameCalls DEF PluginFails, Answering, batchVars, envVars, workerVars, callVars
<1>13. ASSUME NEW d \in Actor, NEW f \in Env, Uncertain(d, f) PROVE CallMove
  BY <1>13, SameCalls DEF Uncertain, batchVars, envVars, workerVars, callVars
<1>14. ASSUME NEW d \in Actor, NEW f \in Env, Publish(d, f) PROVE CallMove
  BY <1>14, SameCalls DEF Publish, batchVars, envVars, workerVars, callVars
<1>15. ASSUME NEW f \in Env, NEW w \in Gen, Exit(f, w) PROVE CallMove
  BY <1>15 DEF CallMove, KeepsCalls, EndsCall, BeginsCall, BeginsClose, BeginsDisposal, Admits,
     NoCall, Early, Ended, shuttingDown, TypeOK, MayStart, Actor, Exit, Recover, batchVars,
     envVars, workerVars, callVars
<1>16. ASSUME NEW f \in Env, HealthBreach(f) PROVE CallMove
  BY <1>16, SameCalls DEF HealthBreach, batchVars, envVars, workerVars, callVars
<1>17. ASSUME NEW f \in Env, WatchdogFires(f) PROVE CallMove
  BY <1>17, SameCalls DEF WatchdogFires, batchVars, envVars, workerVars, callVars
<1>18. ASSUME NEW f \in Env, Drained(f) PROVE CallMove
  BY <1>18, SameCalls DEF Drained, batchVars, envVars, workerVars, callVars
<1>19. ASSUME NEW f \in Env, FailedWorkerGone(f) PROVE CallMove
  BY <1>19, SameCalls DEF FailedWorkerGone, batchVars, envVars, workerVars, callVars
<1>20. ASSUME NEW f \in Env, Respawn(f) PROVE CallMove
  BY <1>20, SameCalls DEF Respawn, batchVars, envVars, workerVars, callVars
<1>21. ASSUME NEW f \in Env, RespawnFails(f) PROVE CallMove
  BY <1>21, SameCalls DEF RespawnFails, batchVars, envVars, workerVars, callVars
<1>22. ASSUME NEW f \in Env, Replaced(f) PROVE CallMove
  BY <1>22, SameCalls DEF Replaced, batchVars, envVars, workerVars, callVars
<1>23. ASSUME NEW f \in Env, ReplacementFails(f) PROVE CallMove
  BY <1>23, SameCalls DEF ReplacementFails, batchVars, envVars, workerVars, callVars
<1>24. ASSUME NEW f \in Env, FailedReplacementGone(f) PROVE CallMove
  BY <1>24, SameCalls DEF FailedReplacementGone, batchVars, envVars, workerVars, callVars
<1>25. ASSUME NEW f \in Env, CloseAnswered(f) PROVE CallMove
  BY <1>25, SameCalls DEF CloseAnswered, batchVars, envVars, workerVars, callVars
<1>26. ASSUME NEW f \in Env, Spawn(f) PROVE CallMove
  BY <1>26, SameCalls DEF Spawn, batchVars, envVars, workerVars, callVars
<1>27. ASSUME NEW f \in Env, Initialized(f) PROVE CallMove
  BY <1>27, SameCalls DEF Initialized, batchVars, envVars, workerVars, callVars
<1>28. ASSUME NEW f \in Env, InitializeFails(f) PROVE CallMove
  BY <1>28 DEF CallMove, KeepsCalls, EndsCall, BeginsCall, BeginsClose, BeginsDisposal, Admits,
     NoCall, Early, Ended, shuttingDown, TypeOK, MayStart, Actor, InitializeFails, batchVars,
     envVars, workerVars, callVars
<1>29. ASSUME NEW f \in Env, DisposeWorkers(f) PROVE CallMove
  BY <1>29, SameCalls DEF DisposeWorkers, batchVars, envVars, workerVars, callVars
<1>30. ASSUME NEW f \in Env, Disposed(f) PROVE CallMove
  BY <1>30, SameCalls DEF Disposed, batchVars, envVars, workerVars, callVars
<1>31. ASSUME SpawnFails PROVE CallMove
  BY <1>31 DEF CallMove, KeepsCalls, EndsCall, BeginsCall, BeginsClose, BeginsDisposal, Admits,
     NoCall, Early, Ended, shuttingDown, TypeOK, MayStart, Actor, SpawnFails, batchVars, envVars,
     workerVars, callVars
<1>32. ASSUME InitializeAll PROVE CallMove
  BY <1>32 DEF CallMove, KeepsCalls, EndsCall, BeginsCall, BeginsClose, BeginsDisposal, Admits,
     NoCall, Early, Ended, shuttingDown, TypeOK, MayStart, Actor, InitializeAll, batchVars,
     envVars, workerVars, callVars
<1>33. ASSUME CreateCompletes PROVE CallMove
  BY <1>33 DEF CallMove, KeepsCalls, EndsCall, BeginsCall, BeginsClose, BeginsDisposal, Admits,
     NoCall, Early, Ended, shuttingDown, TypeOK, MayStart, Actor, CreateCompletes, batchVars,
     envVars, workerVars, callVars
<1>34. ASSUME CleanupWorkers PROVE CallMove
  BY <1>34, SameCalls DEF CleanupWorkers, batchVars, envVars, workerVars, callVars
<1>35. ASSUME CreateFails PROVE CallMove
  BY <1>35 DEF CallMove, KeepsCalls, EndsCall, BeginsCall, BeginsClose, BeginsDisposal, Admits,
     NoCall, Early, Ended, shuttingDown, TypeOK, MayStart, Actor, CreateFails, batchVars,
     envVars, workerVars, callVars
<1>36. ASSUME CloseFinalizes PROVE CallMove
  BY <1>36 DEF CallMove, KeepsCalls, EndsCall, BeginsCall, BeginsClose, BeginsDisposal, Admits,
     NoCall, Early, Ended, shuttingDown, TypeOK, MayStart, Actor, CloseFinalizes, FinalizeStarts,
     batchVars, envVars, workerVars, callVars
<1>37. ASSUME CloseDisposes PROVE CallMove
  BY <1>37 DEF CallMove, KeepsCalls, EndsCall, BeginsCall, BeginsClose, BeginsDisposal, Admits,
     NoCall, Early, Ended, shuttingDown, TypeOK, MayStart, Actor, CloseDisposes, Dispose, Share,
     workerVars
<1>38. ASSUME CloseFinalized PROVE CallMove
  BY <1>38 DEF CallMove, KeepsCalls, EndsCall, BeginsCall, BeginsClose, BeginsDisposal, Admits,
     NoCall, Early, Ended, shuttingDown, TypeOK, MayStart, Actor, CloseFinalized, Dispose, Share,
     workerVars
<1>39. ASSUME BatchCloses PROVE CallMove
  BY <1>39 DEF CallMove, KeepsCalls, EndsCall, BeginsCall, BeginsClose, BeginsDisposal, Admits,
     NoCall, Early, Ended, shuttingDown, TypeOK, MayStart, Actor, BatchCloses, batchVars,
     envVars, workerVars, callVars
<1>40. ASSUME BeginShutdown PROVE CallMove
  BY <1>40 DEF CallMove, KeepsCalls, EndsCall, BeginsCall, BeginsClose, BeginsDisposal, Admits,
     NoCall, Early, Ended, shuttingDown, TypeOK, MayStart, Actor, BeginShutdown, batchVars,
     envVars, workerVars, callVars
<1>41. ASSUME ShutdownWorkers PROVE CallMove
  BY <1>41 DEF CallMove, KeepsCalls, EndsCall, BeginsCall, BeginsClose, BeginsDisposal, Admits,
     NoCall, Early, Ended, shuttingDown, TypeOK, MayStart, Actor, ShutdownWorkers, CloseAllLive,
     ClosedPending, batchVars, envVars, workerVars, callVars
<1>42. ASSUME ShutdownEnds PROVE CallMove
  BY <1>42 DEF CallMove, KeepsCalls, EndsCall, BeginsCall, BeginsClose, BeginsDisposal, Admits,
     NoCall, Early, Ended, shuttingDown, TypeOK, MayStart, Actor, ShutdownEnds, batchVars,
     envVars, workerVars, callVars
<1>43. ASSUME Terminated PROVE CallMove
  BY <1>43, SameCalls DEF Terminated, vars, batchVars, envVars, workerVars, callVars
<1>44. CASE UNCHANGED vars
  BY <1>44, SameCalls DEF vars, batchVars, envVars, workerVars, callVars
<1> QED BY <1>1, <1>2, <1>3, <1>4, <1>5, <1>6, <1>7, <1>8, <1>9, <1>10, <1>11, <1>12, <1>13,
   <1>14, <1>15, <1>16, <1>17, <1>18, <1>19, <1>20, <1>21, <1>22, <1>23, <1>24, <1>25, <1>26,
   <1>27, <1>28, <1>29, <1>30, <1>31, <1>32, <1>33, <1>34, <1>35, <1>36, <1>37, <1>38, <1>39,
   <1>40, <1>41, <1>42, <1>43, <1>44
   DEF Next, Command, Creation, Closing, Shutdown

\* A call is in flight, that of CloseBatch included.
Busy == \E c \in Actor : call[c] # "idle"

\* Clients whose calls do not overlap: one actor at a time is busy with the
\* batch, and none before it is open or once it is disposed, but for a shutdown.
CallsAlone ==
    /\ \A c, d \in Actor : call[c] # "idle" /\ call[d] # "idle" => c = d
    /\ Early => ~Busy
    /\ batch = "finalizing" => call[Closer] # "idle"
    /\ Ended /\ ~shuttingDown => ~Busy

\* A client that waits for its answers is alone: CloseBatch begins between calls,
\* and only a shutdown disposes of a batch whose call has not answered.
LEMMA CallsAloneNext ==
    ASSUME TypeOK, ThreadsFollowCalls, CallsAlone, ~Overlapping, [Next]_vars
    PROVE  CallsAlone'
<1>1. CallMove
  BY CallMoves
<1>2. Closer \in Actor /\ Actor = Call \cup {Closer} /\ Closer \notin Call
  BY SupervisorAssumption DEF Actor
<1>3. call \in [Actor -> {"idle", "reset", "step", "finalize"}]
  BY DEF TypeOK
<1>4. batch # "finalizing" => call[Closer] = "idle"
  BY DEF ThreadsFollowCalls
<1>5. CASE KeepsCalls
  BY <1>1, <1>5 DEF CallMove, KeepsCalls, CallsAlone, Busy, Early, Ended
<1>6. CASE EndsCall
  <2>1. PICK c \in Call : call' = [call EXCEPT ![c] = "idle"] /\ batch' = batch
    BY <1>6 DEF EndsCall
  <2>2. \A d \in Actor : call'[d] # "idle" => call[d] # "idle"
    BY <2>1, <1>3
  <2>3. call'[Closer] = call[Closer]
    BY <2>1, <1>2, <1>3
  <2> QED BY <1>1, <2>1, <2>2, <2>3 DEF CallMove, CallsAlone, Busy, Early, Ended
<1>7. CASE BeginsCall
  <2>1. batch = "open" /\ batch' = "open" /\ NoCall
    BY <1>7 DEF BeginsCall, Admits
  <2>2. PICK c \in Call : \A d \in Actor \ {c} : call'[d] = call[d]
    BY <1>7 DEF BeginsCall
  <2>3. \A d \in Actor \ {c} : call'[d] = "idle"
    BY <1>2, <1>4, <2>1, <2>2 DEF NoCall
  <2> QED BY <2>1, <2>3 DEF CallsAlone, Busy, Early, Ended
<1>8. CASE BeginsClose
  <2>1. batch' = "finalizing" /\ call'[Closer] = "finalize" /\ \A d \in Call : call'[d] = "idle"
    BY <1>8 DEF BeginsClose, Admits, NoCall
  <2> QED BY <1>2, <2>1 DEF CallsAlone, Busy, Early, Ended
<1>9. CASE BeginsDisposal
  <2>1. batch' = "disposing" /\ call'[Closer] = "idle" /\ \A d \in Call : call'[d] = call[d]
    BY <1>9 DEF BeginsDisposal
  <2>2. \A d \in Actor : call'[d] # "idle" => call[d] # "idle"
    BY <1>2, <2>1
  <2>3. ~shuttingDown' => \A d \in Call : call'[d] = "idle"
    <3>1. CASE batch = "open"
      BY <1>1, <1>9, <2>1, <3>1 DEF BeginsDisposal, CallMove, Admits, NoCall
    <3>2. CASE batch = "finalizing"
      BY <1>2, <2>1, <3>2 DEF CallsAlone
    <3> QED BY <1>9, <3>1, <3>2 DEF BeginsDisposal
  <2> QED BY <1>2, <2>1, <2>2, <2>3 DEF CallsAlone, Busy, Early, Ended
<1> QED BY <1>1, <1>5, <1>6, <1>7, <1>8, <1>9 DEF CallMove

-----------------------------------------------------------------------------
(***************************************************************************)
(* Closing a batch.                                                        *)
(***************************************************************************)

\* The phases of a recovery, and what each step makes of the state.
PhaseStep(e) ==
    \/ /\ recovery'[e] = recovery[e]
       /\ \/ state'[e] = state[e] \/ Disposes(e) \/ Creating(e)
          \/ pending[e] \in Actor /\ state'[e] # "closing"
    \/ recovery[e] = "none" /\ recovery'[e] = "draining" /\ state'[e] = state[e]
    \/ recovery[e] = "draining" /\ recovery'[e] = "killing" /\ state'[e] = "restarting"
    \/ recovery[e] = "killing" /\ recovery'[e] = "revalidating" /\ state'[e] = state[e]
    \/ recovery[e] = "revalidating" /\ recovery'[e] = "initializing" /\ state'[e] = state[e]
    \/ recovery[e] = "initializing" /\ recovery'[e] = "discarding" /\ state'[e] = "faulted"
    \/ recovery[e] = "initializing" /\ recovery'[e] = "none" /\ state'[e] = "prepared"
    \/ /\ recovery[e] \in {"killing", "revalidating"} /\ recovery'[e] = "none"
       /\ state'[e] = "faulted"
    \/ recovery[e] = "discarding" /\ recovery'[e] = "none" /\ state'[e] = state[e]

LEMMA PhaseSteps == ASSUME NEW e \in Env, EnvStep(e) PROVE PhaseStep(e)
<1>1. ASSUME NEW c \in Actor, HearsSomething(c, e) PROVE PhaseStep(e)
  BY <1>1
     DEF PhaseStep, HearsSomething, Hears, HearsReset, HearsStep, HearsFinalize, HearsBreach,
     HearsFailure, HearsNothing, Cells
<1>2. CASE Still(e) \/ SendsCommand(e) \/ SendsInitialize(e) \/ Alarmed(e)
  BY <1>2 DEF PhaseStep, Still, SendsCommand, SendsInitialize, Alarmed, Cells
<1>3. CASE InitializeIsOver(e) \/ CloseIsOver(e) \/ Closes(e) \/ Disposes(e)
  BY <1>3 DEF PhaseStep, InitializeIsOver, CloseIsOver, Closes, Disposes, Cells
<1>4. CASE MayRestart(e) \/ GivesUp(e) \/ Forgets(e) \/ Kills(e)
  BY <1>4 DEF PhaseStep, MayRestart, GivesUp, Forgets, Kills, Cells
<1>5. CASE Forks(e) \/ Prepares(e) \/ Discards(e) \/ Exits(e)
  BY <1>5 DEF PhaseStep, Forks, Prepares, Discards, Exits, Creating
<1> QED BY <1>1, <1>2, <1>3, <1>4, <1>5 DEF EnvStep

\* A worker is forked by CreateBatch or by a recovery.
LEMMA LiveGrows ==
    ASSUME TypeOK, LiveInv, [Next]_vars, NEW e \in Env
    PROVE  \/ Live(e)' \subseteq Live(e)
           \/ recovery[e] = "revalidating" /\ recovery'[e] = "initializing"
           \/ batch = "spawning"
<1>1. ASSUME NEW f \in Env, FailedWorkerGone(f) \/ RespawnFails(f) \/ FailedReplacementGone(f)
      PROVE  Live(e)' = Live(e)
  BY <1>1 DEF FailedWorkerGone, RespawnFails, FailedReplacementGone, Live
<1>2. ASSUME NEW f \in Env, Respawn(f)
      PROVE  \/ Live(e)' = Live(e)
             \/ recovery[e] = "revalidating" /\ recovery'[e] = "initializing"
  BY <1>2 DEF Respawn, NewWorker, Live, TypeOK
<1>3. ASSUME NEW f \in Env, Spawn(f) PROVE batch = "spawning"
  BY <1>3 DEF Spawn
<1>4. CASE \A f \in Env : ~(FailedWorkerGone(f) \/ Respawn(f) \/ RespawnFails(f)
                            \/ FailedReplacementGone(f) \/ Spawn(f))
  BY <1>4, NextCalm DEF Calm, LiveInv
<1> QED BY <1>1, <1>2, <1>3, <1>4

\* What a step does to the recovery and to the share of environment e in a batch
\* that is being closed, beyond EnvStep and DisposalStep.
LifeMove(e) ==
    /\ recovery[e] = "none" /\ recovery'[e] = "draining"
          => Busy \/ armed[e] \/ state[e] \notin {"closing", "faulted"}
    /\ restartCount'[e] \in {restartCount[e], restartCount[e] + 1}
    /\ recovery[e] # "revalidating" /\ recovery'[e] = "revalidating"
          => restartCount'[e] = restartCount[e] + 1 /\ ~shuttingDown
    /\ disposal'[e] = "waiting" =>
          recovery'[e] # "none" \/ (disposal[e] = "waiting" /\ recovery'[e] = recovery[e])
    /\ Ended /\ disposal[e] = "waiting" /\ disposal'[e] # "waiting"
          => disposal'[e] = "disposing" /\ recovery'[e] = "none"
    /\ ~Ended /\ Ended' => /\ state'[e] = "closing" /\ recovery'[e] = recovery[e]
                           /\ disposal'[e] = Share(e) /\ ~armed'[e]
    /\ armed'[e] => armed[e] \/ Busy
    /\ Creating(e)' => Creating(e) \/ batch = "spawning"
    /\ Early /\ ~Early' => ~Creating(e)'

\* A step that leaves the restarts, the share and the batch of e alone.
LEMMA SameLife ==
    ASSUME NEW e \in Env,
           batch' = batch \/ (Early /\ Early'),
           UNCHANGED <<restartCount[e], disposal[e]>>,
           armed'[e] => armed[e] \/ Busy,
           \/ recovery'[e] = recovery[e]
           \/ recovery'[e] \in {"killing", "initializing", "discarding"}
           \/ /\ recovery'[e] = "draining"
              /\ Busy \/ armed[e] \/ state[e] \notin {"closing", "faulted"},
           pending'[e] = "initialize" =>
              \/ recovery'[e] = "initializing"
              \/ /\ pending[e] = "initialize"
                 /\ recovery'[e] = recovery[e] \/ recovery[e] # "initializing"
    PROVE  LifeMove(e)
<1>1. restartCount'[e] = restartCount[e] /\ disposal'[e] = disposal[e]
  OBVIOUS
<1>2. Ended' => Ended
  BY DEF Early, Ended
<1>3. Early /\ ~Early' => FALSE
  BY DEF Early
<1>4. Creating(e)' => Creating(e)
  BY DEF Creating
<1>5. recovery[e] = "none" /\ recovery'[e] = "draining"
        => Busy \/ armed[e] \/ state[e] \notin {"closing", "faulted"}
  OBVIOUS
<1>6. recovery'[e] = "revalidating" => recovery[e] = "revalidating"
  OBVIOUS
<1>7. disposal'[e] = "waiting" =>
        recovery'[e] # "none" \/ (disposal[e] = "waiting" /\ recovery'[e] = recovery[e])
  BY <1>1
<1> QED BY <1>1, <1>2, <1>3, <1>4, <1>5, <1>6, <1>7 DEF LifeMove

\* A share that is not idle is that of a call in flight.
LEMMA BusyThread ==
    ASSUME ThreadsFollowCalls, NEW c \in Actor, NEW e \in Env, thread[c][e].at # "none"
    PROVE  Busy
BY DEF ThreadsFollowCalls, Busy

\* A recovery begins only where a call, a timer or a worker can still fail, and
\* a replacement is granted only by a supervisor that serves.
LEMMA LifeMoves ==
    ASSUME TypeOK, ThreadsFollowCalls, [Next]_vars, NEW e \in Env
    PROVE  LifeMove(e)
<1> USE SupervisorAssumption
<1>1. ASSUME NEW d \in Call, NEW S \in SUBSET Env, ResetBatch(d, S) PROVE LifeMove(e)
  BY <1>1
     DEF LifeMove, Busy, Early, Ended, shuttingDown, Creating, Share, TypeOK, RecoveryPhase,
     ResetBatch, batchVars, envVars, workerVars, callVars
<1>2. ASSUME NEW d \in Call, NEW S \in SUBSET Env, FinalizeBatch(d, S) PROVE LifeMove(e)
  BY <1>2
     DEF LifeMove, Busy, Early, Ended, shuttingDown, Creating, Share, TypeOK, RecoveryPhase,
     FinalizeBatch, FinalizeStarts, batchVars, envVars, workerVars, callVars
<1>3. ASSUME NEW d \in Call, NEW late \in SUBSET Env, StepBatch(d, late) PROVE LifeMove(e)
  BY <1>3
     DEF LifeMove, Busy, Early, Ended, shuttingDown, Creating, Share, TypeOK, RecoveryPhase,
     StepBatch, batchVars, envVars, workerVars, callVars
<1>4. ASSUME NEW d \in Call, Return(d) PROVE LifeMove(e)
  BY <1>4
     DEF LifeMove, Busy, Early, Ended, shuttingDown, Creating, Share, TypeOK, RecoveryPhase,
     Return, batchVars, envVars, workerVars, callVars
<1>5. ASSUME NEW d \in Actor, NEW f \in Env, Dispatch(d, f) PROVE LifeMove(e)
  BY <1>5, SameLife DEF Dispatch, TypeOK, Actor, batchVars, envVars
<1>6. ASSUME NEW d \in Actor, NEW f \in Env, CatchInfrastructure(d, f) PROVE LifeMove(e)
  <2>1. Busy
    BY <1>6, BusyThread DEF CatchInfrastructure
  <2> QED BY <1>6, <2>1, SameLife DEF CatchInfrastructure, Recover, TypeOK, batchVars
<1>7. ASSUME NEW d \in Actor, NEW f \in Env, ResetAnswered(d, f) PROVE LifeMove(e)
  <2>1. /\ Busy /\ UNCHANGED <<batchVars, restartCount>>
        /\ pending'[e] = "initialize" => pending[e] = "initialize"
    BY <1>7 DEF ResetAnswered, Answering, TypeOK, Busy
  <2>2. recovery'[e] = recovery[e] \/ (recovery[e] = "none" /\ recovery'[e] = "draining")
    BY <1>7 DEF ResetAnswered, Breach, Recover, TypeOK
  <2> QED BY <2>1, <2>2, SameLife DEF batchVars
<1>8. ASSUME NEW d \in Actor, NEW f \in Env, StepAnswered(d, f) PROVE LifeMove(e)
  <2>1. /\ Busy /\ UNCHANGED <<batchVars, restartCount>>
        /\ pending'[e] = "initialize" => pending[e] = "initialize"
    BY <1>8 DEF StepAnswered, Answering, TypeOK, Busy
  <2>2. recovery'[e] = recovery[e] \/ (recovery[e] = "none" /\ recovery'[e] = "draining")
    BY <1>8 DEF StepAnswered, Breach, Recover, TypeOK
  <2> QED BY <2>1, <2>2, SameLife DEF batchVars
<1>9. ASSUME NEW d \in Actor, NEW f \in Env, FinalizeAnswered(d, f) PROVE LifeMove(e)
  <2>1. /\ Busy /\ UNCHANGED <<batchVars, restartCount>>
        /\ pending'[e] = "initialize" => pending[e] = "initialize"
    BY <1>9 DEF FinalizeAnswered, Answering, TypeOK, Busy
  <2>2. recovery'[e] = recovery[e] \/ (recovery[e] = "none" /\ recovery'[e] = "draining")
    BY <1>9 DEF FinalizeAnswered, Breach, Recover, TypeOK
  <2> QED BY <2>1, <2>2, SameLife DEF batchVars
<1>10. ASSUME NEW d \in Actor, NEW f \in Env, Rejected(d, f) PROVE LifeMove(e)
  BY <1>10 DEF LifeMove, Busy, Early, Ended, shuttingDown, Creating, Share, TypeOK,
     RecoveryPhase, Rejected, Answering, At, batchVars, envVars, workerVars, callVars
<1>11. ASSUME NEW d \in Actor, NEW f \in Env, CommandFails(d, f) PROVE LifeMove(e)
  BY <1>11 DEF LifeMove, Busy, Early, Ended, shuttingDown, Creating, Share, TypeOK,
     RecoveryPhase, CommandFails, Answering, ResetRequired, SessionTo, SessionSteps, At,
     batchVars, envVars, workerVars, callVars
<1>12. ASSUME NEW d \in Actor, NEW f \in Env, PluginFails(d, f) PROVE LifeMove(e)
  BY <1>12 DEF LifeMove, Busy, Early, Ended, shuttingDown, Creating, Share, TypeOK,
     RecoveryPhase, PluginFails, Answering, ResetRequired, SessionTo, SessionSteps, At,
     batchVars, envVars, workerVars, callVars
<1>13. ASSUME NEW d \in Actor, NEW f \in Env, Uncertain(d, f) PROVE LifeMove(e)
  BY <1>13 DEF LifeMove, Busy, Early, Ended, shuttingDown, Creating, Share, TypeOK,
     RecoveryPhase, Uncertain, At, batchVars, envVars, workerVars, callVars
<1>14. ASSUME NEW d \in Actor, NEW f \in Env, Publish(d, f) PROVE LifeMove(e)
  BY <1>14 DEF LifeMove, Busy, Early, Ended, shuttingDown, Creating, Share, TypeOK,
     RecoveryPhase, Publish, At, batchVars, envVars, workerVars, callVars
<1>15. ASSUME NEW f \in Env, NEW w \in Gen, Exit(f, w) PROVE LifeMove(e)
  <2>1. CASE e # f
    BY <1>15, <2>1, SameLife DEF Exit, Recover, TypeOK, Early
  <2>2. CASE e = f
    <3>1. UNCHANGED <<restartCount, disposal>> /\ (batch' = batch \/ (Early /\ Early'))
      BY <1>15 DEF Exit, Early
    <3>2. \/ recovery'[e] = recovery[e]
          \/ recovery'[e] = "discarding" /\ pending'[e] = "idle"
          \/ /\ recovery'[e] = "draining" /\ recovery[e] = "none"
             /\ state[e] \notin {"closing", "faulted"}
      BY <1>15, <2>2 DEF Exit, ExitExpected, Recover, TypeOK
    <3>3. armed'[e] => armed[e]
      BY <1>15, <2>2 DEF Exit, Recover, TypeOK
    <3>4. pending'[e] = "initialize" => pending[e] = "initialize"
      BY <1>15, <2>2 DEF Exit, TypeOK
    <3> QED BY <3>1, <3>2, <3>3, <3>4, SameLife
  <2> QED BY <2>1, <2>2
<1>16. ASSUME NEW f \in Env, HealthBreach(f) PROVE LifeMove(e)
  BY <1>16, SameLife DEF HealthBreach, Recover, TypeOK, batchVars, workerVars, callVars
<1>17. ASSUME NEW f \in Env, WatchdogFires(f) PROVE LifeMove(e)
  BY <1>17, SameLife DEF WatchdogFires, TypeOK, batchVars, callVars
<1>18. ASSUME NEW f \in Env, Drained(f) PROVE LifeMove(e)
  <2>1. UNCHANGED <<batchVars, restartCount, armed>>
    BY <1>18 DEF Drained
  <2>2. recovery'[e] = recovery[e] \/ (recovery[e] = "draining" /\ recovery'[e] = "killing")
    <3>1. recovery' = [recovery EXCEPT ![f] = "killing"] /\ recovery[f] = "draining"
      BY <1>18 DEF Drained
    <3> QED BY <3>1 DEF TypeOK
  <2>3. pending'[e] = "initialize" => pending[e] = "initialize"
    BY <1>18 DEF Drained, ClosedPending, TypeOK
  <2> QED BY <2>1, <2>2, <2>3, SameLife DEF batchVars
<1>19. ASSUME NEW f \in Env, FailedWorkerGone(f) PROVE LifeMove(e)
  <2>1. UNCHANGED <<batch, armed, pending>>
    BY <1>19 DEF FailedWorkerGone
  <2>2. CASE e # f
    <3>1. UNCHANGED <<restartCount[e], disposal[e], recovery[e]>>
      BY <1>19, <2>2 DEF FailedWorkerGone, Fault, RecoveryEnds, TypeOK
    <3> QED BY <2>1, <3>1, SameLife
  <2>3. CASE e = f /\ Fault(f) /\ UNCHANGED restartCount
    BY <1>19, <2>1, <2>3
       DEF LifeMove, Early, Ended, Creating, FailedWorkerGone, Fault, RecoveryEnds, TypeOK
  <2>4. CASE /\ e = f /\ ~BudgetSpent(f)
             /\ restartCount' = [restartCount EXCEPT ![f] = restartCount[f] + 1]
             /\ recovery' = [recovery EXCEPT ![f] = "revalidating"]
             /\ UNCHANGED disposal
    <3>1. restartCount'[e] = restartCount[e] + 1 /\ recovery'[e] = "revalidating" /\ disposal' = disposal
      BY <2>4 DEF TypeOK
    <3>2. ~shuttingDown
      BY <2>4 DEF BudgetSpent
    <3>3. recovery[e] = "killing"
      BY <1>19, <2>4 DEF FailedWorkerGone
    <3> QED BY <2>1, <3>1, <3>2, <3>3 DEF LifeMove, Early, Ended, Creating
  <2> QED BY <1>19, <2>2, <2>3, <2>4 DEF FailedWorkerGone
<1>20. ASSUME NEW f \in Env, Respawn(f) PROVE LifeMove(e)
  BY <1>20, SameLife DEF Respawn, TypeOK, batchVars, envVars
<1>21. ASSUME NEW f \in Env, RespawnFails(f) PROVE LifeMove(e)
  BY <1>21 DEF LifeMove, Busy, Early, Ended, shuttingDown, Creating, Share, TypeOK,
     RecoveryPhase, RespawnFails, Fault, RecoveryEnds, batchVars, envVars, workerVars, callVars
<1>22. ASSUME NEW f \in Env, Replaced(f) PROVE LifeMove(e)
  BY <1>22 DEF LifeMove, Busy, Early, Ended, shuttingDown, Creating, Share, TypeOK,
     RecoveryPhase, Replaced, RecoveryEnds, SessionTo, batchVars, envVars, workerVars, callVars
<1>23. ASSUME NEW f \in Env, ReplacementFails(f) PROVE LifeMove(e)
  BY <1>23, SameLife DEF ReplacementFails, TypeOK, batchVars
<1>24. ASSUME NEW f \in Env, FailedReplacementGone(f) PROVE LifeMove(e)
  BY <1>24 DEF LifeMove, Busy, Early, Ended, shuttingDown, Creating, Share, TypeOK,
     RecoveryPhase, FailedReplacementGone, RecoveryEnds, batchVars, envVars, workerVars, callVars
<1>25. ASSUME NEW f \in Env, CloseAnswered(f) PROVE LifeMove(e)
  BY <1>25 DEF LifeMove, Busy, Early, Ended, shuttingDown, Creating, Share, TypeOK,
     RecoveryPhase, CloseAnswered, batchVars, envVars, workerVars, callVars
<1>26. ASSUME NEW f \in Env, Spawn(f) PROVE LifeMove(e)
  BY <1>26 DEF LifeMove, Busy, Early, Ended, shuttingDown, Creating, Share, TypeOK,
     RecoveryPhase, Spawn, NewWorker, SessionTo, batchVars, envVars, workerVars, callVars
<1>27. ASSUME NEW f \in Env, Initialized(f) PROVE LifeMove(e)
  BY <1>27 DEF LifeMove, Busy, Early, Ended, shuttingDown, Creating, Share, TypeOK,
     RecoveryPhase, Initialized, SessionTo, batchVars, envVars, workerVars, callVars
<1>28. ASSUME NEW f \in Env, InitializeFails(f) PROVE LifeMove(e)
  BY <1>28 DEF LifeMove, Busy, Early, Ended, shuttingDown, Creating, Share, TypeOK,
     RecoveryPhase, InitializeFails, batchVars, envVars, workerVars, callVars
<1>29. ASSUME NEW f \in Env, DisposeWorkers(f) PROVE LifeMove(e)
  BY <1>29 DEF LifeMove, Busy, Early, Ended, shuttingDown, Creating, Share, TypeOK,
     RecoveryPhase, DisposeWorkers, ClosedPending, batchVars, envVars, workerVars, callVars
<1>30. ASSUME NEW f \in Env, Disposed(f) PROVE LifeMove(e)
  BY <1>30 DEF LifeMove, Busy, Early, Ended, shuttingDown, Creating, Share, TypeOK,
     RecoveryPhase, Disposed, batchVars, envVars, workerVars, callVars
<1>31. ASSUME SpawnFails PROVE LifeMove(e)
  BY <1>31 DEF LifeMove, Busy, Early, Ended, shuttingDown, Creating, Share, TypeOK,
     RecoveryPhase, SpawnFails, batchVars, envVars, workerVars, callVars
<1>32. ASSUME InitializeAll PROVE LifeMove(e)
  BY <1>32 DEF LifeMove, Busy, Early, Ended, shuttingDown, Creating, Share, TypeOK,
     RecoveryPhase, InitializeAll, batchVars, envVars, workerVars, callVars
<1>33. ASSUME CreateCompletes PROVE LifeMove(e)
  BY <1>33 DEF LifeMove, Busy, Early, Ended, shuttingDown, Creating, Share, TypeOK,
     RecoveryPhase, CreateCompletes, batchVars, envVars, workerVars, callVars, AllInitialized
<1>34. ASSUME CleanupWorkers PROVE LifeMove(e)
  BY <1>34 DEF LifeMove, Busy, Early, Ended, shuttingDown, Creating, Share, TypeOK,
     RecoveryPhase, CleanupWorkers, CloseAllLive, ClosedPending, batchVars, envVars, workerVars,
     callVars
<1>35. ASSUME CreateFails PROVE LifeMove(e)
  BY <1>35 DEF LifeMove, Busy, Early, Ended, shuttingDown, Creating, Share, TypeOK,
     RecoveryPhase, CreateFails, batchVars, envVars, workerVars, callVars
<1>36. ASSUME CloseFinalizes PROVE LifeMove(e)
  BY <1>36 DEF LifeMove, Busy, Early, Ended, shuttingDown, Creating, Share, TypeOK,
     RecoveryPhase, CloseFinalizes, FinalizeStarts, batchVars, envVars, workerVars, callVars
<1>37. ASSUME CloseDisposes PROVE LifeMove(e)
  BY <1>37 DEF LifeMove, Busy, Early, Ended, shuttingDown, Creating, Share, TypeOK,
     RecoveryPhase, CloseDisposes, Dispose, workerVars
<1>38. ASSUME CloseFinalized PROVE LifeMove(e)
  BY <1>38 DEF LifeMove, Busy, Early, Ended, shuttingDown, Creating, Share, TypeOK,
     RecoveryPhase, CloseFinalized, Dispose, workerVars
<1>39. ASSUME BatchCloses PROVE LifeMove(e)
  BY <1>39 DEF LifeMove, Busy, Early, Ended, shuttingDown, Creating, Share, TypeOK,
     RecoveryPhase, BatchCloses, batchVars, envVars, workerVars, callVars
<1>40. ASSUME BeginShutdown PROVE LifeMove(e)
  BY <1>40 DEF LifeMove, Busy, Early, Ended, shuttingDown, Creating, Share, TypeOK,
     RecoveryPhase, BeginShutdown, batchVars, envVars, workerVars, callVars
<1>41. ASSUME ShutdownWorkers PROVE LifeMove(e)
  BY <1>41 DEF LifeMove, Busy, Early, Ended, shuttingDown, Creating, Share, TypeOK,
     RecoveryPhase, ShutdownWorkers, CloseAllLive, ClosedPending, batchVars, envVars, workerVars,
     callVars
<1>42. ASSUME ShutdownEnds PROVE LifeMove(e)
  BY <1>42 DEF LifeMove, Busy, Early, Ended, shuttingDown, Creating, Share, TypeOK,
     RecoveryPhase, ShutdownEnds, batchVars, envVars, workerVars, callVars
<1>43. ASSUME Terminated PROVE LifeMove(e)
  BY <1>43 DEF LifeMove, Busy, Early, Ended, shuttingDown, Creating, Share, TypeOK,
     RecoveryPhase, Terminated, vars, batchVars, envVars, workerVars, callVars
<1>44. CASE UNCHANGED vars
  BY <1>44 DEF LifeMove, Busy, Early, Ended, shuttingDown, Creating, Share, TypeOK,
     RecoveryPhase, vars, batchVars, envVars, workerVars, callVars
<1> QED BY <1>1, <1>2, <1>3, <1>4, <1>5, <1>6, <1>7, <1>8, <1>9, <1>10, <1>11, <1>12, <1>13,
   <1>14, <1>15, <1>16, <1>17, <1>18, <1>19, <1>20, <1>21, <1>22, <1>23, <1>24, <1>25, <1>26,
   <1>27, <1>28, <1>29, <1>30, <1>31, <1>32, <1>33, <1>34, <1>35, <1>36, <1>37, <1>38, <1>39,
   <1>40, <1>41, <1>42, <1>43, <1>44
   DEF Next, Command, Creation, Closing, Shutdown

\* What a recovery can still do to a share of _closeBatch that has begun.
Left(e) == Ended /\ disposal[e] \in {"disposing", "closing", "done"}
LateRecovery(e) ==
    /\ ~shuttingDown /\ recovery[e] = "none" /\ state[e] \notin {"closing", "faulted"}
          => restartCount[e] >= 1
    /\ recovery[e] \in {"draining", "killing"} => shuttingDown \/ restartCount[e] >= 1
    /\ recovery[e] \in {"revalidating", "initializing"} => PutBack(e)
    /\ recovery[e] = "killing" => state[e] # "closing"
    /\ disposal[e] = "closing" /\ ~(Live(e) \subseteq snapshot[e]) => PutBack(e)
    /\ disposal[e] = "done" /\ Live(e) # {} => PutBack(e)
\* What a recovery does around the disposal of a batch.
EndInv ==
    \A e \in Env :
        /\ ~Early => ~Creating(e)
        /\ Ended /\ ~shuttingDown => ~armed[e]
        /\ disposal[e] = "waiting" => recovery[e] # "none"
        /\ recovery[e] \in {"revalidating", "initializing", "discarding"}
              => restartCount[e] >= 1
        /\ Ended => disposal[e] # "none"
        /\ Left(e) => LateRecovery(e)

LEMMA EndInvBasics ==
    ASSUME TypeOK, LiveInv, ThreadsFollowCalls, DisposalInv, CallsAlone, EndInv, [Next]_vars,
           NEW e \in Env
    PROVE  /\ ~Early' => ~Creating(e)'
           /\ Ended' /\ ~shuttingDown' => ~armed'[e]
           /\ disposal'[e] = "waiting" => recovery'[e] # "none"
           /\ recovery'[e] \in {"revalidating", "initializing", "discarding"}
                 => restartCount'[e] >= 1
           /\ Ended' => disposal'[e] # "none"
<1>1. LifeMove(e) /\ PhaseStep(e) /\ DisposalStep(e) /\ CallMove
  BY LifeMoves, EnvSteps, PhaseSteps, DisposalSteps, CallMoves
<1>2. restartCount[e] \in Nat
  BY SupervisorAssumption DEF TypeOK
<1>3. ~Early' => ~Creating(e)'
  BY <1>1 DEF LifeMove, EndInv, Early
<1>4. Ended' /\ ~shuttingDown' => ~armed'[e]
  BY <1>1 DEF LifeMove, EndInv, CallMove, CallsAlone
<1>5. disposal'[e] = "waiting" => recovery'[e] # "none"
  BY <1>1 DEF LifeMove, EndInv
<1>6. recovery'[e] \in {"revalidating", "initializing", "discarding"} => restartCount'[e] >= 1
  BY <1>1, <1>2 DEF LifeMove, EndInv, PhaseStep
<1>7. Ended' => disposal'[e] # "none"
  <2>1. CASE Ended
    BY <1>1, <2>1 DEF DisposalStep, EndInv
  <2>2. CASE ~Ended
    BY <1>1, <2>2 DEF LifeMove, Share
  <2> QED BY <2>1, <2>2
<1> QED BY <1>3, <1>4, <1>5, <1>6, <1>7

\* In an environment whose share of _closeBatch no longer waits, nothing begins a
\* recovery that forks, but the exit of a worker in one that was put back.
LEMMA LateRecoveryNext ==
    ASSUME TypeOK, LiveInv, ThreadsFollowCalls, DisposalInv, CallsAlone, EndInv, [Next]_vars,
           NEW e \in Env, Left(e)'
    PROVE  LateRecovery(e)'
<1>1. LifeMove(e) /\ PhaseStep(e) /\ DisposalStep(e) /\ CallMove
  BY LifeMoves, EnvSteps, PhaseSteps, DisposalSteps, CallMoves
<1>2. restartCount[e] \in Nat /\ restartCount'[e] \in Nat /\ restartCount'[e] >= restartCount[e]
  BY <1>1, SupervisorAssumption DEF TypeOK, LifeMove
<1>3. Ended' /\ disposal'[e] \in {"disposing", "closing", "done"}
  BY DEF Left, Ended
<1>4. CASE ~Ended
  <2>1. state'[e] = "closing" /\ recovery'[e] = "none" /\ disposal'[e] = "disposing"
    BY <1>1, <1>3, <1>4 DEF LifeMove, Share
  <2> QED BY <2>1 DEF LateRecovery
<1>5. CASE Ended /\ disposal[e] = "waiting"
  <2>1. disposal'[e] = "disposing" /\ recovery'[e] = "none" /\ recovery[e] # "none"
    BY <1>1, <1>3, <1>5 DEF LifeMove, EndInv
  <2>2. state'[e] \in {"closing", "faulted"} \/ restartCount'[e] >= 1
    BY <1>1, <1>2, <2>1 DEF PhaseStep, EndInv
  <2> QED BY <2>1, <2>2 DEF LateRecovery
<1>6. CASE Left(e)
  <2>1. LateRecovery(e) /\ Ended
    BY <1>6 DEF EndInv, Left
  <2>2. ~shuttingDown' => ~shuttingDown /\ ~Busy /\ ~armed[e] /\ pending[e] \notin Actor
    <3>1. ~shuttingDown' => ~shuttingDown /\ ~Busy /\ ~armed[e]
      BY <1>1, <2>1 DEF CallMove, CallsAlone, EndInv
    <3>2. pending[e] \in Actor => Busy
      BY DEF ThreadsFollowCalls, Busy
    <3> QED BY <3>1, <3>2
  <2>3. ~Creating(e) /\ ~Disposes(e)
    BY <2>1 DEF EndInv, Early, Ended, Disposes
  <2>4. state'[e] = "closing" => state[e] = "closing"
    BY <1>1, <2>3 DEF PhaseStep
  <2>5. PutBack(e) => PutBack(e)'
    BY <1>2, <2>4 DEF PutBack
  <2>6. ~shuttingDown' /\ recovery'[e] = "none" /\ state'[e] \notin {"closing", "faulted"}
          => restartCount'[e] >= 1
    BY <1>1, <1>2, <2>1, <2>2, <2>3 DEF PhaseStep, LateRecovery, EndInv
  <2>7. recovery'[e] \in {"draining", "killing"} => shuttingDown' \/ restartCount'[e] >= 1
    <3>1. CASE recovery[e] \in {"draining", "killing"}
      BY <1>1, <1>2, <2>1, <3>1 DEF CallMove, LateRecovery
    <3>2. CASE recovery[e] = "none" /\ recovery'[e] = "draining"
      BY <1>1, <1>2, <2>1, <2>2, <3>2 DEF LifeMove, LateRecovery
    <3> QED BY <1>1, <3>1, <3>2 DEF PhaseStep
  <2>8. recovery'[e] \in {"revalidating", "initializing"} => PutBack(e)'
    <3>1. CASE recovery[e] \in {"revalidating", "initializing"}
      BY <2>1, <2>5, <3>1 DEF LateRecovery
    <3>2. CASE recovery[e] = "killing" /\ recovery'[e] = "revalidating"
      <4>1. restartCount'[e] = restartCount[e] + 1 /\ ~shuttingDown /\ state'[e] = state[e]
        BY <1>1, <3>2 DEF LifeMove, PhaseStep
      <4>2. restartCount[e] >= 1 /\ state[e] # "closing"
        BY <2>1, <3>2, <4>1 DEF LateRecovery
      <4> QED BY <1>2, <4>1, <4>2 DEF PutBack
    <3> QED BY <1>1, <3>1, <3>2 DEF PhaseStep
  <2>9. recovery'[e] = "killing" => state'[e] # "closing"
    BY <1>1, <2>1, <2>4 DEF PhaseStep, LateRecovery
  <2>10. Live(e)' \subseteq Live(e) \/ PutBack(e)
    BY <2>1, LiveGrows DEF LateRecovery, Ended
  <2>11. disposal'[e] = "closing" /\ ~(Live(e)' \subseteq snapshot'[e]) => PutBack(e)'
    <3>1. CASE disposal[e] = "closing" /\ snapshot'[e] = snapshot[e]
      BY <2>1, <2>5, <2>10, <3>1 DEF LateRecovery
    <3>2. CASE disposal[e] # "closing" \/ snapshot'[e] # snapshot[e]
      <4>1. batch \notin {"failed", "closed"} \/ disposal[e] = "done"
        BY DEF DisposalInv
      <4>2. disposal'[e] = "closing" => snapshot'[e] = Live(e)
        BY <1>1, <3>2, <4>1 DEF DisposalStep
      <4> QED BY <2>5, <2>10, <4>2
    <3> QED BY <3>1, <3>2
  <2>12. disposal'[e] = "done" /\ Live(e)' # {} => PutBack(e)'
    <3>1. CASE disposal[e] = "done"
      BY <2>1, <2>5, <2>10, <3>1 DEF LateRecovery
    <3>2. CASE disposal[e] # "done"
      <4>1. disposal'[e] = "done" => disposal[e] = "closing" /\ snapshot[e] \cap Live(e) = {}
        BY <1>1, <3>2 DEF DisposalStep
      <4>2. CASE Live(e) = {}
        BY <2>5, <2>10, <4>2
      <4>3. CASE Live(e) # {}
        BY <2>1, <2>5, <4>1, <4>3 DEF LateRecovery
      <4> QED BY <4>2, <4>3
    <3> QED BY <3>1, <3>2
  <2> QED BY <2>6, <2>7, <2>8, <2>9, <2>11, <2>12 DEF LateRecovery
<1>7. Ended => Left(e) \/ disposal[e] = "waiting"
  BY DEF EndInv, Left, TypeOK
<1> QED BY <1>4, <1>5, <1>6, <1>7

LEMMA EndInvNext ==
    ASSUME TypeOK, LiveInv, ThreadsFollowCalls, DisposalInv, CallsAlone, EndInv, [Next]_vars
    PROVE  EndInv'
BY EndInvBasics, LateRecoveryNext DEF EndInv

ClosingInv == CallsAlone /\ EndInv

LEMMA ClosingInvInit == Init => ClosingInv
BY SupervisorAssumption
   DEF Init, ClosingInv, CallsAlone, EndInv, Busy, Early, Ended, Creating, Left, Actor

\* Without overlapping calls, a batch that is being closed has no caller left that
\* could begin a recovery.
LEMMA ClosingInvariant == ASSUME ~Overlapping PROVE Spec => []ClosingInv
<1>1. TypeOK /\ SupervisorInv /\ DisposalInv /\ ClosingInv /\ [Next]_vars => ClosingInv'
  BY CallsAloneNext, EndInvNext DEF ClosingInv, SupervisorInv
<1> QED BY <1>1, ClosingInvInit, TypeCorrect, SupervisorInvariant, DisposalInvariant, PTL DEF Spec

\* "CloseBatch always disposes every worker": for clients that wait for their
\* answers, a closed batch has no worker but the second replacement in an
\* environment that the end of a recovery has put back to prepared (_closeBatch
\* awaits the recoveries it finds, and reads the workers once).
THEOREM ClosedBatches == ASSUME ~Overlapping PROVE Spec => []ClosedBatchHasNoWorker
<1>1. DisposalInv /\ ClosingInv => ClosedBatchHasNoWorker
  BY DEF DisposalInv, ClosingInv, EndInv, Ended, Left, LateRecovery, ClosedBatchHasNoWorker
<1> QED BY <1>1, DisposalInvariant, ClosingInvariant, PTL

-----------------------------------------------------------------------------
(***************************************************************************)
(* Closing the supervisor.                                                 *)
(***************************************************************************)

\* A creation in which nothing fails has its workers running until a shutdown
\* stops it, and then its cleanup finds no recovery that forks another one.
CreationInv ==
    \A e \in Env : Early =>
        /\ recovery[e] = "none" /\ ~armed[e]
        /\ batch = "spawning" => /\ state[e] = "preparing" /\ pending[e] = "idle"
                                 /\ worker[e] = NoWorker \/ CurrentRunning(e)
        /\ batch = "initializing" => CurrentRunning(e) /\ pending[e] # "close"
        /\ batch \in {"cleanup", "failed"} => shuttingDown
        /\ batch = "failed" \/ disposal[e] = "done" => Live(e) = {}
        /\ disposal[e] = "closing" => Live(e) \subseteq snapshot[e]

\* What a step does to environment e in a creation in which no worker fails.
CreationMove(e) ==
    /\ recovery'[e] = recovery[e]
    /\ batch = "spawning" =>
          /\ state'[e] = state[e]
          /\ \/ /\ batch' = "spawning" /\ pending'[e] = pending[e]
                /\ UNCHANGED <<worker[e], proc[e]>> \/ CurrentRunning(e)'
             \/ /\ batch' = "initializing" /\ pending'[e] = "initialize"
                /\ CurrentRunning(e) /\ UNCHANGED <<worker[e], proc[e]>>
    /\ batch = "initializing" =>
          /\ UNCHANGED <<worker[e], proc[e]>> /\ pending'[e] # "close"
          /\ batch' \in {"initializing", "open"} \/ (batch' = "cleanup" /\ shuttingDown)
    /\ batch \in {"cleanup", "failed"} => batch' \in {"cleanup", "failed"}

LEMMA SameCreation ==
    ASSUME NEW e \in Env, CreationInv, Early,
           UNCHANGED <<batch, recovery[e], worker[e], proc[e]>>,
           batch = "spawning" => state'[e] = state[e] /\ pending'[e] = pending[e],
           pending'[e] = "close" => pending[e] = "close" \/ batch \in {"cleanup", "failed"}
    PROVE  CreationMove(e)
BY DEF CreationMove, CreationInv

\* Until the batch is open nothing begins a recovery, and what ends its creation
\* is a shutdown.
LEMMA CreationMoves ==
    ASSUME TypeOK, LiveInv, ThreadsFollowCalls, DisposalInv, CreationInv, Early, ~Busy,
           "create" \notin Faults, [Next]_vars, NEW e \in Env
    PROVE  CreationMove(e)
<1> USE SupervisorAssumption
<1>1. ASSUME NEW d \in Call, NEW S \in SUBSET Env, ResetBatch(d, S) PROVE CreationMove(e)
  BY <1>1 DEF MayStart, Early, ResetBatch
<1>2. ASSUME NEW d \in Call, NEW S \in SUBSET Env, FinalizeBatch(d, S) PROVE CreationMove(e)
  BY <1>2 DEF MayStart, Early, FinalizeBatch
<1>3. ASSUME NEW d \in Call, NEW late \in SUBSET Env, StepBatch(d, late) PROVE CreationMove(e)
  BY <1>3 DEF MayStart, Early, StepBatch
<1>4. ASSUME NEW d \in Call, Return(d) PROVE CreationMove(e)
  BY <1>4 DEF Return, Busy, Actor
<1>5. ASSUME NEW d \in Actor, NEW f \in Env, Dispatch(d, f) PROVE CreationMove(e)
  BY <1>5, BusyThread DEF Dispatch
<1>6. ASSUME NEW d \in Actor, NEW f \in Env, CatchInfrastructure(d, f) PROVE CreationMove(e)
  BY <1>6, BusyThread DEF CatchInfrastructure
<1>7. ASSUME NEW d \in Actor, NEW f \in Env, ResetAnswered(d, f) PROVE CreationMove(e)
  BY <1>7 DEF ResetAnswered, Answering, Busy
<1>8. ASSUME NEW d \in Actor, NEW f \in Env, StepAnswered(d, f) PROVE CreationMove(e)
  BY <1>8 DEF StepAnswered, Answering, Busy
<1>9. ASSUME NEW d \in Actor, NEW f \in Env, FinalizeAnswered(d, f) PROVE CreationMove(e)
  BY <1>9 DEF FinalizeAnswered, Answering, Busy
<1>10. ASSUME NEW d \in Actor, NEW f \in Env, Rejected(d, f) PROVE CreationMove(e)
  BY <1>10 DEF Rejected, Answering, Busy
<1>11. ASSUME NEW d \in Actor, NEW f \in Env, CommandFails(d, f) PROVE CreationMove(e)
  BY <1>11 DEF CommandFails, Answering, Busy
<1>12. ASSUME NEW d \in Actor, NEW f \in Env, PluginFails(d, f) PROVE CreationMove(e)
  BY <1>12 DEF PluginFails, Answering, Busy
<1>13. ASSUME NEW d \in Actor, NEW f \in Env, Uncertain(d, f) PROVE CreationMove(e)
  BY <1>13 DEF Uncertain, ThreadsFollowCalls, Busy
<1>14. ASSUME NEW d \in Actor, NEW f \in Env, Publish(d, f) PROVE CreationMove(e)
  BY <1>14, BusyThread DEF Publish
<1>15. ASSUME NEW f \in Env, NEW w \in Gen, Exit(f, w) PROVE CreationMove(e)
  <2>1. w = worker[f] /\ Live(f) # {} /\ proc[f][w] \in {"running", "killed"}
    BY <1>15 DEF Exit, LiveInv, LiveIsCurrent, Live
  <2>2. batch \notin {"spawning", "initializing"}
    <3>1. proc[f][w] = "killed"  \/ "create" \in Faults \/ batch \notin {"spawning", "initializing"}
      BY <1>15 DEF Exit, MayFail
    <3>2. batch \in {"spawning", "initializing"} => CurrentRunning(f)
      BY <2>1 DEF CreationInv, Early, LiveInv, LiveIsCurrent, Live, NoWorker, Gen
    <3> QED BY <2>1, <3>1, <3>2 DEF CurrentRunning
  <2>3. shuttingDown /\ batch \in {"cleanup", "failed"}
    BY <2>2 DEF CreationInv, Early
  <2>4. recovery' = recovery /\ batch' = batch
    BY <1>15, <2>3 DEF Exit, ExitExpected, CreationInv, Early
  <2> QED BY <2>3, <2>4 DEF CreationMove
<1>16. ASSUME NEW f \in Env, HealthBreach(f) PROVE CreationMove(e)
  <2>1. batch \in {"spawning", "initializing", "cleanup"} => FALSE
    BY <1>16 DEF HealthBreach, MayFail
  <2>2. batch = "failed" => FALSE
    BY <1>16 DEF HealthBreach, CurrentLive, CreationInv, Early
  <2> QED BY <2>1, <2>2 DEF Early
<1>17. ASSUME NEW f \in Env, WatchdogFires(f) PROVE CreationMove(e)
  BY <1>17 DEF WatchdogFires, CreationInv
<1>18. ASSUME NEW f \in Env, Drained(f) PROVE CreationMove(e)
  BY <1>18 DEF Drained, CreationInv
<1>19. ASSUME NEW f \in Env, FailedWorkerGone(f) PROVE CreationMove(e)
  BY <1>19 DEF FailedWorkerGone, CreationInv
<1>20. ASSUME NEW f \in Env, Respawn(f) PROVE CreationMove(e)
  BY <1>20 DEF Respawn, CreationInv
<1>21. ASSUME NEW f \in Env, RespawnFails(f) PROVE CreationMove(e)
  BY <1>21 DEF RespawnFails, CreationInv
<1>22. ASSUME NEW f \in Env, Replaced(f) PROVE CreationMove(e)
  BY <1>22 DEF Replaced, CreationInv
<1>23. ASSUME NEW f \in Env, ReplacementFails(f) PROVE CreationMove(e)
  BY <1>23 DEF ReplacementFails, CreationInv
<1>24. ASSUME NEW f \in Env, FailedReplacementGone(f) PROVE CreationMove(e)
  BY <1>24 DEF FailedReplacementGone, CreationInv
<1>25. ASSUME NEW f \in Env, CloseAnswered(f) PROVE CreationMove(e)
  <2>1. batch \in {"cleanup", "failed"}
    BY <1>25 DEF CloseAnswered, CreationInv, Early
  <2> QED BY <1>25, <2>1 DEF CreationMove, CloseAnswered, batchVars
<1>26. ASSUME NEW f \in Env, Spawn(f) PROVE CreationMove(e)
  <2>1. /\ batch = "spawning" /\ UNCHANGED <<batch, state, recovery, pending>>
    BY <1>26 DEF Spawn, batchVars, envVars
  <2>2. CASE e = f
    <3>1. restartCount[f] + 1 \in Gen /\ restartCount[f] + 1 # NoWorker
      BY DEF TypeOK, Gen, NoWorker
    <3>2. worker'[f] = restartCount[f] + 1 /\ proc'[f][restartCount[f] + 1] = "running"
      BY <1>26, <3>1 DEF Spawn, NewWorker, TypeOK
    <3> QED BY <2>1, <2>2, <3>1, <3>2 DEF CreationMove, CurrentRunning
  <2>3. CASE e # f
    <3>1. UNCHANGED <<worker[e], proc[e]>>
      BY <1>26, <2>3 DEF Spawn, NewWorker, TypeOK
    <3> QED BY <2>1, <3>1, SameCreation
  <2> QED BY <2>2, <2>3
<1>27. ASSUME NEW f \in Env, Initialized(f) PROVE CreationMove(e)
  <2>1. batch # "spawning"
    BY <1>27 DEF Initialized, Creating, CreationInv, Early
  <2>2. UNCHANGED <<batch, recovery, worker, proc>>
    BY <1>27 DEF Initialized, batchVars
  <2>3. pending'[e] = "close" => pending[e] = "close"
    BY <1>27 DEF Initialized, TypeOK
  <2> QED BY <2>1, <2>2, <2>3, SameCreation
<1>28. ASSUME NEW f \in Env, InitializeFails(f) PROVE CreationMove(e)
  BY <1>28 DEF InitializeFails
<1>29. ASSUME NEW f \in Env, DisposeWorkers(f) PROVE CreationMove(e)
  <2>1. batch \in {"cleanup", "failed"}
    BY <1>29 DEF DisposeWorkers, DisposalInv, Ending, Early
  <2> QED BY <1>29, <2>1 DEF CreationMove, DisposeWorkers
<1>30. ASSUME NEW f \in Env, Disposed(f) PROVE CreationMove(e)
  BY <1>30, SameCreation DEF Disposed, envVars, workerVars
<1>31. ASSUME SpawnFails PROVE CreationMove(e)
  BY <1>31 DEF SpawnFails
<1>32. ASSUME InitializeAll PROVE CreationMove(e)
  <2>1. UNCHANGED <<state, recovery, worker, proc>> /\ batch = "spawning"
    BY <1>32 DEF InitializeAll, envVars
  <2>2. ASSUME NEW f \in Env
        PROVE  /\ CurrentRunning(f) /\ CurrentLive(f) /\ pending[f] = "idle"
               /\ proc[f][worker[f]] = "running"
    <3>1. CurrentRunning(f) /\ pending[f] = "idle"
      BY <1>32, <2>1 DEF InitializeAll, AllSpawned, CreationInv, Early
    <3> QED BY <3>1 DEF CurrentRunning, CurrentLive, Live, TypeOK
  <2>3. batch' = "initializing" /\ pending'[e] = "initialize"
    BY <1>32, <2>2 DEF InitializeAll
  <2> QED BY <2>1, <2>2, <2>3 DEF CreationMove
<1>33. ASSUME CreateCompletes PROVE CreationMove(e)
  <2>1. batch = "initializing" /\ (batch' = "open" \/ (batch' = "cleanup" /\ shuttingDown))
    BY <1>33 DEF CreateCompletes
  <2>2. UNCHANGED <<pending, recovery, worker, proc>>
    BY <1>33 DEF CreateCompletes, workerVars
  <2> QED BY <2>1, <2>2 DEF CreationMove, CreationInv, Early
<1>34. ASSUME CleanupWorkers PROVE CreationMove(e)
  BY <1>34 DEF CreationMove, CleanupWorkers
<1>35. ASSUME CreateFails PROVE CreationMove(e)
  BY <1>35 DEF CreationMove, CreateFails, workerVars
<1>36. ASSUME CloseFinalizes PROVE CreationMove(e)
  BY <1>36 DEF CloseFinalizes, Early
<1>37. ASSUME CloseDisposes PROVE CreationMove(e)
  BY <1>37 DEF CloseDisposes, Early
<1>38. ASSUME CloseFinalized PROVE CreationMove(e)
  BY <1>38 DEF CloseFinalized, Early
<1>39. ASSUME BatchCloses PROVE CreationMove(e)
  BY <1>39 DEF BatchCloses, Early
<1>40. ASSUME BeginShutdown PROVE CreationMove(e)
  BY <1>40, SameCreation DEF BeginShutdown, envVars, workerVars
<1>41. ASSUME ShutdownWorkers PROVE CreationMove(e)
  <2>1. batch = "failed"
    BY <1>41 DEF ShutdownWorkers, Early
  <2> QED BY <1>41, <2>1 DEF CreationMove, ShutdownWorkers
<1>42. ASSUME ShutdownEnds PROVE CreationMove(e)
  BY <1>42, SameCreation DEF ShutdownEnds, envVars, workerVars
<1>43. ASSUME Terminated PROVE CreationMove(e)
  BY <1>43, SameCreation DEF Terminated, vars, batchVars, envVars, workerVars
<1>44. CASE UNCHANGED vars
  BY <1>44, SameCreation DEF vars, batchVars, envVars, workerVars
<1> QED BY <1>1, <1>2, <1>3, <1>4, <1>5, <1>6, <1>7, <1>8, <1>9, <1>10, <1>11, <1>12, <1>13,
   <1>14, <1>15, <1>16, <1>17, <1>18, <1>19, <1>20, <1>21, <1>22, <1>23, <1>24, <1>25, <1>26,
   <1>27, <1>28, <1>29, <1>30, <1>31, <1>32, <1>33, <1>34, <1>35, <1>36, <1>37, <1>38, <1>39,
   <1>40, <1>41, <1>42, <1>43, <1>44
   DEF Next, Command, Creation, Closing, Shutdown

LEMMA CreationInvNext ==
    ASSUME TypeOK, LiveInv, ThreadsFollowCalls, DisposalInv, CallsAlone, CreationInv,
           "create" \notin Faults, [Next]_vars
    PROVE  CreationInv'
<1> SUFFICES ASSUME NEW e \in Env, Early'
             PROVE  /\ recovery'[e] = "none" /\ ~armed'[e]
                    /\ batch' = "spawning" =>
                          /\ state'[e] = "preparing" /\ pending'[e] = "idle"
                          /\ worker'[e] = NoWorker \/ CurrentRunning(e)'
                    /\ batch' = "initializing" => CurrentRunning(e)' /\ pending'[e] # "close"
                    /\ batch' \in {"cleanup", "failed"} => shuttingDown'
                    /\ batch' = "failed" \/ disposal'[e] = "done" => Live(e)' = {}
                    /\ disposal'[e] = "closing" => Live(e)' \subseteq snapshot'[e]
  BY DEF CreationInv
<1>1. LifeMove(e) /\ CallMove /\ \A f \in Env : DisposalStep(f)
  BY LifeMoves, CallMoves, DisposalSteps
<1>2. Early /\ ~Busy
  BY <1>1 DEF CallMove, CallsAlone
<1>3. CreationMove(e)
  BY <1>2, CreationMoves
<1>4. recovery'[e] = "none" /\ ~armed'[e]
  BY <1>1, <1>2, <1>3 DEF CreationInv, CreationMove, LifeMove
<1>5. batch' = "spawning" =>
        /\ state'[e] = "preparing" /\ pending'[e] = "idle"
        /\ worker'[e] = NoWorker \/ CurrentRunning(e)'
  BY <1>2, <1>3 DEF CreationInv, CreationMove, CurrentRunning, Early
<1>6. batch' = "initializing" => CurrentRunning(e)' /\ pending'[e] # "close"
  BY <1>2, <1>3 DEF CreationInv, CreationMove, CurrentRunning, Early
<1>7. batch' \in {"cleanup", "failed"} => shuttingDown'
  BY <1>1, <1>2, <1>3 DEF CreationInv, CreationMove, CallMove, Early
<1>8. batch # "spawning" => Live(e)' \subseteq Live(e)
  BY <1>2, LiveGrows DEF CreationInv
<1>9. batch = "spawning" => disposal[e] = "none"
  BY DEF DisposalInv, Ending
<1>10. batch' = "failed" \/ disposal'[e] = "done" => Live(e)' = {}
  <2>1. CASE batch = "failed" \/ disposal[e] = "done"
    BY <1>2, <1>8, <1>9, <2>1 DEF CreationInv
  <2>2. CASE batch' = "failed" /\ batch # "failed"
    <3>1. disposal[e] = "done"
      BY <1>1, <2>2 DEF DisposalStep
    <3> QED BY <2>1, <3>1
  <2>3. CASE disposal'[e] = "done" /\ disposal[e] # "done"
    <3>1. disposal[e] = "closing" /\ snapshot[e] \cap Live(e) = {}
      BY <1>1, <2>3 DEF DisposalStep
    <3> QED BY <1>2, <1>8, <1>9, <3>1 DEF CreationInv
  <2> QED BY <2>1, <2>2, <2>3
<1>11. disposal'[e] = "closing" => Live(e)' \subseteq snapshot'[e]
  <2>1. CASE disposal[e] = "closing" /\ snapshot'[e] = snapshot[e]
    BY <1>2, <1>8, <1>9, <2>1 DEF CreationInv
  <2>2. CASE batch = "failed"
    BY <1>2, <1>8, <2>2 DEF CreationInv
  <2>3. CASE disposal[e] # "closing" \/ snapshot'[e] # snapshot[e]
    <3>1. disposal'[e] = "closing" => snapshot'[e] = Live(e) \/ batch \in {"failed", "closed"}
      BY <1>1, <2>3 DEF DisposalStep
    <3>2. batch # "closed" /\ (disposal'[e] = "closing" /\ batch = "spawning" => FALSE)
      BY <1>1, <1>2, <1>9 DEF Early, DisposalStep
    <3> QED BY <1>8, <2>2, <3>1, <3>2
  <2> QED BY <2>1, <2>3
<1> QED BY <1>4, <1>5, <1>6, <1>7, <1>10, <1>11

LEMMA CreationInvInit == Init => CreationInv
BY DEF Init, CreationInv, Early, Live

\* close() of the supervisor, in the middle of a creation, of a call or of a
\* CloseBatch, leaves no worker process behind but those that CloseBatch leaves,
\* when the clients wait for their answers and creations do not fail of themselves.
THEOREM Shutdowns ==
    ASSUME ~Overlapping, "create" \notin Faults
    PROVE  Spec => []NothingSurvivesShutdown
<1>1. TypeOK /\ SupervisorInv /\ DisposalInv /\ ClosingInv /\ CreationInv /\ [Next]_vars
        => CreationInv'
  BY CreationInvNext DEF ClosingInv, SupervisorInv
<1>2. DisposalInv /\ ClosingInv /\ CreationInv => NothingSurvivesShutdown
  BY DEF DisposalInv, ClosingInv, EndInv, Ended, Left, LateRecovery, CreationInv, Early,
     NothingSurvivesShutdown
<1> QED BY <1>1, <1>2, CreationInvInit, TypeCorrect, SupervisorInvariant, DisposalInvariant,
       ClosingInvariant, PTL DEF Spec

-----------------------------------------------------------------------------
(***************************************************************************)
(* The flag requiresReset and the episode timer.                           *)
(***************************************************************************)

\* A caller is about to ask for a recovery (_recoverIfInfrastructure).
Thrown(e) == \E c \in Actor : thread[c][e].at \in {"thrown", "lateThrown"}

\* The answer of a reset begins an episode: the only step that lowers the flag
\* and the only one that starts the timer.
BeginsEpisode(e) ==
    /\ EventLoopIdle /\ pending'[e] = "idle"
    /\ \E c \in Actor : pending[e] = c /\ call[c] = "reset"
    /\ recovery'[e] = recovery[e]
    /\ ~requiresReset'[e] /\ state'[e] = "ready" /\ armed'[e]
    /\ session'[e] = [st |-> "ready", episode |-> active'[e]]

\* What a step makes of the guard of a timer that keeps running.
KeepsGuard(e) ==
    \/ UNCHANGED <<state[e], session[e], active[e]>>
    \/ /\ EventLoopIdle /\ UNCHANGED <<state[e], active[e]>>
       /\ session'[e] = [st |-> "ready", episode |-> session[e].episode]
    \/ Thrown(e)'
    \/ recovery[e] # "none" \/ Creating(e) \/ batch = "spawning"
    \/ \E c \in Actor : pending[e] = c /\ call[c] \in {"reset", "finalize"}

\* What a step does to requiresReset and to the episode timer.
FlagMove(e) ==
    /\ \/ requiresReset'[e] = requiresReset[e]
       \/ requiresReset'[e] /\ state'[e] \notin {"ready", "terminal"}
       \/ BeginsEpisode(e)
    /\ pending[e] \in Actor /\ recovery'[e] = recovery[e] /\ state'[e] # state[e]
       /\ state'[e] \in {"prepared", "finalized"} => requiresReset'[e]
    /\ recovery[e] = "draining" /\ recovery'[e] = "killing" => requiresReset'[e]
    /\ state'[e] = "ready" => state[e] = "ready" \/ BeginsEpisode(e)
    /\ armed'[e] => BeginsEpisode(e) \/ (armed[e] /\ KeepsGuard(e))
    /\ recovery[e] = "none" /\ recovery'[e] # "none" =>
          /\ ~armed'[e]
          /\ EventLoopIdle \/ Thrown(e)
          /\ pending'[e] \in Actor => armed[e] \/ Thrown(e)

\* A step that leaves the episode of e alone.
LEMMA SameFlags ==
    ASSUME NEW e \in Env,
           UNCHANGED <<requiresReset[e], state[e], session[e], active[e]>>,
           armed'[e] => armed[e],
           \/ recovery'[e] = recovery[e]
           \/ recovery[e] # "none" /\ recovery'[e] # "killing"
           \/ /\ ~armed'[e]
              /\ recovery'[e] # "killing"
              /\ EventLoopIdle \/ Thrown(e)
              /\ pending'[e] \in Actor => armed[e] \/ Thrown(e)
    PROVE  FlagMove(e)
BY DEF FlagMove, KeepsGuard

\* Without plugin failures, an episode that ends in an answer stops its timer and
\* raises the flag, or leaves both to the recovery that its caller asks for.
LEMMA FlagMoves ==
    ASSUME TypeOK, LiveInv, ThreadsFollowCalls, "plugin" \notin Faults, [Next]_vars,
           NEW e \in Env
    PROVE  FlagMove(e)
<1> USE SupervisorAssumption
<1>1. ASSUME NEW d \in Call, NEW S \in SUBSET Env, ResetBatch(d, S) PROVE FlagMove(e)
  BY <1>1, SameFlags DEF TypeOK, ResetBatch, envVars, workerVars
<1>2. ASSUME NEW d \in Call, NEW S \in SUBSET Env, FinalizeBatch(d, S) PROVE FlagMove(e)
  BY <1>2, SameFlags DEF TypeOK, FinalizeBatch, FinalizeStarts, envVars, workerVars
<1>3. ASSUME NEW d \in Call, NEW late \in SUBSET Env, StepBatch(d, late) PROVE FlagMove(e)
  BY <1>3, SameFlags DEF TypeOK, StepBatch, envVars, workerVars
<1>4. ASSUME NEW d \in Call, Return(d) PROVE FlagMove(e)
  BY <1>4, SameFlags DEF TypeOK, Return, envVars, workerVars
<1>5. ASSUME NEW d \in Actor, NEW f \in Env, Dispatch(d, f) PROVE FlagMove(e)
  BY <1>5, SameFlags DEF TypeOK, Dispatch, envVars, workerVars
<1>6. ASSUME NEW d \in Actor, NEW f \in Env, CatchInfrastructure(d, f) PROVE FlagMove(e)
  <2>1. Thrown(f)
    BY <1>6 DEF CatchInfrastructure, Thrown
  <2> QED BY <1>6, <2>1, SameFlags DEF CatchInfrastructure, Recover, TypeOK
<1>7. ASSUME NEW d \in Actor, NEW f \in Env, ResetAnswered(d, f) PROVE FlagMove(e)
  <2>1. CASE e # f
    BY <1>7, <2>1, SameFlags
       DEF TypeOK, ResetAnswered, Answering, Breach, EpisodeBegins, SessionTo, Recover,
           envVars
  <2>2. CASE e = f
    BY <1>7, <2>2
       DEF FlagMove, KeepsGuard, BeginsEpisode, Thrown, Actor, TypeOK, Thread, Session,
           ResetAnswered, Answering, Breach, EpisodeBegins, SessionTo, Recover, At, batchVars,
           envVars, workerVars, callVars
  <2> QED BY <2>1, <2>2
<1>8. ASSUME NEW d \in Actor, NEW f \in Env, StepAnswered(d, f) PROVE FlagMove(e)
  <2>1. CASE e # f
    BY <1>8, <2>1, SameFlags
       DEF TypeOK, StepAnswered, Answering, Breach, SessionSteps, SessionTo, Recover, envVars
  <2>2. CASE e = f
    <3>1. /\ EventLoopIdle /\ pending[e] = d /\ pending'[e] = "idle"
          /\ requiresReset' = requiresReset /\ active' = active
      BY <1>8, <2>2 DEF StepAnswered, Answering, Breach, TypeOK
    <3>2. PICK ends \in BOOLEAN :
            /\ SessionTo(e, IF ends THEN "terminal" ELSE "ready", session[e].episode)
            /\ \/ Breach(d, e)
               \/ /\ state' = [state EXCEPT ![e] = IF ends THEN "terminal" ELSE @]
                  /\ armed' = [armed EXCEPT ![e] = @ /\ ~ends]
                  /\ recovery' = recovery
      BY <1>8, <2>2 DEF StepAnswered
    <3>3. CASE Breach(d, e)
      <4>1. state' = state /\ Recover(e)
        BY <3>3 DEF Breach
      <4>2. \/ recovery[e] # "none" /\ recovery' = recovery /\ armed' = armed
            \/ recovery[e] = "none" /\ recovery'[e] = "draining" /\ ~armed'[e]
        BY <4>1 DEF Recover, TypeOK
      <4> QED BY <3>1, <4>1, <4>2, SupervisorAssumption DEF FlagMove, KeepsGuard, Actor
    <3>4. CASE ~Breach(d, e) /\ ends
      <4>1. state'[e] = "terminal" /\ ~armed'[e] /\ recovery' = recovery
        BY <3>2, <3>4 DEF TypeOK
      <4> QED BY <3>1, <4>1 DEF FlagMove
    <3>5. CASE ~Breach(d, e) /\ ~ends
      <4>1. state'[e] = state[e] /\ recovery' = recovery
        BY <3>2, <3>5 DEF TypeOK
      <4>2. armed'[e] => armed[e]
        BY <3>2, <3>5 DEF TypeOK
      <4>3. session'[e] = [st |-> "ready", episode |-> session[e].episode]
        BY <3>2, <3>5 DEF TypeOK, SessionTo
      <4> QED BY <3>1, <4>1, <4>2, <4>3 DEF FlagMove, KeepsGuard
    <3> QED BY <3>3, <3>4, <3>5
  <2> QED BY <2>1, <2>2
<1>9. ASSUME NEW d \in Actor, NEW f \in Env, FinalizeAnswered(d, f) PROVE FlagMove(e)
  <2>1. CASE e # f
    BY <1>9, <2>1, SameFlags
       DEF TypeOK, FinalizeAnswered, Answering, Breach, SessionTo, Recover, envVars
  <2>2. CASE e = f
    BY <1>9, <2>2
       DEF FlagMove, KeepsGuard, BeginsEpisode, Thrown, Actor, TypeOK, Thread, Session,
           FinalizeAnswered, Answering, Breach, SessionTo, Recover, At, batchVars, envVars,
           workerVars, callVars
  <2> QED BY <2>1, <2>2
<1>10. ASSUME NEW d \in Actor, NEW f \in Env, Rejected(d, f) PROVE FlagMove(e)
  <2>1. CASE e # f
    BY <1>10, <2>1, SameFlags DEF TypeOK, Rejected, Answering, envVars
  <2>2. CASE e = f
    BY <1>10, <2>2
       DEF FlagMove, KeepsGuard, BeginsEpisode, Thrown, Actor, TypeOK, Thread, Session,
           Rejected, Answering, At, batchVars, envVars, workerVars, callVars
  <2> QED BY <2>1, <2>2
<1>11. ASSUME NEW d \in Actor, NEW f \in Env, CommandFails(d, f) PROVE FlagMove(e)
  <2>1. CASE e # f
    BY <1>11, <2>1, SameFlags
       DEF TypeOK, CommandFails, Answering, ResetRequired, SessionTo, SessionSteps, envVars
  <2>2. CASE e = f
    BY <1>11, <2>2
       DEF FlagMove, KeepsGuard, BeginsEpisode, Thrown, Actor, TypeOK, Thread, Session,
           CommandFails, Answering, ResetRequired, SessionTo, SessionSteps, At, batchVars,
           envVars, workerVars, callVars
  <2> QED BY <2>1, <2>2
<1>12. ASSUME NEW d \in Actor, NEW f \in Env, PluginFails(d, f) PROVE FlagMove(e)
  BY <1>12 DEF PluginFails
<1>13. ASSUME NEW d \in Actor, NEW f \in Env, Uncertain(d, f) PROVE FlagMove(e)
  BY <1>13, SameFlags DEF Uncertain, TypeOK, envVars
<1>14. ASSUME NEW d \in Actor, NEW f \in Env, Publish(d, f) PROVE FlagMove(e)
  BY <1>14, SameFlags DEF TypeOK, Publish, envVars, workerVars
<1>15. ASSUME NEW f \in Env, NEW w \in Gen, Exit(f, w) PROVE FlagMove(e)
  <2>1. UNCHANGED <<requiresReset, session, active>> /\ EventLoopIdle
    BY <1>15 DEF Exit
  <2>2. w = worker[f]
    BY <1>15 DEF Exit, LiveInv, LiveIsCurrent
  <2>3. CASE e # f
    BY <1>15, <2>1, <2>3, SameFlags DEF Exit, Recover, TypeOK
  <2>4. CASE /\ e = f /\ armed' = armed
             /\ recovery'[e] = "discarding" /\ recovery[e] = "initializing"
             /\ state'[e] = "faulted"
    BY <2>1, <2>4 DEF FlagMove, KeepsGuard
  <2>5. CASE e = f /\ state' = state /\ (UNCHANGED <<recovery, armed>> \/ Recover(e))
    <3>1. pending'[e] = "idle"
      BY <1>15, <2>2, <2>5 DEF Exit, TypeOK
    <3> QED BY <2>1, <2>5, <3>1, SameFlags DEF Recover, TypeOK, Actor
  <2> QED BY <1>15, <2>2, <2>3, <2>4, <2>5 DEF Exit, TypeOK
<1>16. ASSUME NEW f \in Env, HealthBreach(f) PROVE FlagMove(e)
  BY <1>16, SameFlags DEF HealthBreach, Recover, TypeOK, Actor, workerVars
<1>17. ASSUME NEW f \in Env, WatchdogFires(f) PROVE FlagMove(e)
  BY <1>17, SameFlags DEF WatchdogFires, TypeOK, workerVars
<1>18. ASSUME NEW f \in Env, Drained(f) PROVE FlagMove(e)
  <2>1. CASE e # f
    BY <1>18, <2>1, SameFlags DEF Drained, Restarting, TypeOK
  <2>2. CASE e = f
    BY <1>18, <2>2 DEF FlagMove, KeepsGuard, Drained, Restarting, TypeOK
  <2> QED BY <2>1, <2>2
<1>19. ASSUME NEW f \in Env, FailedWorkerGone(f) PROVE FlagMove(e)
  <2>1. UNCHANGED <<requiresReset, session, active, armed>> /\ recovery[f] = "killing"
    BY <1>19 DEF FailedWorkerGone
  <2>2. CASE Fault(f)
    <3>1. CASE e # f
      BY <2>1, <2>2, <3>1, SameFlags DEF Fault, RecoveryEnds, TypeOK
    <3>2. CASE e = f
      BY <2>1, <2>2, <3>2 DEF FlagMove, KeepsGuard, Fault, RecoveryEnds, TypeOK
    <3> QED BY <3>1, <3>2
  <2>3. CASE recovery' = [recovery EXCEPT ![f] = "revalidating"] /\ UNCHANGED state
    BY <2>1, <2>3, SameFlags DEF TypeOK
  <2> QED BY <1>19, <2>2, <2>3 DEF FailedWorkerGone
<1>20. ASSUME NEW f \in Env, Respawn(f) PROVE FlagMove(e)
  <2>1. CASE e # f
    BY <1>20, <2>1, SameFlags DEF TypeOK, Respawn, NewWorker, SessionTo, envVars
  <2>2. CASE e = f
    BY <1>20, <2>2
       DEF FlagMove, KeepsGuard, Actor, Creating, TypeOK, Respawn, NewWorker, SessionTo,
           batchVars, envVars, workerVars, callVars
  <2> QED BY <2>1, <2>2
<1>21. ASSUME NEW f \in Env, RespawnFails(f) PROVE FlagMove(e)
  <2>1. CASE e # f
    BY <1>21, <2>1, SameFlags DEF TypeOK, RespawnFails, Fault, RecoveryEnds, envVars
  <2>2. CASE e = f
    BY <1>21, <2>2
       DEF FlagMove, KeepsGuard, Actor, Creating, TypeOK, RespawnFails, Fault, RecoveryEnds,
           batchVars, envVars, workerVars, callVars
  <2> QED BY <2>1, <2>2
<1>22. ASSUME NEW f \in Env, Replaced(f) PROVE FlagMove(e)
  <2>1. CASE e # f
    BY <1>22, <2>1, SameFlags DEF TypeOK, Replaced, RecoveryEnds, SessionTo, envVars
  <2>2. CASE e = f
    BY <1>22, <2>2
       DEF FlagMove, KeepsGuard, Actor, Creating, TypeOK, Replaced, RecoveryEnds, SessionTo,
           batchVars, envVars, workerVars, callVars
  <2> QED BY <2>1, <2>2
<1>23. ASSUME NEW f \in Env, ReplacementFails(f) PROVE FlagMove(e)
  <2>1. CASE e # f
    BY <1>23, <2>1, SameFlags DEF TypeOK, ReplacementFails, envVars
  <2>2. CASE e = f
    BY <1>23, <2>2
       DEF FlagMove, KeepsGuard, Actor, Creating, TypeOK, ReplacementFails, batchVars,
           envVars, workerVars, callVars
  <2> QED BY <2>1, <2>2
<1>24. ASSUME NEW f \in Env, FailedReplacementGone(f) PROVE FlagMove(e)
  <2>1. CASE e # f
    BY <1>24, <2>1, SameFlags DEF TypeOK, FailedReplacementGone, RecoveryEnds, envVars
  <2>2. CASE e = f
    BY <1>24, <2>2
       DEF FlagMove, KeepsGuard, Actor, Creating, TypeOK, FailedReplacementGone, RecoveryEnds,
           batchVars, envVars, workerVars, callVars
  <2> QED BY <2>1, <2>2
<1>25. ASSUME NEW f \in Env, CloseAnswered(f) PROVE FlagMove(e)
  BY <1>25, SameFlags DEF TypeOK, CloseAnswered, envVars, workerVars
<1>26. ASSUME NEW f \in Env, Spawn(f) PROVE FlagMove(e)
  <2>1. CASE e # f
    BY <1>26, <2>1, SameFlags DEF TypeOK, Spawn, NewWorker, SessionTo, envVars
  <2>2. CASE e = f
    BY <1>26, <2>2
       DEF FlagMove, KeepsGuard, Actor, Creating, TypeOK, Spawn, NewWorker, SessionTo,
           batchVars, envVars, workerVars, callVars
  <2> QED BY <2>1, <2>2
<1>27. ASSUME NEW f \in Env, Initialized(f) PROVE FlagMove(e)
  <2>1. CASE e # f
    BY <1>27, <2>1, SameFlags DEF TypeOK, Initialized, SessionTo, envVars
  <2>2. CASE e = f
    BY <1>27, <2>2
       DEF FlagMove, KeepsGuard, Actor, Creating, TypeOK, Initialized, SessionTo, batchVars,
           envVars, workerVars, callVars
  <2> QED BY <2>1, <2>2
<1>28. ASSUME NEW f \in Env, InitializeFails(f) PROVE FlagMove(e)
  BY <1>28, SameFlags DEF TypeOK, InitializeFails, envVars, workerVars
<1>29. ASSUME NEW f \in Env, DisposeWorkers(f) PROVE FlagMove(e)
  BY <1>29, SameFlags DEF TypeOK, DisposeWorkers, envVars, workerVars
<1>30. ASSUME NEW f \in Env, Disposed(f) PROVE FlagMove(e)
  BY <1>30, SameFlags DEF TypeOK, Disposed, envVars, workerVars
<1>31. ASSUME SpawnFails PROVE FlagMove(e)
  BY <1>31, SameFlags DEF TypeOK, SpawnFails, envVars, workerVars
<1>32. ASSUME InitializeAll PROVE FlagMove(e)
  BY <1>32, SameFlags DEF TypeOK, InitializeAll, envVars, workerVars
<1>33. ASSUME CreateCompletes PROVE FlagMove(e)
  BY <1>33, SameFlags DEF TypeOK, CreateCompletes, envVars, workerVars
<1>34. ASSUME CleanupWorkers PROVE FlagMove(e)
  BY <1>34, SameFlags DEF TypeOK, CleanupWorkers, envVars, workerVars
<1>35. ASSUME CreateFails PROVE FlagMove(e)
  BY <1>35, SameFlags DEF TypeOK, CreateFails, envVars, workerVars
<1>36. ASSUME CloseFinalizes PROVE FlagMove(e)
  BY <1>36, SameFlags DEF TypeOK, CloseFinalizes, FinalizeStarts, envVars, workerVars
<1>37. ASSUME CloseDisposes PROVE FlagMove(e)
  BY <1>37 DEF FlagMove, TypeOK, Dispose, workerVars, CloseDisposes
<1>38. ASSUME CloseFinalized PROVE FlagMove(e)
  BY <1>38 DEF FlagMove, TypeOK, Dispose, workerVars, CloseFinalized
<1>39. ASSUME BatchCloses PROVE FlagMove(e)
  BY <1>39, SameFlags DEF TypeOK, BatchCloses, envVars, workerVars
<1>40. ASSUME BeginShutdown PROVE FlagMove(e)
  BY <1>40, SameFlags DEF TypeOK, BeginShutdown, envVars, workerVars
<1>41. ASSUME ShutdownWorkers PROVE FlagMove(e)
  BY <1>41, SameFlags DEF TypeOK, ShutdownWorkers, envVars, workerVars
<1>42. ASSUME ShutdownEnds PROVE FlagMove(e)
  BY <1>42, SameFlags DEF TypeOK, ShutdownEnds, envVars, workerVars
<1>43. ASSUME Terminated PROVE FlagMove(e)
  BY <1>43, SameFlags DEF TypeOK, Terminated, vars, envVars, workerVars
<1>44. CASE UNCHANGED vars
  BY <1>44, SameFlags DEF TypeOK, vars, envVars, workerVars
<1> QED BY <1>1, <1>2, <1>3, <1>4, <1>5, <1>6, <1>7, <1>8, <1>9, <1>10, <1>11, <1>12, <1>13,
   <1>14, <1>15, <1>16, <1>17, <1>18, <1>19, <1>20, <1>21, <1>22, <1>23, <1>24, <1>25, <1>26,
   <1>27, <1>28, <1>29, <1>30, <1>31, <1>32, <1>33, <1>34, <1>35, <1>36, <1>37, <1>38, <1>39,
   <1>40, <1>41, <1>42, <1>43, <1>44
   DEF Next, Command, Creation, Closing, Shutdown

\* A command that _dispatch lets through meets no recovery.
ResumedAlone ==
    \A c \in Actor, e \in Env : thread[c][e].at = "resumed" => recovery[e] = "none"
\* No episode timer runs under a reset or a finalize, so that neither meets a
\* recovery that the timer began.
Disarmed ==
    \A c \in Actor, e \in Env :
        /\ call[c] \in {"reset", "finalize"}
           /\ thread[c][e].at \in {"parked", "resumed", "sent"} => ~armed[e]
        /\ call[c] = "reset" /\ thread[c][e].at = "sent" => recovery[e] = "none"
\* A timer that runs belongs to the episode the session runs, unless a caller is
\* about to ask for the recovery that stops it.
Guarded ==
    \A e \in Env : armed[e] =>
        /\ recovery[e] = "none"
        /\ \/ Thrown(e)
           \/ state[e] = "ready" /\ session[e] = [st |-> "ready", episode |-> active[e]]
\* The command that a recovery overtakes is a step.
DrainsReady ==
    \A e \in Env : batch \in {"open", "finalizing"} /\ recovery[e] = "draining"
                   /\ pending[e] \in Actor => state[e] = "ready"
\* No episode begins before the batch is open.
NothingBegun == \A e \in Env : Early => requiresReset[e] /\ ~armed[e]
\* The flag is down exactly while an episode is under way that no recovery has
\* ended yet: RequiresResetIsReported made inductive.
Lowered(e) == recovery[e] \in {"none", "draining"} /\ state[e] \in {"ready", "terminal"}
FlagIsReported ==
    \A e \in Env : Usable /\ ~shuttingDown => (requiresReset[e] <=> ~Lowered(e))
GuardInv ==
    /\ ResumedAlone /\ Disarmed /\ Guarded /\ DrainsReady /\ NothingBegun /\ FlagIsReported

\* Only the five operations of a client or of CloseBatch begin a call.
LEMMA CallsBegin ==
    ASSUME TypeOK, [Next]_vars, NEW c \in Actor, call'[c] # "idle"
    PROVE  \/ call'[c] = call[c]
           \/ \E d \in Call, S \in (SUBSET Env) \ {{}} : ResetBatch(d, S) \/ FinalizeBatch(d, S)
           \/ \E d \in Call, late \in SUBSET Env : StepBatch(d, late)
           \/ CloseFinalizes
<1>1. ASSUME NEW d \in Actor, NEW f \in Env,
             Dispatch(d, f) \/ CatchInfrastructure(d, f) \/ Publish(d, f)
      PROVE  call' = call
  BY <1>1 DEF Dispatch, CatchInfrastructure, Publish
<1>2. ASSUME NEW d \in Actor, NEW f \in Env, Command(d, f) PROVE call' = call
  BY <1>2 DEF Command, ResetAnswered, StepAnswered, FinalizeAnswered, Rejected, CommandFails,
     PluginFails, Uncertain, Answering
<1>3. ASSUME NEW f \in Env, NEW w \in Gen, Exit(f, w) PROVE call' = call
  BY <1>3 DEF Exit
<1>4. ASSUME NEW f \in Env, HealthBreach(f) \/ WatchdogFires(f) \/ Drained(f)
             \/ FailedWorkerGone(f) \/ Respawn(f) \/ RespawnFails(f) \/ Replaced(f)
             \/ ReplacementFails(f) \/ FailedReplacementGone(f) \/ CloseAnswered(f)
      PROVE  call' = call
  BY <1>4 DEF HealthBreach, WatchdogFires, Drained, FailedWorkerGone, Respawn, RespawnFails,
     Replaced, ReplacementFails, FailedReplacementGone, CloseAnswered, callVars
<1>5. ASSUME NEW f \in Env, Spawn(f) \/ Initialized(f) \/ InitializeFails(f)
             \/ DisposeWorkers(f) \/ Disposed(f)
      PROVE  call' = call
  BY <1>5 DEF Spawn, Initialized, InitializeFails, DisposeWorkers, Disposed, callVars
<1>6. CASE Creation \/ Shutdown \/ Terminated \/ BatchCloses \/ UNCHANGED vars
  BY <1>6 DEF Creation, SpawnFails, InitializeAll, CreateCompletes, CleanupWorkers, CreateFails,
     Shutdown, BeginShutdown, ShutdownWorkers, ShutdownEnds, Terminated, BatchCloses, vars, callVars
<1>7. CASE CloseDisposes \/ CloseFinalized
  BY <1>7 DEF CloseDisposes, CloseFinalized, Dispose, TypeOK
<1>8. ASSUME NEW d \in Call, Return(d) PROVE call'[c] = call[c]
  BY <1>8 DEF Return, TypeOK
<1> QED BY <1>1, <1>2, <1>3, <1>4, <1>5, <1>6, <1>7, <1>8 DEF Next, Closing

\* A new reset finds an environment between two episodes, and a new finalize
\* stops the episode timer.
LEMMA EntersDisarmed ==
    ASSUME TypeOK, ThreadsFollowCalls, [Next]_vars, NEW c \in Actor, NEW e \in Env,
           Enters(c, e), call'[c] \in {"reset", "finalize"},
           thread'[c][e].at \in {"parked", "resumed", "sent"}
    PROVE  \/ ~armed'[e]
           \/ armed'[e] = armed[e] /\ state[e] \in {"prepared", "finalized"}
<1>1. EventLoopIdle /\ call[c] = "idle"
  BY DEF Enters, ThreadsFollowCalls
<1>2. \/ \E d \in Call, S \in (SUBSET Env) \ {{}} : ResetBatch(d, S) \/ FinalizeBatch(d, S)
      \/ \E d \in Call, late \in SUBSET Env : StepBatch(d, late)
      \/ CloseFinalizes
  BY <1>1, CallsBegin DEF Enters
<1>3. ASSUME NEW d \in Call, NEW late \in SUBSET Env, StepBatch(d, late) PROVE FALSE
  BY <1>1, <1>3 DEF StepBatch, TypeOK, Actor
<1>4. ASSUME NEW d \in Call, NEW S \in SUBSET Env, ResetBatch(d, S)
      PROVE  armed'[e] = armed[e] /\ state[e] \in {"prepared", "finalized"}
  <2>1. c = d
    BY <1>1, <1>4 DEF Enters, ResetBatch, TypeOK, Actor
  <2>2. state[e] \notin {"prepared", "finalized"} => thread'[c][e] \in {Refused, NoThread}
    <3>1. thread'[c] = [f \in Env |->
             IF f \in {g \in S : state[g] \in {"prepared", "finalized"}}
             THEN Entering(f, NextEpisode(f)) ELSE IF f \in S THEN Refused ELSE NoThread]
      BY <1>4, <2>1 DEF ResetBatch, TypeOK
    <3> QED BY <3>1
  <2>3. Refused.at = "done" /\ NoThread.at = "none"
    BY DEF Refused, NoThread
  <2> QED BY <1>4, <2>2, <2>3 DEF ResetBatch
<1>5. ASSUME NEW d \in Actor, NEW S \in SUBSET Env, FinalizeStarts(d, S) PROVE ~armed'[e]
  <2>1. c = d
    BY <1>1, <1>5 DEF Enters, FinalizeStarts, TypeOK
  <2>2. ~(finalized[e] = 0 /\ state[e] \in {"ready", "terminal"} /\ e \in S)
          => thread'[c][e] \in {Refused, NoThread}
    <3>1. thread'[c] = [f \in Env |->
             IF f \in {g \in S : finalized[g] = 0 /\ state[g] \in {"ready", "terminal"}}
             THEN Entering(f, active[f]) ELSE IF f \in S THEN Refused ELSE NoThread]
      BY <1>5, <2>1 DEF FinalizeStarts, TypeOK
    <3> QED BY <3>1
  <2>3. Refused.at = "done" /\ NoThread.at = "none"
    BY DEF Refused, NoThread
  <2> QED BY <1>5, <2>2, <2>3 DEF FinalizeStarts
<1> QED BY <1>2, <1>3, <1>4, <1>5 DEF FinalizeBatch, CloseFinalizes, Actor

\* Where the one busy actor stands.
LEMMA OneShare ==
    ASSUME ThreadsFollowCalls, CallsAlone, NEW c \in Actor, NEW d \in Actor, NEW e \in Env,
           thread[c][e].at # "none", thread[d][e].at # "none"
    PROVE  c = d
BY DEF ThreadsFollowCalls, CallsAlone

LEMMA NotThrown ==
    ASSUME ThreadsFollowCalls, CallsAlone, NEW c \in Actor, NEW e \in Env,
           thread[c][e].at \in {"parked", "resumed", "sent"}
    PROVE  ~Thrown(e)
BY OneShare DEF Thrown

LEMMA ResumedAloneNext ==
    ASSUME TypeOK, LiveInv, ThreadsFollowCalls, CallsAlone, ResumedAlone, "plugin" \notin Faults,
           [Next]_vars
    PROVE  ResumedAlone'
<1> SUFFICES ASSUME NEW c \in Actor, NEW e \in Env, thread'[c][e].at = "resumed"
             PROVE  recovery'[e] = "none"
  BY DEF ResumedAlone
<1>1. ThreadStep(c, e) /\ FlagMove(e)
  BY ThreadSteps, FlagMoves
<1>2. CASE Stays(c, e) /\ thread[c][e].at = "resumed"
  <2>1. recovery[e] = "none" /\ ~Thrown(e)
    BY <1>2, NotThrown DEF ResumedAlone
  <2>2. ~EventLoopIdle
    BY <1>2 DEF EventLoopIdle, CallContinues
  <2> QED BY <1>1, <2>1, <2>2 DEF FlagMove
<1>3. CASE Enters(c, e) /\ recovery[e] = "none"
  BY <1>3 DEF Enters
<1>4. CASE Wakes(c, e)
  BY <1>4 DEF Wakes
<1> QED BY <1>1, <1>2, <1>3, <1>4, ParkedSteps

\* The answer of a reset is that of the command in flight, outside a recovery.
LEMMA BeginsAlone ==
    ASSUME ThreadsFollowCalls, CallsAlone, Disarmed, NEW e \in Env, BeginsEpisode(e)
    PROVE  /\ recovery[e] = "none" /\ recovery'[e] = "none" /\ Busy
           /\ \A c \in Actor : thread[c][e].at # "none" => pending[e] = c
<1>1. PICK d \in Actor : pending[e] = d /\ call[d] = "reset"
  BY DEF BeginsEpisode
<1>2. thread[d][e].at = "sent"
  BY <1>1 DEF ThreadsFollowCalls
<1>3. recovery[e] = "none" /\ Busy
  BY <1>1, <1>2 DEF Disarmed, Busy
<1>4. \A c \in Actor : thread[c][e].at # "none" => pending[e] = c
  BY <1>1, <1>2, OneShare
<1> QED BY <1>3, <1>4 DEF BeginsEpisode

LEMMA DisarmedNext ==
    ASSUME TypeOK, LiveInv, ThreadsFollowCalls, CallsAlone, ResumedAlone, Disarmed, Guarded,
           "plugin" \notin Faults, [Next]_vars
    PROVE  Disarmed'
<1> SUFFICES ASSUME NEW c \in Actor, NEW e \in Env, call'[c] \in {"reset", "finalize"},
                    thread'[c][e].at \in {"parked", "resumed", "sent"}
             PROVE  /\ ~armed'[e]
                    /\ call'[c] = "reset" /\ thread'[c][e].at = "sent" => recovery'[e] = "none"
  BY DEF Disarmed
<1>1. ThreadStep(c, e) /\ FlagMove(e) /\ EnvStep(e)
  BY ThreadSteps, FlagMoves, EnvSteps
<1>2. c \notin {"idle", "initialize", "close"}
  BY SupervisorAssumption DEF Actor
<1>3. CASE /\ Stays(c, e) \/ Sends(c, e) \/ Wakes(c, e)
           /\ thread[c][e].at \in {"parked", "resumed", "sent"} /\ call'[c] = call[c]
  <2>1. ~armed[e] /\ ~Thrown(e)
    BY <1>3, NotThrown DEF Disarmed
  <2>2. ~BeginsEpisode(e)
    <3>1. BeginsEpisode(e) => pending[e] = c /\ pending'[e] = "idle"
      BY <1>3, BeginsAlone DEF BeginsEpisode
    <3> QED BY <1>2, <1>3, <3>1 DEF Stays, Sends, Wakes, Kept
  <2>3. ~armed'[e]
    BY <1>1, <2>1, <2>2 DEF FlagMove
  <2>4. CASE Stays(c, e) /\ thread[c][e].at = "sent" /\ call[c] = "reset"
    <3>1. recovery[e] = "none" /\ pending'[e] = c
      BY <2>4 DEF Disarmed, Stays, Kept, ThreadsFollowCalls
    <3> QED BY <1>1, <2>1, <2>3, <3>1 DEF FlagMove
  <2>5. CASE Sends(c, e)
    <3>1. recovery'[e] = recovery[e]
      BY <1>1, <2>5, SendsIsSent DEF SendsCommand
    <3>2. recovery[e] = "none"
      BY <2>5 DEF Sends, ResumedAlone
    <3> QED BY <2>3, <3>1, <3>2
  <2>6. CASE Wakes(c, e)
    BY <2>3, <2>6 DEF Wakes
  <2>7. CASE Stays(c, e) /\ ~(thread[c][e].at = "sent" /\ call[c] = "reset")
    BY <1>3, <2>3, <2>7 DEF Stays
  <2> QED BY <1>3, <2>4, <2>5, <2>6, <2>7
<1>4. CASE Enters(c, e)
  <2>1. ~Thrown(e)
    BY <1>4 DEF Enters, EventLoopIdle, CallContinues, Thrown
  <2>2. state[e] \in {"prepared", "finalized"} => ~armed[e]
    BY <2>1 DEF Guarded
  <2>3. ~armed'[e]
    BY <1>4, <2>2, EntersDisarmed
  <2>4. thread'[c][e].at # "sent"
    BY <1>4, EntersAt
  <2> QED BY <2>3, <2>4
<1> QED BY <1>1, <1>3, <1>4, WaitingSteps

\* A caller that caught a failure asks for a recovery, which stops the timer.
LEMMA ThrownSteps ==
    ASSUME TypeOK, LiveInv, ThreadsFollowCalls, [Next]_vars, NEW e \in Env, Thrown(e),
           recovery[e] = "none"
    PROVE  Thrown(e)' \/ recovery'[e] # "none"
<1>1. PICK c \in Actor : thread[c][e].at \in {"thrown", "lateThrown"}
  BY DEF Thrown
<1>2. ThreadStep(c, e) /\ ~EventLoopIdle
  BY <1>1, ThreadSteps DEF EventLoopIdle, CallContinues
<1>3. Stays(c, e) \/ GoesOn(c, e)
  BY <1>1, <1>2, IdleCloser DEF ThreadStep, Enters, Clears, Sends, NotSent, Answered, Wakes,
     ThreadsFollowCalls
<1> QED BY <1>1, <1>3 DEF Stays, GoesOn, Thrown

\* A timer outlives no episode: whatever ends one stops it, at once or through the
\* recovery that the caller asks for in the same turn.
LEMMA GuardedNext ==
    ASSUME TypeOK, LiveInv, ThreadsFollowCalls, CallsAlone, EndInv, Disarmed, Guarded,
           NothingBegun, "plugin" \notin Faults, [Next]_vars
    PROVE  Guarded'
<1> SUFFICES ASSUME NEW e \in Env, armed'[e]
             PROVE  /\ recovery'[e] = "none"
                    /\ \/ Thrown(e)'
                       \/ /\ state'[e] = "ready"
                          /\ session'[e] = [st |-> "ready", episode |-> active'[e]]
  BY DEF Guarded
<1>1. FlagMove(e)
  BY FlagMoves
<1>2. CASE BeginsEpisode(e)
  BY <1>2, BeginsAlone DEF BeginsEpisode
<1>3. CASE armed[e] /\ KeepsGuard(e)
  <2>1. /\ recovery[e] = "none" /\ recovery'[e] = "none"
        /\ \/ Thrown(e)
           \/ state[e] = "ready" /\ session[e] = [st |-> "ready", episode |-> active[e]]
    BY <1>1, <1>3 DEF Guarded, FlagMove
  <2>2. CASE Thrown(e)
    BY <2>1, <2>2, ThrownSteps
  <2>3. CASE /\ state[e] = "ready"
             /\ session[e] = [st |-> "ready", episode |-> active[e]] /\ ~Thrown(e)
    <3>1. ~Creating(e) /\ batch # "spawning"
      BY <1>3 DEF EndInv, NothingBegun, Early
    <3>2. ASSUME NEW c \in Actor, pending[e] = c, call[c] \in {"reset", "finalize"} PROVE FALSE
      BY <1>3, <3>2 DEF Disarmed, ThreadsFollowCalls
    <3>3. \/ UNCHANGED <<state[e], session[e], active[e]>>
          \/ /\ UNCHANGED <<state[e], active[e]>>
             /\ session'[e] = [st |-> "ready", episode |-> session[e].episode]
          \/ Thrown(e)'
      BY <1>3, <2>1, <3>1, <3>2 DEF KeepsGuard
    <3> QED BY <2>1, <2>3, <3>3
  <2> QED BY <2>1, <2>2, <2>3
<1> QED BY <1>1, <1>2, <1>3 DEF FlagMove

LEMMA NothingBegunNext ==
    ASSUME TypeOK, LiveInv, ThreadsFollowCalls, CallsAlone, NothingBegun, "plugin" \notin Faults,
           [Next]_vars
    PROVE  NothingBegun'
<1> SUFFICES ASSUME NEW e \in Env, Early' PROVE requiresReset'[e] /\ ~armed'[e]
  BY DEF NothingBegun
<1>1. FlagMove(e) /\ Early
  BY FlagMoves, CallMoves DEF CallMove
<1>2. ~BeginsEpisode(e)
  BY <1>1 DEF BeginsEpisode, CallsAlone, Busy
<1> QED BY <1>1, <1>2 DEF FlagMove, NothingBegun

\* What a step makes of the state outside a change of phase.
LEMMA StateSteps ==
    ASSUME NEW e \in Env, EnvStep(e), recovery'[e] = recovery[e]
    PROVE  \/ state'[e] = state[e]
           \/ Disposes(e)
           \/ pending[e] = "initialize" /\ state'[e] = "prepared"
           \/ /\ pending[e] \in Actor /\ pending'[e] = "idle"
              /\ \/ state'[e] \in {"ready", "prepared", "finalized"}
                 \/ state'[e] = "terminal" /\ session[e].st = "ready"
<1>1. ASSUME NEW c \in Actor, HearsSomething(c, e)
      PROVE  \/ state'[e] = state[e]
             \/ /\ pending[e] \in Actor /\ pending'[e] = "idle"
                /\ \/ state'[e] \in {"ready", "prepared", "finalized"}
                   \/ state'[e] = "terminal" /\ session[e].st = "ready"
  BY <1>1 DEF HearsSomething, Hears, HearsReset, HearsStep, HearsFinalize, HearsBreach,
     HearsFailure, HearsNothing, Cells
<1>2. CASE Still(e) \/ SendsCommand(e) \/ SendsInitialize(e) \/ Alarmed(e)
  BY <1>2 DEF Still, SendsCommand, SendsInitialize, Alarmed, Cells
<1>3. CASE InitializeIsOver(e) \/ CloseIsOver(e) \/ Closes(e) \/ Disposes(e)
  BY <1>3 DEF InitializeIsOver, CloseIsOver, Closes, Cells
<1>4. CASE MayRestart(e) \/ GivesUp(e) \/ Forgets(e) \/ Kills(e)
  BY <1>4 DEF MayRestart, GivesUp, Forgets, Kills, Cells
<1>5. CASE Forks(e) \/ Prepares(e) \/ Discards(e) \/ Exits(e)
  BY <1>5 DEF Forks, Prepares, Discards, Exits
<1> QED BY <1>1, <1>2, <1>3, <1>4, <1>5 DEF EnvStep

\* Only _dispatch sends commands.
LEMMA SendingSteps ==
    ASSUME NEW e \in Env, EnvStep(e), pending[e] \notin Actor, pending'[e] \in Actor
    PROVE  SendsCommand(e)
BY SupervisorAssumption
   DEF Actor, EnvStep, Still, SendsInitialize, Alarmed, Kills, MayRestart, GivesUp, Forks,
       Prepares, Discards, Forgets, InitializeIsOver, CloseIsOver, Closes, Disposes, Exits,
       Hears, HearsReset, HearsStep, HearsFinalize, HearsBreach, HearsFailure, HearsNothing,
       HearsSomething

LEMMA DrainsReadyNext ==
    ASSUME TypeOK, LiveInv, ThreadsFollowCalls, CallsAlone, ResumedAlone, Guarded, DrainsReady,
           "plugin" \notin Faults, [Next]_vars
    PROVE  DrainsReady'
<1> SUFFICES ASSUME NEW e \in Env, batch' \in {"open", "finalizing"},
                    recovery'[e] = "draining", pending'[e] \in Actor
             PROVE  state'[e] = "ready"
  BY DEF DrainsReady
<1>1. EnvStep(e) /\ PhaseStep(e) /\ FlagMove(e) /\ CallMove
  BY EnvSteps, PhaseSteps, FlagMoves, CallMoves
<1>2. pending[e] \in Actor
  <2>1. ~SendsCommand(e)
    BY DEF SendsCommand, Resumed, ResumedAlone
  <2> QED BY <1>1, <2>1, SendingSteps
<1>3. batch \in {"open", "finalizing"} /\ ~Thrown(e)
  <2>1. Busy /\ ~Thrown(e)
    BY <1>2, NotThrown DEF ThreadsFollowCalls, Busy
  <2>2. ~Early /\ ~Ended
    BY <1>1, <2>1 DEF CallsAlone, CallMove, Ended
  <2> QED BY <2>1, <2>2 DEF TypeOK, Early, Ended
<1>4. CASE recovery[e] = "draining"
  <2>1. state[e] = "ready"
    BY <1>2, <1>3, <1>4 DEF DrainsReady
  <2>2. pending[e] # "initialize" /\ pending'[e] # "idle" /\ ~Disposes(e)
    BY <1>2, SupervisorAssumption DEF Actor, Disposes
  <2> QED BY <1>1, <1>4, <2>1, <2>2, StateSteps
<1>5. CASE recovery[e] # "draining"
  <2>1. recovery[e] = "none" /\ state'[e] = state[e]
    BY <1>1, <1>5 DEF PhaseStep
  <2>2. armed[e]
    BY <1>1, <1>3, <2>1 DEF FlagMove
  <2> QED BY <1>3, <2>1, <2>2 DEF Guarded
<1> QED BY <1>4, <1>5

\* Every step that moves the state into an episode or out of it moves the flag.
LEMMA FlagIsReportedNext ==
    ASSUME TypeOK, SupervisorInv, ClosingInv, GuardInv, "plugin" \notin Faults, [Next]_vars
    PROVE  FlagIsReported'
<1> SUFFICES ASSUME NEW e \in Env, Usable', ~shuttingDown'
             PROVE  requiresReset'[e] <=> ~Lowered(e)'
  BY DEF FlagIsReported
<1> USE DEF GuardInv, SupervisorInv, ClosingInv
<1>1. EnvStep(e) /\ PhaseStep(e) /\ FlagMove(e) /\ Usable /\ ~shuttingDown
  BY EnvSteps, PhaseSteps, FlagMoves, BatchSteps DEF BatchStep
<1>2. requiresReset[e] <=> ~Lowered(e)
  BY <1>1 DEF FlagIsReported
<1>3. requiresReset[e] \in BOOLEAN
  BY DEF TypeOK
<1>4. CASE BeginsEpisode(e)
  BY <1>4, BeginsAlone DEF BeginsEpisode, Lowered
<1>5. CASE requiresReset'[e] /\ state'[e] \notin {"ready", "terminal"}
  BY <1>5 DEF Lowered
<1>6. CASE requiresReset'[e] = requiresReset[e] /\ ~BeginsEpisode(e)
  <2>1. CASE recovery'[e] = recovery[e]
    <3>1. CASE state'[e] = state[e]
      BY <1>2, <1>6, <2>1, <3>1 DEF Lowered
    <3>2. CASE pending[e] = "initialize" /\ state'[e] = "prepared"
      <4>1. requiresReset[e]
        BY <1>2, <3>2 DEF Creating, EndInv, NothingBegun, Lowered
      <4> QED BY <1>6, <3>2, <4>1 DEF Lowered
    <3>3. CASE pending[e] \in Actor /\ state'[e] # state[e]
      <4>1. CASE state'[e] \in {"prepared", "finalized"}
        BY <1>1, <2>1, <3>3, <4>1 DEF FlagMove, Lowered
      <4>2. CASE state'[e] = "terminal" /\ session[e].st = "ready"
        <5>1. CurrentLive(e) /\ batch \in {"open", "finalizing"}
          BY <1>1, <3>3, SupervisorAssumption
             DEF LiveInv, PendingOnLiveWorker, Actor, ThreadsFollowCalls, CallsAlone, Busy, Early,
                 Usable
        <5>2. recovery[e] = "none" => state[e] \in {"ready", "terminal"}
          <6>1. state[e] \in EnvState
            BY DEF TypeOK
          <6> QED BY <1>1, <4>2, <5>1, <6>1 DEF StateNamesPhase, EnvState
        <5>3. recovery[e] = "draining" => state[e] = "ready"
          BY <3>3, <5>1 DEF DrainsReady
        <5> QED BY <1>2, <1>6, <2>1, <4>2, <5>2, <5>3 DEF Lowered
      <4>3. state'[e] # "ready"
        BY <1>1, <1>6, <3>3 DEF FlagMove
      <4>4. pending[e] # "initialize" /\ ~Disposes(e)
        BY <3>3, SupervisorAssumption DEF Actor, Disposes, Usable
      <4> QED BY <1>1, <2>1, <3>3, <4>1, <4>2, <4>3, <4>4, StateSteps
    <3>4. ~Disposes(e)
      BY DEF Disposes, Usable
    <3> QED BY <1>1, <2>1, <3>1, <3>2, <3>3, <3>4, StateSteps
  <2>2. CASE recovery'[e] # recovery[e]
    <3>1. CASE recovery[e] = "discarding"
      <4>1. state[e] = "faulted" /\ ~Lowered(e)
        BY <1>1, <3>1 DEF DiscardedIsSilent, Lowered
      <4> QED BY <1>1, <1>2, <1>6, <2>2, <3>1, <4>1 DEF PhaseStep, Lowered
    <3>2. CASE recovery[e] = "draining"
      BY <1>1, <2>2, <3>2 DEF PhaseStep, FlagMove, Lowered
    <3>3. CASE recovery[e] \notin {"discarding", "draining"}
      BY <1>1, <1>2, <1>6, <2>2, <3>3 DEF PhaseStep, Lowered
    <3> QED BY <3>1, <3>2, <3>3
  <2> QED BY <2>1, <2>2
<1> QED BY <1>1, <1>4, <1>5, <1>6 DEF FlagMove

LEMMA GuardInvInit == Init => GuardInv
BY SupervisorAssumption
   DEF Init, GuardInv, ResumedAlone, Disarmed, Guarded, DrainsReady, NothingBegun,
       FlagIsReported, Lowered, NoThread, Actor

LEMMA GuardInvariant ==
    ASSUME ~Overlapping, "plugin" \notin Faults
    PROVE  Spec => []GuardInv
<1>1. TypeOK /\ SupervisorInv /\ ClosingInv /\ GuardInv /\ [Next]_vars => GuardInv'
  <2> SUFFICES ASSUME TypeOK, SupervisorInv, ClosingInv, GuardInv, [Next]_vars PROVE GuardInv'
    OBVIOUS
  <2>1. FlagIsReported'
    BY FlagIsReportedNext
  <2>2. /\ LiveInv /\ ThreadsFollowCalls /\ CallsAlone /\ EndInv
        /\ ResumedAlone /\ Disarmed /\ Guarded /\ DrainsReady /\ NothingBegun
    BY DEF GuardInv, SupervisorInv, ClosingInv
  <2> QED BY <2>1, <2>2, ResumedAloneNext, DisarmedNext, GuardedNext, DrainsReadyNext,
         NothingBegunNext DEF GuardInv
<1> QED BY <1>1, GuardInvInit, TypeCorrect, SupervisorInvariant, ClosingInvariant, PTL DEF Spec

\* A failure "reports requires_reset": for clients that wait for their answers, and
\* unless a plugin fails, environment.requiresReset is down outside a recovery
\* exactly while an episode is under way (resetBatch, stepBatch,
\* _finalizeEnvironment and _recover each set it at a place of their own).
THEOREM ResetIsReported ==
    ASSUME ~Overlapping, "plugin" \notin Faults
    PROVE  Spec => []RequiresResetIsReported
<1>1. TypeOK /\ GuardInv => RequiresResetIsReported
  BY DEF TypeOK, GuardInv, FlagIsReported, Lowered, Usable, RequiresResetIsReported
<1> QED BY <1>1, TypeCorrect, GuardInvariant, PTL

\* Under the same conditions the episode timer (_startEpisodeWatchdog) runs only while
\* the session runs the episode it was armed for: it never kills the worker of a
\* later one.
THEOREM WatchdogGuards ==
    ASSUME ~Overlapping, "plugin" \notin Faults
    PROVE  Spec => []WatchdogGuardsAnEpisode
<1>1. GuardInv => WatchdogGuardsAnEpisode
  BY DEF GuardInv, Guarded, Thrown, CallContinues, WatchdogGuardsAnEpisode
<1> QED BY <1>1, GuardInvariant, PTL
=============================================================================
