---------------------- MODULE HeadlessSupervisorProofs ----------------------
(***************************************************************************)
(* Theorems about HeadlessSupervisor, for any number of environments and   *)
(* calls, any restart budget and any set of failures.                      *)
(*                                                                         *)
(* The first part is about the worker processes: their number, and what is *)
(* left of them.  The second is about the sessions behind them: what       *)
(* supervisor and session believe of one another, and which episode a      *)
(* command is about.  Two lemmas say what a step of the module does to one *)
(* environment (EnvSteps) and to one share of a call (ThreadSteps), in     *)
(* terms of single values; the conjuncts of SupervisorInv are proved from  *)
(* these.                                                                  *)
(***************************************************************************)
EXTENDS HeadlessSupervisor, TLAPS

LEMMA WokenType == ASSUME NEW p \in ThreadAt PROVE Woken(p) \in ThreadAt
BY DEF Woken, ThreadAt

LEMMA InitType == Init => TypeOK
BY SupervisorAssumption
   DEF Init, TypeOK, EnvState, RecoveryPhase, Session, Thread, NoThread, ThreadAt, Gen, NoWorker, Actor

LEMMA RecoverType ==
    ASSUME TypeOK, NEW e \in Env, Recover(e)
    PROVE  recovery' \in [Env -> RecoveryPhase] /\ armed' \in [Env -> BOOLEAN]
BY DEF TypeOK, Recover, RecoveryPhase

LEMMA RecoveryEndsType ==
    ASSUME TypeOK, NEW e \in Env, RecoveryEnds(e)
    PROVE  /\ recovery' \in [Env -> RecoveryPhase]
           /\ thread' \in [Actor -> [Env -> Thread]]
           /\ disposal' \in [Env -> {"none", "waiting", "disposing", "closing", "done"}]
<1>1. recovery' \in [Env -> RecoveryPhase]
  BY DEF TypeOK, RecoveryEnds, RecoveryPhase
<1>2. thread' \in [Actor -> [Env -> Thread]]
  <2> SUFFICES ASSUME NEW c \in Actor
               PROVE [thread[c] EXCEPT ![e].at = Woken(@)] \in [Env -> Thread]
    BY DEF RecoveryEnds
  <2>1. thread[c] \in [Env -> Thread]
    BY DEF TypeOK
  <2>2. Woken(thread[c][e].at) \in ThreadAt
    BY <2>1, WokenType DEF Thread
  <2> QED BY <2>1, <2>2 DEF Thread
<1>3. disposal' \in [Env -> {"none", "waiting", "disposing", "closing", "done"}]
  BY DEF TypeOK, RecoveryEnds
<1> QED BY <1>1, <1>2, <1>3

LEMMA AtType ==
    ASSUME TypeOK, NEW c \in Actor, NEW e \in Env, NEW p \in ThreadAt, At(c, e, p)
    PROVE  thread' \in [Actor -> [Env -> Thread]]
<1>1. thread[c] \in [Env -> Thread] /\ thread[c][e] \in Thread
  BY DEF TypeOK
<1>2. [thread[c][e] EXCEPT !.at = p] \in Thread
  BY <1>1 DEF Thread
<1>3. [thread[c] EXCEPT ![e].at = p] \in [Env -> Thread]
  BY <1>1, <1>2
<1> QED BY <1>3 DEF TypeOK, At

LEMMA SentType ==
    ASSUME TypeOK, NEW c \in Actor, NEW e \in Env, NEW p \in ThreadAt, SentTo(c, e, p)
    PROVE  thread' \in [Actor -> [Env -> Thread]]
<1>1. thread[c] \in [Env -> Thread] /\ thread[c][e] \in Thread
  BY DEF TypeOK
<1>2. [thread[c][e] EXCEPT !.at = p, !.worker = worker[e]] \in Thread
  BY <1>1 DEF Thread, TypeOK
<1>3. [thread[c] EXCEPT ![e].at = p, ![e].worker = worker[e]] \in [Env -> Thread]
  BY <1>1, <1>2
<1> QED BY <1>3 DEF TypeOK, SentTo

LEMMA AnsweringType ==
    ASSUME TypeOK, NEW c \in Actor, NEW e \in Env, NEW op, Answering(c, e, op)
    PROVE  pending' \in [Env -> Actor \cup {"idle", "initialize", "close"}]
BY DEF TypeOK, Answering

LEMMA SessionToType ==
    ASSUME TypeOK, NEW e \in Env, NEW ep \in Nat,
           NEW st \in {"idle", "prepared", "ready", "terminal", "finalized"},
           SessionTo(e, st, ep)
    PROVE  session' \in [Env -> Session]
BY DEF TypeOK, SessionTo, Session

LEMMA ResetRequiredType ==
    ASSUME TypeOK, NEW e \in Env, ResetRequired(e)
    PROVE  session' \in [Env -> Session]
<1>1. session[e].episode \in Nat
  BY DEF TypeOK, Session
<1> QED BY <1>1, SessionToType DEF ResetRequired

LEMMA EnteringType ==
    ASSUME TypeOK, NEW e \in Env, NEW ep \in Nat
    PROVE  Entering(e, ep) \in Thread
BY DEF TypeOK, Entering, Thread, ThreadAt

LEMMA NoThreadType == NoThread \in Thread /\ Refused \in Thread
BY DEF NoThread, Refused, Thread, ThreadAt

LEMMA ClosedType ==
    ASSUME TypeOK, NEW e \in Env, NEW W
    PROVE  /\ ClosedProc(e, W) \in [Gen -> {"unborn", "running", "killed", "exited"}]
           /\ ClosedPending(e, W) \in Actor \cup {"idle", "initialize", "close"}
BY DEF TypeOK, ClosedProc, ClosedPending

\* Every reachable state is typed.  In particular no environment is ever given
\* more workers than its restart budget allows.
LEMMA NextType == ASSUME TypeOK, [Next]_vars PROVE TypeOK'
<1> USE SupervisorAssumption
<1>1. ASSUME NEW c \in Call, NEW S \in SUBSET Env, ResetBatch(c, S) PROVE TypeOK'
  BY <1>1, EnteringType, NoThreadType DEF TypeOK, Actor, NextEpisode, ResetBatch, batchVars, envVars, workerVars, callVars
<1>2. ASSUME NEW c \in Call, NEW S \in SUBSET Env, FinalizeBatch(c, S) PROVE TypeOK'
  BY <1>2, EnteringType, NoThreadType DEF TypeOK, Actor, FinalizeStarts, FinalizeBatch, batchVars, envVars, workerVars, callVars
<1>3. ASSUME NEW c \in Call, NEW late \in SUBSET Env, StepBatch(c, late) PROVE TypeOK'
  <2>1. ASSUME NEW e \in Env
        PROVE  [Entering(e, active[e]) EXCEPT !.at = "thrown"] \in Thread
    <3>1. Entering(e, active[e]) \in Thread
      BY EnteringType DEF TypeOK
    <3> QED BY <3>1 DEF Thread, ThreadAt
  <2>2. ASSUME NEW e \in Env PROVE Entering(e, active[e]) \in Thread
    BY EnteringType DEF TypeOK
  <2>3. thread' \in [Actor -> [Env -> Thread]]
    BY <1>3, <2>1, <2>2, NoThreadType DEF TypeOK, StepBatch
  <2>4. call' \in [Actor -> {"idle", "reset", "step", "finalize"}]
    BY <1>3 DEF TypeOK, StepBatch
  <2> QED BY <1>3, <2>3, <2>4 DEF TypeOK, StepBatch, batchVars, envVars, workerVars
<1>4. ASSUME NEW c \in Call, Return(c) PROVE TypeOK'
  BY <1>4, NoThreadType DEF TypeOK, Actor, Return, batchVars, envVars, workerVars, callVars
<1>5. ASSUME NEW c \in Actor, NEW e \in Env, Dispatch(c, e) PROVE TypeOK'
  <2>1. thread' \in [Actor -> [Env -> Thread]]
    <3>1. CASE At(c, e, "done")
      BY <3>1, AtType DEF ThreadAt
    <3>2. CASE SentTo(c, e, "thrown") \/ SentTo(c, e, "sent")
      BY <3>2, SentType DEF ThreadAt
    <3> QED BY <1>5, <3>1, <3>2 DEF Dispatch
  <2>2. pending' \in [Env -> Actor \cup {"idle", "initialize", "close"}]
    BY <1>5 DEF TypeOK, Dispatch
  <2> QED BY <1>5, <2>1, <2>2 DEF TypeOK, Dispatch, batchVars, envVars, workerVars, callVars
<1>6. ASSUME NEW c \in Actor, NEW e \in Env, CatchInfrastructure(c, e) PROVE TypeOK'
  BY <1>6, RecoverType, AtType DEF TypeOK, Actor, ThreadAt, CatchInfrastructure, batchVars, envVars, workerVars, callVars
<1>7. ASSUME NEW c \in Actor, NEW e \in Env, ResetAnswered(c, e) PROVE TypeOK'
  <2>1. thread' \in [Actor -> [Env -> Thread]]
    <3>1. At(c, e, "breached") \/ At(c, e, "publishing")
      BY <1>7 DEF ResetAnswered, Breach
    <3> QED BY <3>1, AtType DEF ThreadAt
  <2>2. pending' \in [Env -> Actor \cup {"idle", "initialize", "close"}]
    BY <1>7, AnsweringType DEF ResetAnswered
  <2>3. thread[c][e].episode \in Nat
    BY DEF TypeOK, Thread
  <2>4. session' \in [Env -> Session]
    BY <1>7, <2>3, SessionToType DEF ResetAnswered
  <2>5. recovery' \in [Env -> RecoveryPhase] /\ armed' \in [Env -> BOOLEAN]
    BY <1>7, RecoverType DEF ResetAnswered, Breach, EpisodeBegins, TypeOK
  <2>6. /\ state' \in [Env -> EnvState]
        /\ requiresReset' \in [Env -> BOOLEAN]
        /\ active' \in [Env -> Nat]
        /\ finalized' \in [Env -> Nat]
    <3>1. CASE Breach(c, e)
      BY <3>1 DEF Breach, TypeOK
    <3>2. CASE EpisodeBegins(e, thread[c][e].episode)
      BY <3>2, <2>3 DEF EpisodeBegins, TypeOK, EnvState
    <3> QED BY <1>7, <3>1, <3>2 DEF ResetAnswered
  <2> QED BY <1>7, <2>1, <2>2, <2>4, <2>5, <2>6 DEF TypeOK, ResetAnswered, Answering, batchVars, envVars, workerVars, callVars
<1>8. ASSUME NEW c \in Actor, NEW e \in Env, StepAnswered(c, e) PROVE TypeOK'
  <2>1. thread' \in [Actor -> [Env -> Thread]]
    <3>1. At(c, e, "breached") \/ At(c, e, "publishing")
      BY <1>8 DEF StepAnswered, Breach
    <3> QED BY <3>1, AtType DEF ThreadAt
  <2>2. pending' \in [Env -> Actor \cup {"idle", "initialize", "close"}]
    BY <1>8, AnsweringType DEF StepAnswered
  <2>3. session[e].episode \in Nat
    BY DEF TypeOK, Session
  <2>4. session' \in [Env -> Session]
    BY <1>8, <2>3, SessionToType DEF StepAnswered
  <2>5. recovery' \in [Env -> RecoveryPhase] /\ armed' \in [Env -> BOOLEAN]
    BY <1>8, RecoverType DEF StepAnswered, Breach, TypeOK
  <2>6. state' \in [Env -> EnvState]
    <3>1. \/ UNCHANGED state
          \/ state' = [state EXCEPT ![e] = "terminal"]
          \/ state' = [state EXCEPT ![e] = state[e]]
      BY <1>8 DEF StepAnswered, Breach
    <3> QED BY <3>1 DEF TypeOK, EnvState
  <2> QED BY <1>8, <2>1, <2>2, <2>4, <2>5, <2>6
          DEF TypeOK, StepAnswered, Answering, Breach, batchVars, envVars, workerVars, callVars
<1>9. ASSUME NEW c \in Actor, NEW e \in Env, FinalizeAnswered(c, e) PROVE TypeOK'
  <2>1. thread' \in [Actor -> [Env -> Thread]]
    <3>1. At(c, e, "breached") \/ At(c, e, "done")
      BY <1>9 DEF FinalizeAnswered, Breach
    <3> QED BY <3>1, AtType DEF ThreadAt
  <2>2. pending' \in [Env -> Actor \cup {"idle", "initialize", "close"}]
    BY <1>9, AnsweringType DEF FinalizeAnswered
  <2>3. session[e].episode \in Nat
    BY DEF TypeOK, Session
  <2>4. session' \in [Env -> Session]
    BY <1>9, <2>3, SessionToType DEF FinalizeAnswered
  <2>5. recovery' \in [Env -> RecoveryPhase] /\ armed' \in [Env -> BOOLEAN]
    BY <1>9, RecoverType DEF FinalizeAnswered, Breach, TypeOK
  <2>6. /\ state' \in [Env -> EnvState]
        /\ requiresReset' \in [Env -> BOOLEAN]
        /\ finalized' \in [Env -> Nat]
    <3>1. CASE UNCHANGED <<state, requiresReset, finalized>>
      BY <3>1 DEF TypeOK
    <3>2. CASE /\ finalized' = [finalized EXCEPT ![e] = session[e].episode]
               /\ state' = [state EXCEPT ![e] = "finalized"]
               /\ requiresReset' = [requiresReset EXCEPT ![e] = TRUE]
      BY <3>2, <2>3 DEF TypeOK, EnvState
    <3> QED BY <1>9, <3>1, <3>2 DEF FinalizeAnswered, Breach
  <2> QED BY <1>9, <2>1, <2>2, <2>4, <2>5, <2>6
          DEF TypeOK, FinalizeAnswered, Answering, Breach, batchVars, envVars, workerVars, callVars
<1>10. ASSUME NEW c \in Actor, NEW e \in Env, Rejected(c, e) PROVE TypeOK'
  BY <1>10, AtType DEF TypeOK, Actor, ThreadAt, Answering, Rejected, batchVars, envVars, workerVars, callVars
<1>11. ASSUME NEW c \in Actor, NEW e \in Env, CommandFails(c, e) PROVE TypeOK'
  <2>1. thread' \in [Actor -> [Env -> Thread]]
    BY <1>11, AtType DEF CommandFails, ThreadAt
  <2>2. pending' \in [Env -> Actor \cup {"idle", "initialize", "close"}]
    BY <1>11, AnsweringType DEF CommandFails
  <2>3. session' \in [Env -> Session]
    BY <1>11, ResetRequiredType DEF CommandFails, TypeOK
  <2>4. state' \in [Env -> EnvState] /\ requiresReset' \in [Env -> BOOLEAN]
    BY <1>11 DEF CommandFails, TypeOK, EnvState
  <2>5. UNCHANGED <<batchVars, restartCount, worker, proc, call>>
    BY <1>11 DEF CommandFails, Answering
  <2> QED BY <1>11, <2>1, <2>2, <2>3, <2>4, <2>5 DEF TypeOK, CommandFails, batchVars, envVars, workerVars, callVars
<1>12. ASSUME NEW c \in Actor, NEW e \in Env, PluginFails(c, e) PROVE TypeOK'
  <2>1. thread' \in [Actor -> [Env -> Thread]]
    BY <1>12, AtType DEF PluginFails, ThreadAt
  <2>2. pending' \in [Env -> Actor \cup {"idle", "initialize", "close"}]
    BY <1>12, AnsweringType DEF PluginFails
  <2>3. session' \in [Env -> Session]
    BY <1>12, ResetRequiredType DEF PluginFails, TypeOK
  <2>4. state' \in [Env -> EnvState] /\ requiresReset' \in [Env -> BOOLEAN]
    BY <1>12 DEF PluginFails, TypeOK, EnvState
  <2>5. UNCHANGED <<batchVars, restartCount, worker, proc, call>>
    BY <1>12 DEF PluginFails, Answering
  <2> QED BY <1>12, <2>1, <2>2, <2>3, <2>4, <2>5 DEF TypeOK, PluginFails, batchVars, envVars, workerVars, callVars
<1>13. ASSUME NEW c \in Actor, NEW e \in Env, Uncertain(c, e) PROVE TypeOK'
  BY <1>13, AtType DEF TypeOK, Actor, ThreadAt, Uncertain, batchVars, envVars, workerVars, callVars
<1>14. ASSUME NEW c \in Actor, NEW e \in Env, Publish(c, e) PROVE TypeOK'
  <2>1. thread' \in [Actor -> [Env -> Thread]]
    <3>1. At(c, e, "done") \/ At(c, e, "lateThrown")
      BY <1>14 DEF Publish
    <3> QED BY <3>1, AtType DEF ThreadAt
  <2> QED BY <1>14, <2>1 DEF TypeOK, Publish, batchVars, envVars, workerVars, callVars
<1>15. ASSUME NEW e \in Env, NEW w \in Gen, Exit(e, w) PROVE TypeOK'
  <2>1. thread' \in [Actor -> [Env -> Thread]]
    <3> DEFINE at(c) == IF w = worker[e] /\ pending[e] # "idle" /\ pending[e] = c
                        THEN "thrown" ELSE thread[c][e].at
    <3>1. ASSUME NEW c \in Actor PROVE [thread[c] EXCEPT ![e].at = at(c)] \in [Env -> Thread]
      <4>1. thread[c] \in [Env -> Thread]
        BY DEF TypeOK
      <4>2. at(c) \in ThreadAt
        BY <4>1 DEF Thread, ThreadAt
      <4> QED BY <4>1, <4>2 DEF Thread
    <3>2. thread' = [c \in Actor |-> [thread[c] EXCEPT ![e].at = at(c)]]
      BY <1>15 DEF Exit
    <3> QED BY <3>1, <3>2
  <2>2. recovery' \in [Env -> RecoveryPhase] /\ armed' \in [Env -> BOOLEAN]
    BY <1>15, RecoverType DEF Exit, TypeOK, RecoveryPhase
  <2>3. state' \in [Env -> EnvState]
    BY <1>15 DEF Exit, TypeOK, EnvState
  <2>4. proc' \in [Env -> [Gen -> {"unborn", "running", "killed", "exited"}]]
    BY <1>15 DEF Exit, TypeOK
  <2>5. pending' \in [Env -> Actor \cup {"idle", "initialize", "close"}]
    BY <1>15 DEF Exit, TypeOK
  <2> QED BY <1>15, <2>1, <2>2, <2>3, <2>4, <2>5 DEF TypeOK, Exit, batchVars, envVars, workerVars, callVars
<1>16. ASSUME NEW e \in Env, HealthBreach(e) PROVE TypeOK'
  BY <1>16, RecoverType DEF TypeOK, Actor, HealthBreach, batchVars, envVars, workerVars, callVars
<1>17. ASSUME NEW e \in Env, WatchdogFires(e) PROVE TypeOK'
  BY <1>17 DEF TypeOK, Actor, RecoveryPhase, WatchdogFires, batchVars, envVars, workerVars, callVars
<1>18. ASSUME NEW e \in Env, Drained(e) PROVE TypeOK'
  <2>1. /\ state' \in [Env -> EnvState]
        /\ requiresReset' \in [Env -> BOOLEAN]
        /\ recovery' \in [Env -> RecoveryPhase]
    BY <1>18 DEF Drained, Restarting, TypeOK, EnvState, RecoveryPhase
  <2>2. proc' \in [Env -> [Gen -> {"unborn", "running", "killed", "exited"}]]
    <3>1. CASE CurrentLive(e)
      <4>1. worker[e] \in Gen
        BY <3>1 DEF CurrentLive, Live
      <4>2. proc' = [proc EXCEPT ![e][worker[e]] = "killed"]
        BY <1>18, <3>1 DEF Drained
      <4> QED BY <4>1, <4>2 DEF TypeOK
    <3> QED BY <1>18, <3>1 DEF Drained, TypeOK
  <2>3. pending' \in [Env -> Actor \cup {"idle", "initialize", "close"}]
    <3>1. ClosedPending(e, {worker[e]}) \in Actor \cup {"idle", "initialize", "close"}
      BY ClosedType
    <3> QED BY <1>18, <3>1 DEF Drained, TypeOK
  <2> QED BY <1>18, <2>1, <2>2, <2>3 DEF TypeOK, Drained, batchVars, envVars, workerVars, callVars
<1>19. ASSUME NEW e \in Env, FailedWorkerGone(e) PROVE TypeOK'
  <2>1. CASE BudgetSpent(e) /\ Fault(e) /\ UNCHANGED restartCount
    BY <1>19, <2>1, RecoveryEndsType DEF FailedWorkerGone, Fault, TypeOK, EnvState, batchVars, envVars, workerVars, callVars
  <2>2. CASE /\ ~BudgetSpent(e)
             /\ restartCount' = [restartCount EXCEPT ![e] = restartCount[e] + 1]
             /\ recovery' = [recovery EXCEPT ![e] = "revalidating"]
             /\ UNCHANGED <<state, worker, thread, disposal>>
    <3>1. restartCount[e] \in Nat /\ restartCount[e] + 1 \in 0..RestartBudget
      BY <2>2 DEF TypeOK, BudgetSpent
    <3>2. restartCount' \in [Env -> 0..RestartBudget]
      <4>1. restartCount \in [Env -> 0..RestartBudget]
        BY DEF TypeOK
      <4> QED BY <2>2, <3>1, <4>1
    <3> QED BY <1>19, <2>2, <3>2 DEF FailedWorkerGone, TypeOK, RecoveryPhase, batchVars, envVars, workerVars, callVars
  <2>3. \/ BudgetSpent(e) /\ Fault(e) /\ UNCHANGED restartCount
        \/ /\ ~BudgetSpent(e)
           /\ restartCount' = [restartCount EXCEPT ![e] = restartCount[e] + 1]
           /\ recovery' = [recovery EXCEPT ![e] = "revalidating"]
           /\ UNCHANGED <<state, worker, thread, disposal>>
    BY <1>19 DEF FailedWorkerGone
  <2> QED BY <2>1, <2>2, <2>3
<1>20. ASSUME NEW e \in Env, Respawn(e) PROVE TypeOK'
  BY <1>20 DEF TypeOK, Actor, NewWorker, SessionTo, Session, Gen, RecoveryPhase, Respawn, batchVars, envVars, workerVars, callVars
<1>21. ASSUME NEW e \in Env, RespawnFails(e) PROVE TypeOK'
  BY <1>21, RecoveryEndsType DEF TypeOK, Actor, Fault, EnvState, NoWorker, RespawnFails, batchVars, envVars, workerVars, callVars
<1>22. ASSUME NEW e \in Env, Replaced(e) PROVE TypeOK'
  BY <1>22, RecoveryEndsType DEF TypeOK, Actor, SessionTo, Session, EnvState, Replaced, batchVars, envVars, workerVars, callVars
<1>23. ASSUME NEW e \in Env, ReplacementFails(e) PROVE TypeOK'
  BY <1>23 DEF TypeOK, Actor, EnvState, RecoveryPhase, ReplacementFails, batchVars, envVars, workerVars, callVars
<1>24. ASSUME NEW e \in Env, FailedReplacementGone(e) PROVE TypeOK'
  BY <1>24, RecoveryEndsType DEF TypeOK, Actor, NoWorker, FailedReplacementGone, batchVars, envVars, workerVars, callVars
<1>25. ASSUME NEW e \in Env, CloseAnswered(e) PROVE TypeOK'
  BY <1>25 DEF TypeOK, Actor, CloseAnswered, batchVars, envVars, workerVars, callVars
<1>26. ASSUME NEW e \in Env, Spawn(e) PROVE TypeOK'
  BY <1>26 DEF TypeOK, Actor, NewWorker, SessionTo, Session, Gen, Spawn, batchVars, envVars, workerVars, callVars
<1>27. ASSUME NEW e \in Env, Initialized(e) PROVE TypeOK'
  BY <1>27 DEF TypeOK, Actor, SessionTo, Session, EnvState, Initialized, batchVars, envVars, workerVars, callVars
<1>28. ASSUME NEW e \in Env, InitializeFails(e) PROVE TypeOK'
  BY <1>28 DEF TypeOK, Actor, CurrentLive, Live, InitializeFails, batchVars, envVars, workerVars, callVars
<1>29. ASSUME NEW e \in Env, DisposeWorkers(e) PROVE TypeOK'
  BY <1>29, ClosedType DEF TypeOK, Actor, Live, DisposeWorkers, batchVars, envVars, workerVars, callVars
<1>30. ASSUME NEW e \in Env, Disposed(e) PROVE TypeOK'
  BY <1>30 DEF TypeOK, Actor, Disposed, batchVars, envVars, workerVars, callVars
<1>31. ASSUME SpawnFails PROVE TypeOK'
  BY <1>31 DEF TypeOK, Actor, SpawnFails, batchVars, envVars, workerVars, callVars
<1>32. ASSUME InitializeAll PROVE TypeOK'
  BY <1>32 DEF TypeOK, Actor, InitializeAll, batchVars, envVars, workerVars, callVars
<1>33. ASSUME CreateCompletes PROVE TypeOK'
  BY <1>33 DEF TypeOK, Actor, CreateCompletes, batchVars, envVars, workerVars, callVars
<1>34. ASSUME CleanupWorkers PROVE TypeOK'
  BY <1>34, ClosedType DEF TypeOK, Actor, CloseAllLive, Live, CleanupWorkers, batchVars, envVars, workerVars, callVars
<1>35. ASSUME CreateFails PROVE TypeOK'
  BY <1>35 DEF TypeOK, Actor, CreateFails, batchVars, envVars, workerVars, callVars
<1>36. ASSUME CloseFinalizes PROVE TypeOK'
  BY <1>36, EnteringType, NoThreadType DEF TypeOK, Actor, FinalizeStarts, CloseFinalizes, batchVars, envVars, workerVars, callVars
<1>37. ASSUME CloseDisposes PROVE TypeOK'
  BY <1>37, NoThreadType DEF TypeOK, Actor, Dispose, Share, EnvState, CloseDisposes, batchVars, envVars, workerVars, callVars
<1>38. ASSUME CloseFinalized PROVE TypeOK'
  BY <1>38, NoThreadType DEF TypeOK, Actor, Dispose, Share, EnvState, CloseFinalized, batchVars, envVars, workerVars, callVars
<1>39. ASSUME BatchCloses PROVE TypeOK'
  BY <1>39 DEF TypeOK, Actor, BatchCloses, batchVars, envVars, workerVars, callVars
<1>40. ASSUME BeginShutdown PROVE TypeOK'
  BY <1>40 DEF TypeOK, Actor, BeginShutdown, batchVars, envVars, workerVars, callVars
<1>41. ASSUME ShutdownWorkers PROVE TypeOK'
  BY <1>41, ClosedType DEF TypeOK, Actor, CloseAllLive, Live, ShutdownWorkers, batchVars, envVars, workerVars, callVars
<1>42. ASSUME ShutdownEnds PROVE TypeOK'
  BY <1>42 DEF TypeOK, Actor, ShutdownEnds, batchVars, envVars, workerVars, callVars
<1>43. ASSUME Terminated PROVE TypeOK'
  BY <1>43 DEF TypeOK, Actor, vars, Terminated, batchVars, envVars, workerVars, callVars
<1>44. CASE UNCHANGED vars
  BY <1>44 DEF TypeOK, Live, vars, batchVars, envVars, workerVars, callVars
<1> QED
  BY <1>1, <1>2, <1>3, <1>4, <1>5, <1>6, <1>7, <1>8, <1>9, <1>10, <1>11, <1>12, <1>13, <1>14, <1>15, <1>16, <1>17, <1>18, <1>19, <1>20, <1>21, <1>22, <1>23, <1>24, <1>25, <1>26, <1>27, <1>28, <1>29, <1>30, <1>31, <1>32, <1>33, <1>34, <1>35, <1>36, <1>37, <1>38, <1>39, <1>40, <1>41, <1>42, <1>43, <1>44
     DEF Next, Command, Creation, Closing, Shutdown

THEOREM TypeCorrect == Spec => []TypeOK
BY InitType, NextType, PTL DEF Spec

-----------------------------------------------------------------------------
\* No worker is forked, no environment.worker replaced, and no recovery goes on
\* to fork: the steps that cannot disturb LiveInv.
Calm ==
    /\ worker' = worker
    /\ \A f \in Env :
          /\ Live(f)' \subseteq Live(f)
          /\ state'[f] = "preparing" => state[f] = "preparing"
          /\ \/ recovery'[f] = recovery[f]
             \/ recovery'[f] \in {"none", "draining"}
             \/ recovery'[f] \in {"killing", "discarding"} /\ state'[f] # "preparing"
          /\ pending'[f] # "idle" => CurrentLive(f)'

LEMMA CalmKeepsLiveInv == ASSUME LiveInv, Calm PROVE LiveInv'
BY DEF LiveInv, LiveIsCurrent, RecoveryForksAlone, PendingOnLiveWorker, Calm

LEMMA LiveInvInit == Init => LiveInv
BY DEF Init, LiveInv, LiveIsCurrent, RecoveryForksAlone, PendingOnLiveWorker, Live

LEMMA ClosedStaysLive ==
    ASSUME TypeOK, NEW e \in Env, NEW W
    PROVE  \A w \in Gen : ClosedProc(e, W)[w] \in {"running", "killed"}
                       <=> proc[e][w] \in {"running", "killed"}
BY DEF TypeOK, ClosedProc

LEMMA ClosedPendingIsLive ==
    ASSUME PendingOnLiveWorker, NEW e \in Env, NEW W, W \subseteq Live(e),
           ClosedPending(e, W) # "idle"
    PROVE  CurrentLive(e)
BY DEF ClosedPending, PendingOnLiveWorker, CurrentLive

LEMMA NextCalm ==
    ASSUME TypeOK, PendingOnLiveWorker, [Next]_vars,
           \A e \in Env : ~(FailedWorkerGone(e) \/ Respawn(e) \/ RespawnFails(e)
                            \/ FailedReplacementGone(e) \/ Spawn(e))
    PROVE  Calm
<1>1. ASSUME NEW c \in Call, NEW S \in SUBSET Env, ResetBatch(c, S) PROVE Calm
  BY <1>1 DEF TypeOK, Calm, PendingOnLiveWorker, CurrentLive, Live, ResetBatch, batchVars, envVars, workerVars, callVars
<1>2. ASSUME NEW c \in Call, NEW S \in SUBSET Env, FinalizeBatch(c, S) PROVE Calm
  BY <1>2 DEF TypeOK, Calm, PendingOnLiveWorker, CurrentLive, Live, FinalizeBatch, batchVars, envVars, workerVars, callVars
<1>3. ASSUME NEW c \in Call, NEW late \in SUBSET Env, StepBatch(c, late) PROVE Calm
  BY <1>3 DEF TypeOK, Calm, PendingOnLiveWorker, CurrentLive, Live, StepBatch, batchVars, envVars, workerVars, callVars
<1>4. ASSUME NEW c \in Call, Return(c) PROVE Calm
  BY <1>4 DEF TypeOK, Calm, PendingOnLiveWorker, CurrentLive, Live, Return, batchVars, envVars, workerVars, callVars
<1>5. ASSUME NEW c \in Actor, NEW e \in Env, Dispatch(c, e) PROVE Calm
  BY <1>5 DEF TypeOK, Calm, PendingOnLiveWorker, CurrentLive, Live, Dispatch, batchVars, envVars, workerVars, callVars
<1>6. ASSUME NEW c \in Actor, NEW e \in Env, CatchInfrastructure(c, e) PROVE Calm
  BY <1>6 DEF TypeOK, Calm, PendingOnLiveWorker, CurrentLive, Live, Recover, CatchInfrastructure, batchVars, envVars, workerVars, callVars
<1>7. ASSUME NEW c \in Actor, NEW e \in Env, ResetAnswered(c, e) PROVE Calm
  BY <1>7 DEF TypeOK, Calm, PendingOnLiveWorker, CurrentLive, Live, Answering, Breach, Recover, EpisodeBegins, ResetAnswered, batchVars, envVars, workerVars, callVars
<1>8. ASSUME NEW c \in Actor, NEW e \in Env, StepAnswered(c, e) PROVE Calm
  BY <1>8 DEF TypeOK, Calm, PendingOnLiveWorker, CurrentLive, Live, Answering, Breach, Recover, StepAnswered, batchVars, envVars, workerVars, callVars
<1>9. ASSUME NEW c \in Actor, NEW e \in Env, FinalizeAnswered(c, e) PROVE Calm
  BY <1>9 DEF TypeOK, Calm, PendingOnLiveWorker, CurrentLive, Live, Answering, Breach, Recover, FinalizeAnswered, batchVars, envVars, workerVars, callVars
<1>10. ASSUME NEW c \in Actor, NEW e \in Env, Rejected(c, e) PROVE Calm
  BY <1>10 DEF TypeOK, Calm, PendingOnLiveWorker, CurrentLive, Live, Answering, Rejected, batchVars, envVars, workerVars, callVars
<1>11. ASSUME NEW c \in Actor, NEW e \in Env, CommandFails(c, e) PROVE Calm
  BY <1>11 DEF TypeOK, Calm, PendingOnLiveWorker, CurrentLive, Live, Answering, CommandFails, batchVars, envVars, workerVars, callVars
<1>12. ASSUME NEW c \in Actor, NEW e \in Env, PluginFails(c, e) PROVE Calm
  BY <1>12 DEF TypeOK, Calm, PendingOnLiveWorker, CurrentLive, Live, Answering, PluginFails, batchVars, envVars, workerVars, callVars
<1>13. ASSUME NEW c \in Actor, NEW e \in Env, Uncertain(c, e) PROVE Calm
  <2>1. CurrentLive(e)
    BY <1>13, SupervisorAssumption DEF Uncertain, PendingOnLiveWorker, Actor
  <2> QED BY <1>13, <2>1 DEF TypeOK, Calm, PendingOnLiveWorker, CurrentLive, Live, Uncertain, envVars
<1>14. ASSUME NEW c \in Actor, NEW e \in Env, Publish(c, e) PROVE Calm
  BY <1>14 DEF TypeOK, Calm, PendingOnLiveWorker, CurrentLive, Live, Publish, batchVars, envVars, workerVars, callVars
<1>15. ASSUME NEW e \in Env, NEW w \in Gen, Exit(e, w) PROVE Calm
  BY <1>15 DEF TypeOK, Calm, PendingOnLiveWorker, CurrentLive, Live, Recover, Exit, batchVars, envVars, workerVars, callVars
<1>16. ASSUME NEW e \in Env, HealthBreach(e) PROVE Calm
  BY <1>16 DEF TypeOK, Calm, PendingOnLiveWorker, CurrentLive, Live, Recover, HealthBreach, batchVars, envVars, workerVars, callVars
<1>17. ASSUME NEW e \in Env, WatchdogFires(e) PROVE Calm
  BY <1>17 DEF TypeOK, Calm, PendingOnLiveWorker, CurrentLive, Live, WatchdogFires, batchVars, envVars, workerVars, callVars
<1>18. ASSUME NEW e \in Env, Drained(e) PROVE Calm
  <2>1. CASE CurrentLive(e)
    <3>1. Live(e)' = Live(e) /\ \A f \in Env \ {e} : Live(f)' = Live(f)
      <4>1. proc' = [proc EXCEPT ![e][worker[e]] = "killed"]
        BY <1>18, <2>1 DEF Drained
      <4> QED BY <2>1, <4>1 DEF CurrentLive, Live, TypeOK
    <3>2. UNCHANGED worker
      BY <1>18 DEF Drained
    <3>3. \A f \in Env : pending'[f] # "idle" => CurrentLive(f)
      BY <1>18, <2>1 DEF Drained, PendingOnLiveWorker, TypeOK
    <3> QED BY <1>18, <3>1, <3>2, <3>3 DEF Drained, Restarting, Calm, CurrentLive, TypeOK
  <2>2. CASE ~CurrentLive(e)
    BY <1>18, <2>2 DEF Drained, Restarting, Calm, PendingOnLiveWorker, CurrentLive, Live, TypeOK
  <2> QED BY <2>1, <2>2
<1>19. ASSUME NEW e \in Env, Replaced(e) PROVE Calm
  BY <1>19 DEF TypeOK, Calm, PendingOnLiveWorker, CurrentLive, Live, RecoveryEnds, Replaced, batchVars, envVars, workerVars, callVars
<1>20. ASSUME NEW e \in Env, ReplacementFails(e) PROVE Calm
  BY <1>20 DEF TypeOK, Calm, PendingOnLiveWorker, CurrentLive, Live, ReplacementFails, batchVars, envVars, workerVars, callVars
<1>21. ASSUME NEW e \in Env, CloseAnswered(e) PROVE Calm
  BY <1>21 DEF TypeOK, Calm, PendingOnLiveWorker, CurrentLive, Live, CloseAnswered, batchVars, envVars, workerVars, callVars
<1>22. ASSUME NEW e \in Env, Initialized(e) PROVE Calm
  BY <1>22 DEF TypeOK, Calm, PendingOnLiveWorker, CurrentLive, Live, Initialized, batchVars, envVars, workerVars, callVars
<1>23. ASSUME NEW e \in Env, InitializeFails(e) PROVE Calm
  BY <1>23 DEF TypeOK, Calm, PendingOnLiveWorker, CurrentLive, Live, InitializeFails, batchVars, envVars, workerVars, callVars
<1>24. ASSUME NEW e \in Env, DisposeWorkers(e) PROVE Calm
  <2>1. \A f \in Env : Live(f)' = Live(f)
    BY <1>24, ClosedStaysLive DEF DisposeWorkers, Live, TypeOK
  <2>2. \A f \in Env : pending'[f] # "idle" => CurrentLive(f)
    BY <1>24, ClosedPendingIsLive DEF DisposeWorkers, PendingOnLiveWorker, TypeOK
  <2>3. UNCHANGED <<worker, state, recovery>>
    BY <1>24 DEF DisposeWorkers, envVars
  <2> QED BY <2>1, <2>2, <2>3 DEF Calm, CurrentLive
<1>25. ASSUME NEW e \in Env, Disposed(e) PROVE Calm
  BY <1>25 DEF TypeOK, Calm, PendingOnLiveWorker, CurrentLive, Live, Disposed, batchVars, envVars, workerVars, callVars
<1>26. ASSUME SpawnFails PROVE Calm
  BY <1>26 DEF TypeOK, Calm, PendingOnLiveWorker, CurrentLive, Live, SpawnFails, batchVars, envVars, workerVars, callVars
<1>27. ASSUME InitializeAll PROVE Calm
  BY <1>27 DEF TypeOK, Calm, PendingOnLiveWorker, CurrentLive, Live, InitializeAll, batchVars, envVars, workerVars, callVars
<1>28. ASSUME CreateCompletes PROVE Calm
  BY <1>28 DEF TypeOK, Calm, PendingOnLiveWorker, CurrentLive, Live, CreateCompletes, batchVars, envVars, workerVars, callVars
<1>29. ASSUME CleanupWorkers PROVE Calm
  <2>1. \A f \in Env : Live(f)' = Live(f)
    BY <1>29, ClosedStaysLive DEF CleanupWorkers, CloseAllLive, Live, TypeOK
  <2>2. \A f \in Env : pending'[f] # "idle" => CurrentLive(f)
    BY <1>29, ClosedPendingIsLive DEF CleanupWorkers, CloseAllLive, PendingOnLiveWorker, TypeOK
  <2>3. UNCHANGED <<worker, state, recovery>>
    BY <1>29 DEF CleanupWorkers, envVars
  <2> QED BY <2>1, <2>2, <2>3 DEF Calm, CurrentLive
<1>30. ASSUME CreateFails PROVE Calm
  BY <1>30 DEF TypeOK, Calm, PendingOnLiveWorker, CurrentLive, Live, CreateFails, batchVars, envVars, workerVars, callVars
<1>31. ASSUME CloseFinalizes PROVE Calm
  BY <1>31 DEF TypeOK, Calm, PendingOnLiveWorker, CurrentLive, Live, CloseFinalizes, batchVars, envVars, workerVars, callVars
<1>32. ASSUME CloseDisposes PROVE Calm
  BY <1>32 DEF TypeOK, Calm, PendingOnLiveWorker, CurrentLive, Live, Dispose, CloseDisposes, batchVars, envVars, workerVars, callVars
<1>33. ASSUME CloseFinalized PROVE Calm
  BY <1>33 DEF TypeOK, Calm, PendingOnLiveWorker, CurrentLive, Live, Dispose, CloseFinalized, batchVars, envVars, workerVars, callVars
<1>34. ASSUME BatchCloses PROVE Calm
  BY <1>34 DEF TypeOK, Calm, PendingOnLiveWorker, CurrentLive, Live, BatchCloses, batchVars, envVars, workerVars, callVars
<1>35. ASSUME BeginShutdown PROVE Calm
  BY <1>35 DEF TypeOK, Calm, PendingOnLiveWorker, CurrentLive, Live, BeginShutdown, batchVars, envVars, workerVars, callVars
<1>36. ASSUME ShutdownWorkers PROVE Calm
  <2>1. \A f \in Env : Live(f)' = Live(f)
    BY <1>36, ClosedStaysLive DEF ShutdownWorkers, CloseAllLive, Live, TypeOK
  <2>2. \A f \in Env : pending'[f] # "idle" => CurrentLive(f)
    BY <1>36, ClosedPendingIsLive DEF ShutdownWorkers, CloseAllLive, PendingOnLiveWorker, TypeOK
  <2>3. UNCHANGED <<worker, state, recovery>>
    BY <1>36 DEF ShutdownWorkers, envVars
  <2> QED BY <2>1, <2>2, <2>3 DEF Calm, CurrentLive
<1>37. ASSUME ShutdownEnds PROVE Calm
  BY <1>37 DEF TypeOK, Calm, PendingOnLiveWorker, CurrentLive, Live, ShutdownEnds, batchVars, envVars, workerVars, callVars
<1>38. ASSUME Terminated PROVE Calm
  BY <1>38 DEF TypeOK, Calm, PendingOnLiveWorker, CurrentLive, Live, vars, Terminated, batchVars, envVars, workerVars, callVars
<1>39. CASE UNCHANGED vars
  BY <1>39 DEF Calm, PendingOnLiveWorker, CurrentLive, Live, vars, batchVars, envVars, workerVars, callVars
<1> QED
  BY <1>1, <1>2, <1>3, <1>4, <1>5, <1>6, <1>7, <1>8, <1>9, <1>10, <1>11, <1>12, <1>13, <1>14, <1>15, <1>16, <1>17, <1>18, <1>19, <1>20, <1>21, <1>22, <1>23, <1>24, <1>25, <1>26, <1>27, <1>28, <1>29, <1>30, <1>31, <1>32, <1>33, <1>34, <1>35, <1>36, <1>37, <1>38, <1>39
     DEF Next, Command, Creation, Closing, Shutdown

\* Steps of one environment's recovery or creation.
LEMMA OneEnvironment ==
    ASSUME LiveInv, NEW e \in Env,
           \A f \in Env \ {e} :
              /\ worker'[f] = worker[f] /\ recovery'[f] = recovery[f]
              /\ state'[f] = state[f] /\ proc'[f] = proc[f] /\ pending'[f] = pending[f],
           Live(e)' \subseteq {worker'[e]},
           recovery'[e] = "revalidating" => Live(e)' = {},
           recovery'[e] \in {"killing", "revalidating", "initializing", "discarding"}
             => state'[e] # "preparing",
           pending'[e] # "idle" => CurrentLive(e)'
    PROVE  LiveInv'
BY DEF LiveInv, LiveIsCurrent, RecoveryForksAlone, PendingOnLiveWorker, CurrentLive, Live

LEMMA NotLive ==
    ASSUME LiveInv, NEW e \in Env, ~CurrentLive(e)
    PROVE  Live(e) = {} /\ pending[e] = "idle"
BY DEF LiveInv, LiveIsCurrent, PendingOnLiveWorker, CurrentLive

LEMMA ForkedIsLive ==
    ASSUME TypeOK, NEW e \in Env, Live(e) = {}, NewWorker(e)
    PROVE  Live(e)' = {worker'[e]}
<1>1. restartCount[e] + 1 \in Gen
  BY SupervisorAssumption DEF TypeOK, Gen
<1>2. worker'[e] = restartCount[e] + 1
  BY DEF NewWorker, TypeOK
<1>3. proc'[e] = [proc[e] EXCEPT ![restartCount[e] + 1] = "running"]
  BY DEF NewWorker, TypeOK
<1>4. proc[e] \in [Gen -> {"unborn", "running", "killed", "exited"}]
  BY DEF TypeOK
<1> QED BY <1>1, <1>2, <1>3, <1>4 DEF Live

\* A fork finds no live worker, and a worker is forgotten only after its exit.
LEMMA LiveInvNext == ASSUME TypeOK, LiveInv, [Next]_vars PROVE LiveInv'
<1>1. ASSUME NEW e \in Env, FailedWorkerGone(e) PROVE LiveInv'
  <2>1. Live(e) = {} /\ pending[e] = "idle"
    BY <1>1, NotLive DEF FailedWorkerGone
  <2>2. UNCHANGED <<proc, pending>>
    BY <1>1 DEF FailedWorkerGone
  <2>3. \A f \in Env \ {e} : /\ worker'[f] = worker[f]
                            /\ recovery'[f] = recovery[f]
                            /\ state'[f] = state[f]
    BY <1>1 DEF FailedWorkerGone, Fault, RecoveryEnds, TypeOK
  <2>4. state'[e] # "preparing"
    BY <1>1 DEF FailedWorkerGone, Fault, TypeOK, LiveInv, RecoveryForksAlone
  <2>5. Live(e)' = {}
    BY <2>1, <2>2 DEF Live
  <2> QED BY <2>1, <2>2, <2>3, <2>4, <2>5, OneEnvironment
<1>2. ASSUME NEW e \in Env, RespawnFails(e) PROVE LiveInv'
  <2>1. Live(e) = {}
    BY <1>2 DEF RespawnFails, LiveInv, RecoveryForksAlone
  <2>2. pending[e] = "idle"
    BY <2>1, NotLive DEF CurrentLive
  <2>3. UNCHANGED <<proc, pending>>
    BY <1>2 DEF RespawnFails
  <2>4. \A f \in Env \ {e} : /\ worker'[f] = worker[f]
                            /\ recovery'[f] = recovery[f]
                            /\ state'[f] = state[f]
    BY <1>2 DEF RespawnFails, Fault, RecoveryEnds, TypeOK
  <2>5. recovery'[e] = "none"
    BY <1>2 DEF RespawnFails, Fault, RecoveryEnds, TypeOK
  <2>6. Live(e)' = {}
    BY <2>1, <2>3 DEF Live
  <2> QED BY <2>2, <2>3, <2>4, <2>5, <2>6, OneEnvironment
<1>3. ASSUME NEW e \in Env, FailedReplacementGone(e) PROVE LiveInv'
  <2>1. Live(e) = {} /\ pending[e] = "idle"
    BY <1>3, NotLive DEF FailedReplacementGone
  <2>2. UNCHANGED <<proc, state, pending>>
    BY <1>3 DEF FailedReplacementGone, envVars
  <2>3. \A f \in Env \ {e} : worker'[f] = worker[f] /\ recovery'[f] = recovery[f]
    BY <1>3 DEF FailedReplacementGone, RecoveryEnds, TypeOK
  <2>4. recovery'[e] = "none"
    BY <1>3 DEF FailedReplacementGone, RecoveryEnds, TypeOK
  <2>5. Live(e)' = {}
    BY <2>1, <2>2 DEF Live
  <2> QED BY <2>1, <2>2, <2>3, <2>4, <2>5, OneEnvironment
<1>4. ASSUME NEW e \in Env, Respawn(e) PROVE LiveInv'
  <2>1. Live(e) = {} /\ state[e] # "preparing"
    BY <1>4 DEF Respawn, LiveInv, RecoveryForksAlone
  <2>2. Live(e)' = {worker'[e]}
    BY <1>4, <2>1, ForkedIsLive DEF Respawn
  <2>3. recovery'[e] = "initializing" /\ UNCHANGED state
    BY <1>4 DEF Respawn, envVars, TypeOK
  <2>4. \A f \in Env \ {e} : /\ worker'[f] = worker[f]
                            /\ recovery'[f] = recovery[f]
                            /\ proc'[f] = proc[f]
                            /\ pending'[f] = pending[f]
    BY <1>4 DEF Respawn, NewWorker, TypeOK
  <2>5. CurrentLive(e)'
    BY <2>2 DEF CurrentLive
  <2> QED BY <2>1, <2>2, <2>3, <2>4, <2>5, OneEnvironment
<1>5. ASSUME NEW e \in Env, Spawn(e) PROVE LiveInv'
  <2>1. Live(e) = {} /\ pending[e] = "idle"
    <3>1. ~CurrentLive(e)
      BY <1>5, SupervisorAssumption DEF Spawn, CurrentLive, Live, NoWorker, Gen
    <3> QED BY <3>1, NotLive
  <2>2. Live(e)' = {worker'[e]}
    BY <1>5, <2>1, ForkedIsLive DEF Spawn
  <2>3. UNCHANGED <<state, recovery, pending>>
    BY <1>5 DEF Spawn, envVars
  <2>4. recovery[e] \notin {"killing", "revalidating", "initializing", "discarding"}
    BY <1>5 DEF Spawn, LiveInv, RecoveryForksAlone
  <2>5. \A f \in Env \ {e} : worker'[f] = worker[f] /\ proc'[f] = proc[f]
    BY <1>5 DEF Spawn, NewWorker, TypeOK
  <2> QED BY <2>1, <2>2, <2>3, <2>4, <2>5, OneEnvironment
<1>6. CASE \A e \in Env : ~(FailedWorkerGone(e) \/ Respawn(e) \/ RespawnFails(e)
                            \/ FailedReplacementGone(e) \/ Spawn(e))
  BY <1>6, NextCalm, CalmKeepsLiveInv DEF LiveInv
<1> QED BY <1>1, <1>2, <1>3, <1>4, <1>5, <1>6

\* Nothing runs while a recovery decides whether to fork, and it forks only once
\* the failed worker has exited (HeadlessSupervisor._recover): the invariant that
\* carries the next theorem, for every interleaving of calls, exits, timers,
\* CloseBatch and a shutdown.
THEOREM LiveInvariant == Spec => []LiveInv
<1>1. Init => TypeOK /\ LiveInv
  BY InitType, LiveInvInit
<1>2. TypeOK /\ LiveInv /\ [Next]_vars => TypeOK' /\ LiveInv'
  BY NextType, LiveInvNext
<1> QED BY <1>1, <1>2, PTL DEF Spec

\* An environment never has two worker processes, nor one that it does not know
\* of, and a request is in flight only on a live worker.
THEOREM OneWorker == Spec => [](LiveIsCurrent /\ PendingOnLiveWorker)
<1>1. LiveInv => LiveIsCurrent /\ PendingOnLiveWorker
  BY DEF LiveInv
<1> QED BY <1>1, LiveInvariant, PTL

-----------------------------------------------------------------------------
\* The first worker, the one _createBatch forks, is the only one that is forked
\* while the batch is being created.
Ending == batch \in {"cleanup", "failed", "disposing", "closed"}
DisposalInv ==
    /\ \A e \in Env :
          /\ recovery[e] = "revalidating" => restartCount[e] >= 1
          /\ disposal[e] # "none" => Ending
          /\ batch \in {"failed", "closed"} => disposal[e] = "done"
          /\ disposal[e] = "closing" /\ 1 \in Live(e) => 1 \in snapshot[e]
          /\ disposal[e] = "done" => 1 \notin Live(e)
    /\ sup \in {"draining", "down"} => batch \in {"failed", "closed"}

\* What a step does to the end of the batch and to the share environment e has
\* in it.
DisposalStep(e) ==
    /\ \/ batch' = batch
       \/ ~Ending /\ batch' \notin {"failed", "closed"}
       \/ /\ batch \in {"cleanup", "disposing"} /\ batch' \in {"failed", "closed"}
          /\ disposal' = disposal /\ \A f \in Env : disposal[f] = "done"
    /\ sup' \in {"draining", "down"} =>
          sup \in {"draining", "down"} \/ (batch \in {"failed", "closed"} /\ batch' = batch)
    /\ recovery'[e] = "revalidating" =>
          \/ recovery[e] = "revalidating" /\ restartCount'[e] = restartCount[e]
          \/ restartCount'[e] = restartCount[e] + 1
    /\ \/ disposal'[e] = disposal[e] /\ (snapshot'[e] = snapshot[e] \/ batch \in {"failed", "closed"})
       \/ disposal[e] = "waiting" /\ disposal'[e] = "disposing"
       \/ disposal'[e] \in {"waiting", "disposing"} /\ batch' = "disposing"
       \/ /\ disposal'[e] = "closing" /\ snapshot'[e] = Live(e)
          /\ disposal[e] = "disposing" \/ batch = "cleanup"
       \/ disposal[e] = "closing" /\ disposal'[e] = "done" /\ snapshot[e] \cap Live(e) = {}

LEMMA DisposalSteps ==
    ASSUME TypeOK, [Next]_vars, NEW e \in Env
    PROVE  DisposalStep(e)
<1>1. ASSUME NEW d \in Call, NEW S \in SUBSET Env, ResetBatch(d, S) PROVE DisposalStep(e)
  BY <1>1 DEF DisposalStep, Ending, TypeOK, ResetBatch, batchVars, envVars, workerVars, callVars
<1>2. ASSUME NEW d \in Call, NEW S \in SUBSET Env, FinalizeBatch(d, S) PROVE DisposalStep(e)
  BY <1>2 DEF DisposalStep, Ending, TypeOK, FinalizeBatch, FinalizeStarts, batchVars, envVars,
     workerVars, callVars
<1>3. ASSUME NEW d \in Call, NEW late \in SUBSET Env, StepBatch(d, late) PROVE DisposalStep(e)
  BY <1>3 DEF DisposalStep, Ending, TypeOK, StepBatch, batchVars, envVars, workerVars, callVars
<1>4. ASSUME NEW d \in Call, Return(d) PROVE DisposalStep(e)
  BY <1>4 DEF DisposalStep, Ending, TypeOK, Return, batchVars, envVars, workerVars, callVars
<1>5. ASSUME NEW d \in Actor, NEW f \in Env, Dispatch(d, f) PROVE DisposalStep(e)
  BY <1>5 DEF DisposalStep, Ending, TypeOK, Dispatch, SentTo, At, batchVars, envVars,
     workerVars, callVars
<1>6. ASSUME NEW d \in Actor, NEW f \in Env, CatchInfrastructure(d, f) PROVE DisposalStep(e)
  BY <1>6 DEF DisposalStep, Ending, TypeOK, CatchInfrastructure, Recover, At, batchVars,
     envVars, workerVars, callVars
<1>7. ASSUME NEW d \in Actor, NEW f \in Env, ResetAnswered(d, f) PROVE DisposalStep(e)
  BY <1>7 DEF DisposalStep, Ending, TypeOK, ResetAnswered, Answering, Breach, EpisodeBegins,
     SessionTo, Recover, At, batchVars, envVars, workerVars, callVars
<1>8. ASSUME NEW d \in Actor, NEW f \in Env, StepAnswered(d, f) PROVE DisposalStep(e)
  BY <1>8 DEF DisposalStep, Ending, TypeOK, StepAnswered, Answering, Breach, SessionSteps,
     SessionTo, Recover, At, batchVars, envVars, workerVars, callVars
<1>9. ASSUME NEW d \in Actor, NEW f \in Env, FinalizeAnswered(d, f) PROVE DisposalStep(e)
  BY <1>9 DEF DisposalStep, Ending, TypeOK, FinalizeAnswered, Answering, Breach, SessionTo,
     Recover, At, batchVars, envVars, workerVars, callVars
<1>10. ASSUME NEW d \in Actor, NEW f \in Env, Rejected(d, f) PROVE DisposalStep(e)
  BY <1>10 DEF DisposalStep, Ending, TypeOK, Rejected, Answering, At, batchVars, envVars,
     workerVars, callVars
<1>11. ASSUME NEW d \in Actor, NEW f \in Env, CommandFails(d, f) PROVE DisposalStep(e)
  BY <1>11 DEF DisposalStep, Ending, TypeOK, CommandFails, Answering, ResetRequired, SessionTo,
     SessionSteps, At, batchVars, envVars, workerVars, callVars
<1>12. ASSUME NEW d \in Actor, NEW f \in Env, PluginFails(d, f) PROVE DisposalStep(e)
  BY <1>12 DEF DisposalStep, Ending, TypeOK, PluginFails, Answering, ResetRequired, SessionTo,
     SessionSteps, At, batchVars, envVars, workerVars, callVars
<1>13. ASSUME NEW d \in Actor, NEW f \in Env, Uncertain(d, f) PROVE DisposalStep(e)
  BY <1>13 DEF DisposalStep, Ending, TypeOK, Uncertain, At, batchVars, envVars, workerVars,
     callVars
<1>14. ASSUME NEW d \in Actor, NEW f \in Env, Publish(d, f) PROVE DisposalStep(e)
  BY <1>14 DEF DisposalStep, Ending, TypeOK, Publish, At, batchVars, envVars, workerVars,
     callVars
<1>15. ASSUME NEW f \in Env, NEW w \in Gen, Exit(f, w) PROVE DisposalStep(e)
  BY <1>15 DEF DisposalStep, Ending, TypeOK, Exit, Recover, batchVars, envVars, workerVars,
     callVars
<1>16. ASSUME NEW f \in Env, HealthBreach(f) PROVE DisposalStep(e)
  BY <1>16 DEF DisposalStep, Ending, TypeOK, HealthBreach, Recover, batchVars, envVars,
     workerVars, callVars
<1>17. ASSUME NEW f \in Env, WatchdogFires(f) PROVE DisposalStep(e)
  BY <1>17 DEF DisposalStep, Ending, TypeOK, WatchdogFires, batchVars, envVars, workerVars,
     callVars
<1>18. ASSUME NEW f \in Env, Drained(f) PROVE DisposalStep(e)
  BY <1>18 DEF DisposalStep, Ending, TypeOK, Drained, Restarting, ClosedPending, batchVars,
     envVars, workerVars, callVars
<1>19. ASSUME NEW f \in Env, FailedWorkerGone(f) PROVE DisposalStep(e)
  BY <1>19 DEF DisposalStep, Ending, TypeOK, FailedWorkerGone, Fault, RecoveryEnds, batchVars,
     envVars, workerVars, callVars
<1>20. ASSUME NEW f \in Env, Respawn(f) PROVE DisposalStep(e)
  BY <1>20 DEF DisposalStep, Ending, TypeOK, Respawn, NewWorker, SessionTo, batchVars, envVars,
     workerVars, callVars
<1>21. ASSUME NEW f \in Env, RespawnFails(f) PROVE DisposalStep(e)
  BY <1>21 DEF DisposalStep, Ending, TypeOK, RespawnFails, Fault, RecoveryEnds, batchVars,
     envVars, workerVars, callVars
<1>22. ASSUME NEW f \in Env, Replaced(f) PROVE DisposalStep(e)
  BY <1>22 DEF DisposalStep, Ending, TypeOK, Replaced, RecoveryEnds, SessionTo, batchVars,
     envVars, workerVars, callVars
<1>23. ASSUME NEW f \in Env, ReplacementFails(f) PROVE DisposalStep(e)
  BY <1>23 DEF DisposalStep, Ending, TypeOK, ReplacementFails, batchVars, envVars, workerVars,
     callVars
<1>24. ASSUME NEW f \in Env, FailedReplacementGone(f) PROVE DisposalStep(e)
  BY <1>24 DEF DisposalStep, Ending, TypeOK, FailedReplacementGone, RecoveryEnds, batchVars,
     envVars, workerVars, callVars
<1>25. ASSUME NEW f \in Env, CloseAnswered(f) PROVE DisposalStep(e)
  BY <1>25 DEF DisposalStep, Ending, TypeOK, CloseAnswered, batchVars, envVars, workerVars,
     callVars
<1>26. ASSUME NEW f \in Env, Spawn(f) PROVE DisposalStep(e)
  BY <1>26 DEF DisposalStep, Ending, TypeOK, Spawn, NewWorker, SessionTo, batchVars, envVars,
     workerVars, callVars
<1>27. ASSUME NEW f \in Env, Initialized(f) PROVE DisposalStep(e)
  BY <1>27 DEF DisposalStep, Ending, TypeOK, Initialized, SessionTo, batchVars, envVars,
     workerVars, callVars
<1>28. ASSUME NEW f \in Env, InitializeFails(f) PROVE DisposalStep(e)
  BY <1>28 DEF DisposalStep, Ending, TypeOK, InitializeFails, batchVars, envVars, workerVars,
     callVars
<1>29. ASSUME NEW f \in Env, DisposeWorkers(f) PROVE DisposalStep(e)
  BY <1>29 DEF DisposalStep, Ending, TypeOK, DisposeWorkers, ClosedPending, batchVars, envVars,
     workerVars, callVars
<1>30. ASSUME NEW f \in Env, Disposed(f) PROVE DisposalStep(e)
  BY <1>30 DEF DisposalStep, Ending, TypeOK, Disposed, batchVars, envVars, workerVars, callVars
<1>31. ASSUME SpawnFails PROVE DisposalStep(e)
  BY <1>31 DEF DisposalStep, Ending, TypeOK, SpawnFails, batchVars, envVars, workerVars,
     callVars
<1>32. ASSUME InitializeAll PROVE DisposalStep(e)
  BY <1>32 DEF DisposalStep, Ending, TypeOK, InitializeAll, batchVars, envVars, workerVars,
     callVars
<1>33. ASSUME CreateCompletes PROVE DisposalStep(e)
  BY <1>33 DEF DisposalStep, Ending, TypeOK, CreateCompletes, batchVars, envVars, workerVars,
     callVars
<1>34. ASSUME CleanupWorkers PROVE DisposalStep(e)
  BY <1>34 DEF DisposalStep, Ending, TypeOK, CleanupWorkers, CloseAllLive, ClosedPending,
     batchVars, envVars, workerVars, callVars
<1>35. ASSUME CreateFails PROVE DisposalStep(e)
  BY <1>35 DEF DisposalStep, Ending, TypeOK, CreateFails, batchVars, envVars, workerVars,
     callVars
<1>36. ASSUME CloseFinalizes PROVE DisposalStep(e)
  BY <1>36 DEF DisposalStep, Ending, TypeOK, CloseFinalizes, FinalizeStarts, batchVars,
     envVars, workerVars, callVars
<1>37. ASSUME CloseDisposes PROVE DisposalStep(e)
  BY <1>37 DEF DisposalStep, Ending, TypeOK, CloseDisposes, Dispose, Share, workerVars
<1>38. ASSUME CloseFinalized PROVE DisposalStep(e)
  BY <1>38 DEF DisposalStep, Ending, TypeOK, CloseFinalized, Dispose, Share, workerVars
<1>39. ASSUME BatchCloses PROVE DisposalStep(e)
  BY <1>39 DEF DisposalStep, Ending, TypeOK, BatchCloses, batchVars, envVars, workerVars,
     callVars
<1>40. ASSUME BeginShutdown PROVE DisposalStep(e)
  BY <1>40 DEF DisposalStep, Ending, TypeOK, BeginShutdown, batchVars, envVars, workerVars,
     callVars
<1>41. ASSUME ShutdownWorkers PROVE DisposalStep(e)
  BY <1>41 DEF DisposalStep, Ending, TypeOK, ShutdownWorkers, CloseAllLive, ClosedPending,
     batchVars, envVars, workerVars, callVars
<1>42. ASSUME ShutdownEnds PROVE DisposalStep(e)
  BY <1>42 DEF DisposalStep, Ending, TypeOK, ShutdownEnds, batchVars, envVars, workerVars,
     callVars
<1>43. ASSUME Terminated PROVE DisposalStep(e)
  BY <1>43 DEF DisposalStep, Ending, TypeOK, Terminated, vars, batchVars, envVars, workerVars,
     callVars
<1>44. CASE UNCHANGED vars
  BY <1>44 DEF DisposalStep, Ending, TypeOK, vars, batchVars, envVars, workerVars, callVars
<1> QED BY <1>1, <1>2, <1>3, <1>4, <1>5, <1>6, <1>7, <1>8, <1>9, <1>10, <1>11, <1>12, <1>13,
   <1>14, <1>15, <1>16, <1>17, <1>18, <1>19, <1>20, <1>21, <1>22, <1>23, <1>24, <1>25, <1>26,
   <1>27, <1>28, <1>29, <1>30, <1>31, <1>32, <1>33, <1>34, <1>35, <1>36, <1>37, <1>38, <1>39,
   <1>40, <1>41, <1>42, <1>43, <1>44
   DEF Next, Command, Creation, Closing, Shutdown

LEMMA FirstWorkerSteps ==
    ASSUME TypeOK, LiveInv, DisposalInv, [Next]_vars, NEW e \in Env, 1 \in Live(e)'
    PROVE  1 \in Live(e) \/ (batch = "spawning" /\ batch' = "spawning")
<1>1. ASSUME NEW f \in Env, FailedWorkerGone(f) \/ RespawnFails(f) \/ FailedReplacementGone(f)
      PROVE  Live(e)' = Live(e)
  BY <1>1 DEF FailedWorkerGone, RespawnFails, FailedReplacementGone, Live
<1>2. ASSUME NEW f \in Env, Respawn(f) PROVE 1 \in Live(e)
  <2>1. restartCount[f] + 1 # 1 /\ restartCount[f] + 1 \in Gen
    BY <1>2, SupervisorAssumption DEF Respawn, DisposalInv, TypeOK, Gen
  <2> QED BY <1>2, <2>1 DEF Respawn, NewWorker, Live, TypeOK
<1>3. ASSUME NEW f \in Env, Spawn(f) PROVE batch = "spawning" /\ batch' = "spawning"
  BY <1>3 DEF Spawn, batchVars
<1>4. CASE \A f \in Env : ~(FailedWorkerGone(f) \/ Respawn(f) \/ RespawnFails(f)
                            \/ FailedReplacementGone(f) \/ Spawn(f))
  BY <1>4, NextCalm DEF Calm, LiveInv
<1> QED BY <1>1, <1>2, <1>3, <1>4

LEMMA DisposalInvNext ==
    ASSUME TypeOK, LiveInv, DisposalInv, [Next]_vars
    PROVE  DisposalInv'
<1>1. \A e \in Env : DisposalStep(e)
  BY DisposalSteps
<1>2. sup' \in {"draining", "down"} => batch' \in {"failed", "closed"}
  BY <1>1, SupervisorAssumption DEF DisposalStep, DisposalInv
<1>3. ASSUME NEW e \in Env
      PROVE  /\ recovery'[e] = "revalidating" => restartCount'[e] >= 1
             /\ disposal'[e] # "none" => Ending'
             /\ batch' \in {"failed", "closed"} => disposal'[e] = "done"
             /\ disposal'[e] = "closing" /\ 1 \in Live(e)' => 1 \in snapshot'[e]
             /\ disposal'[e] = "done" => 1 \notin Live(e)'
  <2>1. restartCount[e] \in Nat
    BY SupervisorAssumption DEF TypeOK
  <2>2. recovery'[e] = "revalidating" => restartCount'[e] >= 1
    BY <1>1, <2>1 DEF DisposalStep, DisposalInv
  <2>3. disposal'[e] # "none" => Ending'
    BY <1>1 DEF DisposalStep, DisposalInv, Ending
  <2>4. batch' \in {"failed", "closed"} => disposal'[e] = "done"
    BY <1>1 DEF DisposalStep, DisposalInv, Ending
  <2>5. disposal'[e] # "none" /\ 1 \in Live(e)' => 1 \in Live(e)
    BY <2>3, FirstWorkerSteps DEF Ending
  <2>6. disposal'[e] = "closing" /\ 1 \in Live(e)' => 1 \in snapshot'[e]
    BY <1>1, <2>5 DEF DisposalStep, DisposalInv
  <2>7. disposal'[e] = "done" => 1 \notin Live(e)'
    BY <1>1, <2>5 DEF DisposalStep, DisposalInv
  <2> QED BY <2>2, <2>3, <2>4, <2>6, <2>7
<1> QED BY <1>2, <1>3 DEF DisposalInv

LEMMA DisposalInvariant == Spec => []DisposalInv
<1>1. Init => TypeOK /\ LiveInv /\ DisposalInv
  <2>1. Init => DisposalInv
    BY DEF Init, DisposalInv
  <2> QED BY <2>1, InitType, LiveInvInit
<1>2. TypeOK /\ LiveInv /\ DisposalInv /\ [Next]_vars => TypeOK' /\ LiveInv' /\ DisposalInv'
  BY NextType, LiveInvNext, DisposalInvNext
<1> QED BY <1>1, <1>2, PTL DEF Spec

\* "CloseBatch always disposes every worker" and "creation is all-or-nothing", as
\* far as they go with restarts: the worker that CreateBatch forked for an
\* environment is gone when the batch has failed or is closed; one that an ended
\* batch leaves behind is a replacement.
THEOREM FirstWorkerGone == Spec => []FirstWorkerIsDisposed
<1>1. DisposalInv => FirstWorkerIsDisposed
  BY DEF DisposalInv, FirstWorkerIsDisposed
<1> QED BY <1>1, DisposalInvariant, PTL

\* Without restarts that is every worker: neither a closed batch nor a failed one
\* has any, and close() of the supervisor leaves none behind.
THEOREM EndedBatchIsClean == 
    RestartBudget = 0 => (Spec => [](EndedBatchHasNoWorker /\ NothingSurvivesShutdown))
<1> SUFFICES ASSUME RestartBudget = 0
             PROVE  Spec => [](EndedBatchHasNoWorker /\ NothingSurvivesShutdown)
  OBVIOUS
<1>1. \A e \in Env : Live(e) # {} => 1 \in Live(e)
  <2>1. Gen = {1}
    BY DEF Gen
  <2> QED BY <2>1 DEF Live
<1>2. DisposalInv => EndedBatchHasNoWorker /\ NothingSurvivesShutdown
  BY <1>1 DEF DisposalInv, EndedBatchHasNoWorker, CloseDisposesEveryWorker,
     FailedBatchHasNoWorker,
     NothingSurvivesShutdown
<1> QED BY <1>2, DisposalInvariant, PTL

-----------------------------------------------------------------------------
(***************************************************************************)
(* The steps of one share of a call.                                       *)
(***************************************************************************)

\* What a step does to the share of call c for environment e, and to whether its
\* command is the request in flight.
Kept(c, e) == call'[c] = call[c] /\ (pending'[e] = c <=> pending[e] = c)

\* A new call: its command is let through, held back, late or refused.
Enters(c, e) ==
    /\ EventLoopIdle /\ batch = "open"
    /\ call[c] = "idle" \/ c = Closer
    /\ call'[c] # "idle"
    /\ UNCHANGED <<worker, recovery, proc, session, pending, state, active, finalized>>
    /\ \/ thread'[c][e].at \in {"none", "done"}
       \/ call'[c] = "step" /\ thread'[c][e] = [Entering(e, active[e]) EXCEPT !.at = "thrown"]
       \/ call'[c] \in {"step", "finalize"} /\ thread'[c][e] = Entering(e, active[e])
       \/ /\ call'[c] = "reset" /\ thread'[c][e] = Entering(e, episode[e] + 1)
          /\ episode'[e] = episode[e] + 1

Stays(c, e) == Kept(c, e) /\ thread'[c][e] = thread[c][e]

\* The end of a call, or the close of a batch that has none.
Clears(c, e) ==
    /\ pending' = pending /\ thread'[c][e] = NoThread
    /\ thread[c][e].at \in {"none", "done"} \/ (c = Closer /\ batch = "open")

Sends(c, e) ==
    /\ call' = call /\ thread[c][e].at = "resumed" /\ thread'[c][e].at = "sent"
    /\ thread'[c][e].worker = worker[e] /\ thread'[c][e].episode = thread[c][e].episode
    /\ pending[e] = "idle" /\ pending'[e] = c

NotSent(c, e) ==
    /\ Kept(c, e) /\ thread[c][e].at = "resumed" /\ thread'[c][e].at \in {"thrown", "done"}
    /\ thread'[c][e].at = "thrown" => thread'[c][e].worker = worker[e]

Answered(c, e) ==
    /\ EventLoopIdle /\ call' = call /\ pending[e] = c /\ pending'[e] = "idle"
    /\ \E p \in {"breached", "publishing", "done", "thrown"} :
          thread'[c][e] = [thread[c][e] EXCEPT !.at = p]

\* A caller asks for a recovery, or its observation is published.
GoesOn(c, e) ==
    /\ Kept(c, e)
    /\ \/ /\ thread[c][e].at \in {"thrown", "lateThrown"}
          /\ thread'[c][e].at = "joined" /\ recovery'[e] # "none"
       \/ /\ thread[c][e].at = "publishing"
          /\ thread'[c][e].at \in {"done", "lateThrown"}

\* The end of a recovery: the replacement is ready, or there is no worker.
Wakes(c, e) ==
    /\ Kept(c, e) /\ recovery'[e] = "none" /\ recovery[e] # "none"
    /\ thread'[c][e] = [thread[c][e] EXCEPT !.at = Woken(@)]
    /\ ~CurrentLive(e)' \/ (EventLoopIdle /\ session'[e].st = "prepared")

ThreadStep(c, e) ==
    \/ Stays(c, e) \/ Enters(c, e) \/ Clears(c, e) \/ Sends(c, e) \/ NotSent(c, e)
    \/ Answered(c, e) \/ GoesOn(c, e) \/ Wakes(c, e)

LEMMA AtStep ==
    ASSUME TypeOK, NEW d \in Actor, NEW f \in Env, NEW p, At(d, f, p), NEW c \in Actor,
           NEW e \in Env
    PROVE  thread'[c][e] = IF c = d /\ e = f THEN [thread[c][e] EXCEPT !.at = p] ELSE thread[c][e]
BY DEF TypeOK, At

LEMMA RecoveryEndsStep ==
    ASSUME TypeOK, NEW f \in Env, RecoveryEnds(f), NEW c \in Actor, NEW e \in Env
    PROVE  /\ recovery'[e] = IF e = f THEN "none" ELSE recovery[e]
           /\ thread'[c][e] = IF e = f THEN [thread[c][e] EXCEPT !.at = Woken(@)] ELSE thread[c][e]
BY DEF TypeOK, RecoveryEnds

LEMMA SentStep ==
    ASSUME TypeOK, NEW d \in Actor, NEW f \in Env, NEW p, SentTo(d, f, p)
    PROVE  /\ \A c \in Actor, e \in Env : c # d \/ e # f => thread'[c][e] = thread[c][e]
           /\ thread'[d][f].at = p /\ thread'[d][f].worker = worker[f]
           /\ thread'[d][f].episode = thread[d][f].episode
<1>1. thread[d] \in [Env -> Thread] /\ thread[d][f] \in Thread
  BY DEF TypeOK
<1> DEFINE row == [thread[d] EXCEPT ![f].at = p, ![f].worker = worker[f]]
<1>2. /\ row[f].at = p /\ row[f].worker = worker[f] /\ row[f].episode = thread[d][f].episode
      /\ \A e \in Env \ {f} : row[e] = thread[d][e]
  BY <1>1 DEF Thread
<1>3. thread' = [thread EXCEPT ![d] = row]
  BY DEF SentTo
<1>4. thread'[d] = row /\ \A c \in Actor \ {d} : thread'[c] = thread[c]
  BY <1>3 DEF TypeOK
<1> QED BY <1>2, <1>4

LEMMA FaultStep ==
    ASSUME TypeOK, NEW f \in Env, worker' = [worker EXCEPT ![f] = NoWorker], proc' = proc
    PROVE  ~CurrentLive(f)'
BY SupervisorAssumption DEF TypeOK, CurrentLive, Live, NoWorker, Gen

LEMMA RowStep ==
    ASSUME TypeOK, NEW d \in Actor, NEW row, thread' = [thread EXCEPT ![d] = row],
           NEW c \in Actor
    PROVE  thread'[c] = IF c = d THEN row ELSE thread[c]
BY DEF TypeOK

LEMMA AnswerStep ==
    ASSUME TypeOK, NEW d \in Actor, NEW f \in Env,
           NEW p \in {"breached", "publishing", "done", "thrown"}, At(d, f, p),
           EventLoopIdle, pending[f] = d, pending' = [pending EXCEPT ![f] = "idle"],
           call' = call,
           NEW c \in Actor, NEW e \in Env
    PROVE  ThreadStep(c, e)
<1>1. thread'[c][e] = IF c = d /\ e = f THEN [thread[c][e] EXCEPT !.at = p] ELSE thread[c][e]
  BY AtStep
<1>2. pending'[e] = IF e = f THEN "idle" ELSE pending[e]
  BY DEF TypeOK
<1>3. CASE c = d /\ e = f
  BY <1>1, <1>2, <1>3 DEF ThreadStep, Answered
<1>4. CASE ~(c = d /\ e = f)
  BY <1>1, <1>2, <1>4, SupervisorAssumption DEF ThreadStep, Stays, Kept, Actor
<1> QED BY <1>3, <1>4

LEMMA ThreadSteps ==
    ASSUME TypeOK, LiveInv, [Next]_vars, NEW c \in Actor, NEW e \in Env
    PROVE  ThreadStep(c, e)
<1> USE SupervisorAssumption DEF Actor
<1>1. ASSUME NEW d \in Call, NEW S \in SUBSET Env, ResetBatch(d, S) PROVE ThreadStep(c, e)
  BY <1>1, RowStep DEF ThreadStep, Stays, Enters, Kept, TypeOK, MayStart, NoThread, Refused,
     NextEpisode, ResetBatch, batchVars, envVars, workerVars, callVars
<1>2. ASSUME NEW d \in Call, NEW S \in SUBSET Env, FinalizeBatch(d, S) PROVE ThreadStep(c, e)
  BY <1>2, RowStep DEF ThreadStep, Stays, Enters, Kept, TypeOK, MayStart, NoThread, Refused,
     NextEpisode, FinalizeBatch, FinalizeStarts, batchVars, envVars, workerVars, callVars
<1>3. ASSUME NEW d \in Call, NEW late \in SUBSET Env, StepBatch(d, late) PROVE ThreadStep(c, e)
  BY <1>3, RowStep DEF ThreadStep, Stays, Enters, Kept, TypeOK, MayStart, NoThread, Refused,
     NextEpisode, StepBatch, batchVars, envVars, workerVars, callVars
<1>4. ASSUME NEW d \in Call, Return(d) PROVE ThreadStep(c, e)
  <2>1. thread'[c] = IF c = d THEN [f \in Env |-> NoThread] ELSE thread[c]
    BY <1>4, RowStep DEF Return
  <2>2. call'[c] = (IF c = d THEN "idle" ELSE call[c]) /\ pending' = pending
    BY <1>4 DEF Return, TypeOK, workerVars
  <2>3. thread[d][e].at \in {"none", "done"}
    BY <1>4 DEF Return
  <2>4. CASE c = d
    <3>1. thread'[c][e] = NoThread
      BY <2>1, <2>4
    <3>2. thread[c][e].at \in {"none", "done"}
      BY <2>3, <2>4
    <3> HIDE DEF Actor
    <3>3. Clears(c, e)
      BY ONLY <2>2, <3>1, <3>2 DEF Clears
    <3> QED BY <3>3 DEF ThreadStep
  <2>5. CASE c # d
    BY <2>1, <2>2, <2>5 DEF ThreadStep, Stays, Kept
  <2> QED BY <2>4, <2>5
<1>5. ASSUME NEW d \in Actor, NEW f \in Env, Dispatch(d, f) PROVE ThreadStep(c, e)
  <2>1. UNCHANGED call /\ thread[d][f].at = "resumed" /\ thread[d][f] \in Thread
    BY <1>5 DEF Dispatch, TypeOK
  <2>2. CASE SentTo(d, f, "thrown") /\ UNCHANGED pending
    BY <2>1, <2>2, SentStep DEF ThreadStep, Stays, NotSent, Kept
  <2>3. CASE At(d, f, "done") /\ UNCHANGED pending
    <3>1. thread'[c][e] = IF c = d /\ e = f THEN [thread[c][e] EXCEPT !.at = "done"] ELSE thread[c][e]
      BY <2>3, AtStep
    <3>2. CASE c = d /\ e = f
      <4>1. thread'[c][e].at = "done"
        BY <2>1, <3>1, <3>2 DEF Thread
      <4> QED BY <2>1, <2>3, <3>2, <4>1 DEF ThreadStep, NotSent, Kept
    <3>3. CASE ~(c = d /\ e = f)
      BY <2>1, <2>3, <3>1, <3>3 DEF ThreadStep, Stays, Kept
    <3> QED BY <3>2, <3>3
  <2>4. CASE /\ CurrentLive(f) /\ pending[f] = "idle"
             /\ SentTo(d, f, "sent") /\ pending' = [pending EXCEPT ![f] = d]
    <3>1. pending'[e] = IF e = f THEN d ELSE pending[e]
      BY <2>4 DEF TypeOK
    <3>2. CASE c = d /\ e = f
      BY <2>1, <2>4, <3>1, <3>2, SentStep DEF ThreadStep, Sends
    <3>3. CASE ~(c = d /\ e = f)
      BY <2>1, <2>4, <3>1, <3>3, SentStep DEF ThreadStep, Stays, Kept
    <3> QED BY <3>2, <3>3
  <2> QED BY <1>5, <2>2, <2>3, <2>4 DEF Dispatch
<1>6. ASSUME NEW d \in Actor, NEW f \in Env, CatchInfrastructure(d, f) PROVE ThreadStep(c, e)
  BY <1>6 DEF ThreadStep, Stays, GoesOn, Kept, TypeOK, CatchInfrastructure, Recover, At,
     batchVars, envVars, workerVars, callVars
<1>7. ASSUME NEW d \in Actor, NEW f \in Env, ResetAnswered(d, f) PROVE ThreadStep(c, e)
  BY <1>7, AnswerStep DEF ResetAnswered, Answering, Breach, EpisodeBegins
<1>8. ASSUME NEW d \in Actor, NEW f \in Env, StepAnswered(d, f) PROVE ThreadStep(c, e)
  BY <1>8, AnswerStep DEF StepAnswered, Answering, Breach
<1>9. ASSUME NEW d \in Actor, NEW f \in Env, FinalizeAnswered(d, f) PROVE ThreadStep(c, e)
  BY <1>9, AnswerStep DEF FinalizeAnswered, Answering, Breach
<1>10. ASSUME NEW d \in Actor, NEW f \in Env, Rejected(d, f) PROVE ThreadStep(c, e)
  BY <1>10, AnswerStep DEF Rejected, Answering
<1>11. ASSUME NEW d \in Actor, NEW f \in Env, CommandFails(d, f) PROVE ThreadStep(c, e)
  BY <1>11, AnswerStep DEF CommandFails, Answering
<1>12. ASSUME NEW d \in Actor, NEW f \in Env, PluginFails(d, f) PROVE ThreadStep(c, e)
  BY <1>12, AnswerStep DEF PluginFails, Answering
<1>13. ASSUME NEW d \in Actor, NEW f \in Env, Uncertain(d, f) PROVE ThreadStep(c, e)
  BY <1>13, AnswerStep DEF Uncertain, Answering
<1>14. ASSUME NEW d \in Actor, NEW f \in Env, Publish(d, f) PROVE ThreadStep(c, e)
  BY <1>14 DEF ThreadStep, Stays, GoesOn, Kept, TypeOK, Publish, At, batchVars, envVars,
     workerVars, callVars
<1>15. ASSUME NEW f \in Env, NEW w \in Gen, Exit(f, w) PROVE ThreadStep(c, e)
  <2>1. /\ call' = call
        /\ pending' = [pending EXCEPT ![f] = IF w = worker[f] THEN "idle" ELSE pending[f]]
        /\ EventLoopIdle
    BY <1>15 DEF Exit
  <2> DEFINE at(d) == IF w = worker[f] /\ pending[f] # "idle" /\ pending[f] = d
                      THEN "thrown" ELSE thread[d][f].at
  <2>2. thread'[c] = [thread[c] EXCEPT ![f].at = at(c)]
    <3>1. thread' = [d \in Actor |-> [thread[d] EXCEPT ![f].at = at(d)]]
      BY <1>15 DEF Exit
    <3> QED BY <3>1
  <2>3. thread[c] \in [Env -> Thread] /\ thread[c][f] \in Thread
    BY DEF TypeOK
  <2>4. w = worker[f]
    BY <1>15 DEF Exit, LiveInv, LiveIsCurrent
  <2>5. CASE e = f /\ pending[f] = c
    <3>1. thread'[c][e] = [thread[c][e] EXCEPT !.at = "thrown"]
      BY <2>2, <2>3, <2>4, <2>5
    <3>2. pending'[e] = "idle"
      BY <2>1, <2>4, <2>5 DEF TypeOK
    <3> QED BY <2>1, <2>5, <3>1, <3>2 DEF ThreadStep, Answered
  <2>6. CASE ~(e = f /\ pending[f] = c)
    <3>1. thread'[c][e] = thread[c][e]
      <4>1. CASE e = f
        <5>1. [thread[c][f] EXCEPT !.at = at(c)] = thread[c][f]
          BY <2>3, <2>6, <4>1 DEF Thread
        <5> QED BY <2>2, <2>3, <4>1, <5>1
      <4> QED BY <2>2, <2>3, <4>1
    <3>2. pending'[e] = IF e = f THEN "idle" ELSE pending[e]
      BY <2>1, <2>4 DEF TypeOK
    <3> QED BY <2>1, <2>6, <3>1, <3>2 DEF ThreadStep, Stays, Kept
  <2> QED BY <2>5, <2>6
<1>16. ASSUME NEW f \in Env, HealthBreach(f) PROVE ThreadStep(c, e)
  BY <1>16 DEF ThreadStep, Stays, GoesOn, Kept, TypeOK, HealthBreach, Recover, batchVars,
     envVars, workerVars, callVars
<1>17. ASSUME NEW f \in Env, WatchdogFires(f) PROVE ThreadStep(c, e)
  BY <1>17 DEF ThreadStep, Stays, GoesOn, Kept, TypeOK, WatchdogFires, batchVars, envVars,
     workerVars, callVars
<1>18. ASSUME NEW f \in Env, Drained(f) PROVE ThreadStep(c, e)
  BY <1>18 DEF ThreadStep, Stays, GoesOn, Kept, TypeOK, Drained, Restarting, ClosedPending,
     batchVars, envVars, workerVars, callVars
<1>19. ASSUME NEW f \in Env, FailedWorkerGone(f) PROVE ThreadStep(c, e)
  <2>1. UNCHANGED <<call, pending, proc>>
    BY <1>19 DEF FailedWorkerGone
  <2>2. CASE Fault(f)
    <3>1. RecoveryEnds(f) /\ recovery[f] # "none" /\ ~CurrentLive(f)'
      BY <1>19, <2>1, <2>2, FaultStep DEF FailedWorkerGone, Fault
    <3> QED BY <2>1, <3>1, RecoveryEndsStep DEF ThreadStep, Stays, Wakes, Kept
  <2>3. CASE UNCHANGED thread
    BY <2>1, <2>3 DEF ThreadStep, Stays, Kept
  <2> QED BY <1>19, <2>2, <2>3 DEF FailedWorkerGone
<1>20. ASSUME NEW f \in Env, Respawn(f) PROVE ThreadStep(c, e)
  <2>1. pending[f] = "idle" /\ pending' = [pending EXCEPT ![f] = "initialize"]
    BY <1>20 DEF Respawn, LiveInv, RecoveryForksAlone, PendingOnLiveWorker, CurrentLive
  <2> QED BY <1>20, <2>1 DEF ThreadStep, Stays, Kept, TypeOK, Respawn, callVars
<1>21. ASSUME NEW f \in Env, RespawnFails(f) PROVE ThreadStep(c, e)
  <2>1. RecoveryEnds(f) /\ recovery[f] # "none" /\ UNCHANGED <<call, pending>> /\ ~CurrentLive(f)'
    BY <1>21, FaultStep DEF RespawnFails, Fault
  <2> QED BY <2>1, RecoveryEndsStep DEF ThreadStep, Stays, Wakes, Kept
<1>22. ASSUME NEW f \in Env, Replaced(f) PROVE ThreadStep(c, e)
  <2>1. /\ RecoveryEnds(f) /\ recovery[f] = "initializing" /\ EventLoopIdle
        /\ pending[f] = "initialize" /\ pending'[f] = "idle" /\ session'[f].st = "prepared"
        /\ \A g \in Env \ {f} : pending'[g] = pending[g]
        /\ UNCHANGED call
    BY <1>22 DEF Replaced, SessionTo, TypeOK
  <2> QED BY <2>1, RecoveryEndsStep DEF ThreadStep, Stays, Wakes, Kept
<1>23. ASSUME NEW f \in Env, ReplacementFails(f) PROVE ThreadStep(c, e)
  BY <1>23 DEF ThreadStep, Stays, GoesOn, Kept, TypeOK, ReplacementFails, batchVars, envVars,
     workerVars, callVars
<1>24. ASSUME NEW f \in Env, FailedReplacementGone(f) PROVE ThreadStep(c, e)
  <2>1. RecoveryEnds(f) /\ recovery[f] # "none" /\ UNCHANGED <<call, pending>> /\ ~CurrentLive(f)'
    BY <1>24, FaultStep DEF FailedReplacementGone
  <2> QED BY <2>1, RecoveryEndsStep DEF ThreadStep, Stays, Wakes, Kept
<1>25. ASSUME NEW f \in Env, CloseAnswered(f) PROVE ThreadStep(c, e)
  BY <1>25 DEF ThreadStep, Stays, GoesOn, Kept, TypeOK, CloseAnswered, batchVars, envVars,
     workerVars, callVars
<1>26. ASSUME NEW f \in Env, Spawn(f) PROVE ThreadStep(c, e)
  BY <1>26 DEF ThreadStep, Stays, GoesOn, Kept, TypeOK, Spawn, NewWorker, SessionTo, batchVars,
     envVars, workerVars, callVars
<1>27. ASSUME NEW f \in Env, Initialized(f) PROVE ThreadStep(c, e)
  BY <1>27 DEF ThreadStep, Stays, Kept, TypeOK, Creating, Initialized, callVars
<1>28. ASSUME NEW f \in Env, InitializeFails(f) PROVE ThreadStep(c, e)
  BY <1>28 DEF ThreadStep, Stays, Kept, TypeOK, Creating, InitializeFails, callVars
<1>29. ASSUME NEW f \in Env, DisposeWorkers(f) PROVE ThreadStep(c, e)
  BY <1>29 DEF ThreadStep, Stays, GoesOn, Kept, TypeOK, DisposeWorkers, ClosedPending,
     batchVars, envVars, workerVars, callVars
<1>30. ASSUME NEW f \in Env, Disposed(f) PROVE ThreadStep(c, e)
  BY <1>30 DEF ThreadStep, Stays, GoesOn, Kept, TypeOK, Disposed, batchVars, envVars,
     workerVars, callVars
<1>31. ASSUME SpawnFails PROVE ThreadStep(c, e)
  BY <1>31 DEF ThreadStep, Stays, GoesOn, Kept, TypeOK, SpawnFails, batchVars, envVars,
     workerVars, callVars
<1>32. ASSUME InitializeAll PROVE ThreadStep(c, e)
  BY <1>32 DEF ThreadStep, Stays, GoesOn, Kept, TypeOK, InitializeAll, batchVars, envVars,
     workerVars, callVars
<1>33. ASSUME CreateCompletes PROVE ThreadStep(c, e)
  BY <1>33 DEF ThreadStep, Stays, GoesOn, Kept, TypeOK, CreateCompletes, batchVars, envVars,
     workerVars, callVars
<1>34. ASSUME CleanupWorkers PROVE ThreadStep(c, e)
  BY <1>34 DEF ThreadStep, Stays, GoesOn, Kept, TypeOK, CleanupWorkers, CloseAllLive,
     ClosedPending, batchVars, envVars, workerVars, callVars
<1>35. ASSUME CreateFails PROVE ThreadStep(c, e)
  BY <1>35 DEF ThreadStep, Stays, GoesOn, Kept, TypeOK, CreateFails, batchVars, envVars,
     workerVars, callVars
<1>36. ASSUME CloseFinalizes PROVE ThreadStep(c, e)
  BY <1>36, RowStep DEF ThreadStep, Stays, Enters, Kept, TypeOK, MayStart, NoThread, Refused,
     NextEpisode, CloseFinalizes, FinalizeStarts, batchVars, envVars, workerVars, callVars
<1>37. ASSUME CloseDisposes PROVE ThreadStep(c, e)
  BY <1>37, RowStep DEF ThreadStep, Stays, Clears, Kept, TypeOK, CloseDisposes, Dispose,
     batchVars, envVars, workerVars, callVars
<1>38. ASSUME CloseFinalized PROVE ThreadStep(c, e)
  <2>1. thread'[c] = IF c = Closer THEN [f \in Env |-> NoThread] ELSE thread[c]
    <3>1. thread' = [thread EXCEPT ![Closer] = [f \in Env |-> NoThread]]
      BY <1>38 DEF CloseFinalized, Dispose
    <3>2. Closer \in Actor
      OBVIOUS
    <3> HIDE DEF Actor
    <3> QED BY ONLY TypeOK, <3>1, <3>2, c \in Actor, RowStep
  <2>2. call'[c] = (IF c = Closer THEN "idle" ELSE call[c]) /\ pending' = pending
    BY <1>38 DEF CloseFinalized, Dispose, TypeOK, workerVars
  <2>3. thread[Closer][e].at \in {"none", "done"}
    BY <1>38 DEF CloseFinalized
  <2>4. CASE c = Closer
    <3>1. thread'[c][e] = NoThread
      BY <2>1, <2>4
    <3>2. thread[c][e].at \in {"none", "done"}
      BY <2>3, <2>4
    <3> HIDE DEF Actor
    <3>3. Clears(c, e)
      BY ONLY <2>2, <3>1, <3>2 DEF Clears
    <3> QED BY <3>3 DEF ThreadStep
  <2>5. CASE c # Closer
    BY <2>1, <2>2, <2>5 DEF ThreadStep, Stays, Kept
  <2> QED BY <2>4, <2>5
<1>39. ASSUME BatchCloses PROVE ThreadStep(c, e)
  BY <1>39 DEF ThreadStep, Stays, GoesOn, Kept, TypeOK, BatchCloses, batchVars, envVars,
     workerVars, callVars
<1>40. ASSUME BeginShutdown PROVE ThreadStep(c, e)
  BY <1>40 DEF ThreadStep, Stays, GoesOn, Kept, TypeOK, BeginShutdown, batchVars, envVars,
     workerVars, callVars
<1>41. ASSUME ShutdownWorkers PROVE ThreadStep(c, e)
  BY <1>41 DEF ThreadStep, Stays, GoesOn, Kept, TypeOK, ShutdownWorkers, CloseAllLive,
     ClosedPending, batchVars, envVars, workerVars, callVars
<1>42. ASSUME ShutdownEnds PROVE ThreadStep(c, e)
  BY <1>42 DEF ThreadStep, Stays, GoesOn, Kept, TypeOK, ShutdownEnds, batchVars, envVars,
     workerVars, callVars
<1>43. ASSUME Terminated PROVE ThreadStep(c, e)
  BY <1>43 DEF ThreadStep, Stays, GoesOn, Kept, TypeOK, Terminated, vars, batchVars, envVars,
     workerVars, callVars
<1>44. CASE UNCHANGED vars
  BY <1>44 DEF ThreadStep, Stays, GoesOn, Kept, TypeOK, vars, batchVars, envVars, workerVars,
     callVars
<1> QED BY <1>1, <1>2, <1>3, <1>4, <1>5, <1>6, <1>7, <1>8, <1>9, <1>10, <1>11, <1>12, <1>13,
   <1>14, <1>15, <1>16, <1>17, <1>18, <1>19, <1>20, <1>21, <1>22, <1>23, <1>24, <1>25, <1>26,
   <1>27, <1>28, <1>29, <1>30, <1>31, <1>32, <1>33, <1>34, <1>35, <1>36, <1>37, <1>38, <1>39,
   <1>40, <1>41, <1>42, <1>43, <1>44
   DEF Next, Command, Creation, Closing, Shutdown

-----------------------------------------------------------------------------
(***************************************************************************)
(* The steps of one environment.                                           *)
(***************************************************************************)

\* What a step does to environment e: its cells, its worker and the request in
\* flight.
Cells(e) == <<state[e], session[e], active[e], finalized[e]>>
Process(e) == <<worker[e], proc[e]>>

Still(e) == UNCHANGED <<Cells(e), Process(e), recovery[e], pending[e]>>

SendsCommand(e) ==
    /\ UNCHANGED <<Cells(e), Process(e), recovery[e]>>
    /\ CurrentLive(e) /\ pending[e] = "idle" /\ pending'[e] \in Actor /\ Resumed(e)

SendsInitialize(e) ==
    /\ UNCHANGED <<Cells(e), Process(e), recovery[e]>>
    /\ CurrentLive(e) /\ proc[e][worker[e]] = "running"
    /\ pending[e] = "idle" /\ pending'[e] = "initialize"

Alarmed(e) ==
    /\ UNCHANGED <<Cells(e), Process(e), pending[e]>>
    /\ recovery[e] = "none" /\ recovery'[e] = "draining"

Kills(e) ==
    /\ EventLoopIdle
    /\ UNCHANGED <<session[e], active[e], finalized[e]>>
    /\ state'[e] = "restarting"
    /\ recovery[e] = "draining" /\ recovery'[e] = "killing"
    /\ CurrentLive(e)' <=> CurrentLive(e)
    /\ worker'[e] = worker[e]
    /\ pending'[e] = pending[e] \/ (pending[e] = "idle" /\ pending'[e] = "close")

MayRestart(e) ==
    /\ UNCHANGED <<Cells(e), Process(e), pending[e]>>
    /\ recovery[e] = "killing" /\ recovery'[e] = "revalidating"
    /\ ~CurrentLive(e) /\ ~CallContinues(e)

GivesUp(e) ==
    /\ UNCHANGED <<session[e], active[e], finalized[e], pending[e]>>
    /\ state'[e] = "faulted"
    /\ recovery[e] \in {"killing", "revalidating"} /\ recovery'[e] = "none"
    /\ ~CurrentLive(e) /\ ~CurrentLive(e)' /\ ~CallContinues(e)

Forks(e) ==
    /\ EventLoopIdle
    /\ UNCHANGED <<state[e], active[e], finalized[e]>>
    /\ ~CurrentLive(e) /\ session'[e].st = "idle"
    /\ \/ state[e] = "preparing" /\ UNCHANGED <<recovery[e], pending[e]>>
       \/ /\ recovery[e] = "revalidating" /\ recovery'[e] = "initializing"
          /\ pending'[e] = "initialize"

Prepares(e) ==
    /\ EventLoopIdle
    /\ UNCHANGED <<Process(e), active[e], finalized[e]>>
    /\ CurrentLive(e)
    /\ pending[e] = "initialize" /\ pending'[e] = "idle"
    /\ state'[e] = "prepared" /\ session'[e].st = "prepared"
    /\ \/ recovery[e] = "initializing" /\ recovery'[e] = "none"
       \/ recovery[e] # "initializing" /\ recovery'[e] = recovery[e]

Discards(e) ==
    /\ UNCHANGED <<Process(e), session[e], active[e], finalized[e]>>
    /\ EventLoopIdle
    /\ pending[e] = "initialize" /\ pending'[e] = "close"
    /\ state'[e] = "faulted"
    /\ recovery[e] = "initializing" /\ recovery'[e] = "discarding"

Forgets(e) ==
    /\ UNCHANGED <<Cells(e), pending[e]>>
    /\ recovery[e] = "discarding" /\ recovery'[e] = "none"
    /\ ~CurrentLive(e) /\ ~CurrentLive(e)' /\ ~CallContinues(e)

InitializeIsOver(e) ==
    /\ UNCHANGED <<Cells(e), worker[e], recovery[e]>>
    /\ EventLoopIdle
    /\ CurrentLive(e) /\ CurrentLive(e)'
    /\ pending[e] = "initialize" /\ pending'[e] = "idle"
    /\ recovery[e] # "initializing"

CloseIsOver(e) ==
    /\ UNCHANGED <<Cells(e), worker[e], recovery[e]>>
    /\ EventLoopIdle
    /\ CurrentLive(e) /\ CurrentLive(e)'
    /\ pending[e] = "close" /\ pending'[e] = "idle"
    /\ proc'[e][worker[e]] = "killed"

Closes(e) ==
    /\ UNCHANGED <<Cells(e), worker[e], recovery[e]>>
    /\ EventLoopIdle
    /\ CurrentLive(e)' <=> CurrentLive(e)
    /\ pending'[e] = pending[e] \/ (pending[e] = "idle" /\ pending'[e] = "close")
    /\ CurrentLive(e) /\ proc[e][worker[e]] = "killed" => proc'[e][worker[e]] = "killed"

Disposes(e) ==
    /\ UNCHANGED <<session[e], active[e], finalized[e], Process(e), recovery[e], pending[e]>>
    /\ EventLoopIdle
    /\ state'[e] = "closing" /\ batch' = "disposing" /\ batch \in {"open", "finalizing"}

Exits(e) ==
    /\ UNCHANGED <<session[e], active[e], finalized[e], worker[e]>>
    /\ EventLoopIdle
    /\ CurrentLive(e) /\ ~CurrentLive(e)'
    /\ pending'[e] = "idle"
    /\ \/ /\ pending[e] = "initialize" /\ recovery[e] = "initializing"
          /\ recovery'[e] = "discarding" /\ state'[e] = "faulted"
       \/ state'[e] = state[e] /\ ExitExpected(e) /\ recovery'[e] = recovery[e]
       \/ state'[e] = state[e] /\ recovery[e] = "none" /\ recovery'[e] = "draining"
       \/ state'[e] = state[e] /\ recovery[e] # "none" /\ recovery'[e] = recovery[e]

\* The answer of a command reaches the call it is for.
Hears(c, e) ==
    /\ EventLoopIdle
    /\ UNCHANGED <<worker[e], call>>
    /\ CurrentLive(e) /\ CurrentLive(e)'
    /\ pending[e] = c /\ pending'[e] = "idle"
HearsReset(c, e) ==
    /\ Hears(c, e) /\ call[c] = "reset" /\ recovery'[e] = recovery[e]
    /\ session'[e] = [st |-> "ready", episode |-> thread[c][e].episode]
    /\ state'[e] = "ready" /\ active'[e] = thread[c][e].episode /\ finalized'[e] = 0
HearsStep(c, e) ==
    /\ Hears(c, e) /\ call[c] = "step" /\ recovery'[e] = recovery[e]
    /\ session[e].st = "ready" /\ session'[e].episode = session[e].episode
    /\ \/ session'[e].st = "ready" /\ state'[e] = state[e]
       \/ session'[e].st = "terminal" /\ state'[e] = "terminal"
    /\ UNCHANGED <<active[e], finalized[e]>>
HearsFinalize(c, e) ==
    /\ Hears(c, e) /\ call[c] = "finalize" /\ recovery'[e] = recovery[e]
    /\ session[e].st \in {"ready", "terminal", "finalized"}
    /\ session'[e] = [st |-> "finalized", episode |-> session[e].episode]
    /\ state'[e] = "finalized" /\ finalized'[e] = session[e].episode
    /\ active'[e] = active[e]
HearsBreach(c, e) ==
    /\ Hears(c, e) /\ thread'[c][e].at = "breached"
    /\ UNCHANGED <<state[e], active[e], finalized[e]>>
    /\ IF recovery[e] = "none" THEN recovery'[e] = "draining" ELSE recovery'[e] = recovery[e]
HearsFailure(c, e) ==
    /\ Hears(c, e) /\ session'[e].st = "prepared" /\ recovery'[e] = recovery[e]
    /\ \/ state'[e] = "prepared"
       \/ session[e].st \in {"prepared", "finalized"} /\ state'[e] = state[e]
    /\ UNCHANGED <<active[e], finalized[e]>>
HearsNothing(c, e) ==
    /\ Hears(c, e) /\ UNCHANGED <<Cells(e), recovery[e]>>
HearsSomething(c, e) ==
    \/ HearsReset(c, e) \/ HearsStep(c, e) \/ HearsFinalize(c, e)
    \/ HearsBreach(c, e) \/ HearsFailure(c, e) \/ HearsNothing(c, e)

EnvStep(e) ==
    \/ Still(e) \/ SendsCommand(e) \/ SendsInitialize(e) \/ Alarmed(e) \/ Kills(e)
    \/ MayRestart(e) \/ GivesUp(e) \/ Forks(e) \/ Prepares(e) \/ Discards(e) \/ Forgets(e)
    \/ InitializeIsOver(e) \/ CloseIsOver(e) \/ Closes(e) \/ Disposes(e) \/ Exits(e)
    \/ \E c \in Actor : HearsSomething(c, e)

LEMMA EnvSteps ==
    ASSUME TypeOK, LiveInv, [Next]_vars, NEW e \in Env
    PROVE  EnvStep(e)
<1> USE SupervisorAssumption

<1>1. ASSUME NEW d \in Call, NEW S \in SUBSET Env, ResetBatch(d, S) PROVE EnvStep(e)
  BY <1>1, SupervisorAssumption
     DEF EnvStep, Still, Cells, Process, TypeOK, ResetBatch, batchVars, envVars, workerVars,
     callVars
<1>2. ASSUME NEW d \in Call, NEW S \in SUBSET Env, FinalizeBatch(d, S) PROVE EnvStep(e)
  BY <1>2, SupervisorAssumption
     DEF EnvStep, Still, Cells, Process, TypeOK, FinalizeBatch, FinalizeStarts, batchVars,
     envVars, workerVars, callVars
<1>3. ASSUME NEW d \in Call, NEW late \in SUBSET Env, StepBatch(d, late) PROVE EnvStep(e)
  BY <1>3, SupervisorAssumption
     DEF EnvStep, Still, Cells, Process, TypeOK, StepBatch, batchVars, envVars, workerVars,
     callVars
<1>4. ASSUME NEW d \in Call, Return(d) PROVE EnvStep(e)
  BY <1>4, SupervisorAssumption
     DEF EnvStep, Still, Cells, Process, TypeOK, Return, batchVars, envVars, workerVars,
     callVars
<1>5. ASSUME NEW d \in Actor, NEW f \in Env, Dispatch(d, f) PROVE EnvStep(e)
  <2>1. SendsCommand(f) \/ Still(f)
    BY <1>5 DEF SendsCommand, Still, Resumed, Cells, Process, TypeOK, CurrentLive, Live,
       Dispatch, SentTo, At, batchVars, envVars, workerVars, callVars
  <2>2. e # f => Still(e)
    BY <1>5 DEF Still, Cells, Process, TypeOK, Dispatch, SentTo, At, batchVars, envVars,
       workerVars, callVars
  <2> QED BY <2>1, <2>2 DEF EnvStep
<1>6. ASSUME NEW d \in Actor, NEW f \in Env, CatchInfrastructure(d, f) PROVE EnvStep(e)
  <2>1. Alarmed(f) \/ Still(f)
    BY <1>6 DEF Alarmed, Still, Cells, Process, TypeOK, CurrentLive, Live, CatchInfrastructure,
       Recover, At, batchVars, envVars, workerVars, callVars
  <2>2. e # f => Still(e)
    BY <1>6 DEF Still, Cells, Process, TypeOK, CatchInfrastructure, Recover, At, batchVars,
       envVars, workerVars, callVars
  <2> QED BY <2>1, <2>2 DEF EnvStep
<1>7. ASSUME NEW d \in Actor, NEW f \in Env, ResetAnswered(d, f) PROVE EnvStep(e)
  <2>1. HearsSomething(d, f)
    BY <1>7 DEF Hears, HearsReset, HearsStep, HearsFinalize, HearsBreach, HearsFailure,
       HearsNothing, HearsSomething, Cells, Process, TypeOK, CurrentLive, Live, ResetAnswered,
       Answering, Breach, EpisodeBegins, SessionTo, Recover, At, ResetRequired, Session,
       Thread, batchVars, envVars, workerVars, callVars
  <2>2. e # f => Still(e)
    BY <1>7 DEF Still, Cells, Process, TypeOK, ResetAnswered, Answering, Breach, EpisodeBegins,
       SessionTo, Recover, At, batchVars, envVars, workerVars, callVars
  <2> QED BY <2>1, <2>2 DEF EnvStep
<1>8. ASSUME NEW d \in Actor, NEW f \in Env, StepAnswered(d, f) PROVE EnvStep(e)
  <2>1. HearsSomething(d, f)
    BY <1>8 DEF Hears, HearsReset, HearsStep, HearsFinalize, HearsBreach, HearsFailure,
       HearsNothing, HearsSomething, Cells, Process, TypeOK, CurrentLive, Live, StepAnswered,
       Answering, Breach, SessionSteps, SessionTo, Recover, At, ResetRequired, Session, Thread,
       batchVars, envVars, workerVars, callVars
  <2>2. e # f => Still(e)
    BY <1>8 DEF Still, Cells, Process, TypeOK, StepAnswered, Answering, Breach, SessionSteps,
       SessionTo, Recover, At, batchVars, envVars, workerVars, callVars
  <2> QED BY <2>1, <2>2 DEF EnvStep
<1>9. ASSUME NEW d \in Actor, NEW f \in Env, FinalizeAnswered(d, f) PROVE EnvStep(e)
  <2>1. HearsSomething(d, f)
    BY <1>9 DEF Hears, HearsReset, HearsStep, HearsFinalize, HearsBreach, HearsFailure,
       HearsNothing, HearsSomething, Cells, Process, TypeOK, CurrentLive, Live,
       FinalizeAnswered, Answering, Breach, SessionTo, Recover, At, ResetRequired, Session,
       Thread, batchVars, envVars, workerVars, callVars
  <2>2. e # f => Still(e)
    BY <1>9 DEF Still, Cells, Process, TypeOK, FinalizeAnswered, Answering, Breach, SessionTo,
       Recover, At, batchVars, envVars, workerVars, callVars
  <2> QED BY <2>1, <2>2 DEF EnvStep
<1>10. ASSUME NEW d \in Actor, NEW f \in Env, Rejected(d, f) PROVE EnvStep(e)
  <2>1. HearsSomething(d, f)
    BY <1>10 DEF Hears, HearsReset, HearsStep, HearsFinalize, HearsBreach, HearsFailure,
       HearsNothing, HearsSomething, Cells, Process, TypeOK, CurrentLive, Live, Rejected,
       Answering, At, ResetRequired, Session, Thread, batchVars, envVars, workerVars, callVars
  <2>2. e # f => Still(e)
    BY <1>10 DEF Still, Cells, Process, TypeOK, Rejected, Answering, At, batchVars, envVars,
       workerVars, callVars
  <2> QED BY <2>1, <2>2 DEF EnvStep
<1>11. ASSUME NEW d \in Actor, NEW f \in Env, CommandFails(d, f) PROVE EnvStep(e)
  <2>1. HearsSomething(d, f)
    BY <1>11 DEF Hears, HearsReset, HearsStep, HearsFinalize, HearsBreach, HearsFailure,
       HearsNothing, HearsSomething, Cells, Process, TypeOK, CurrentLive, Live, CommandFails,
       Answering, ResetRequired, SessionTo, SessionSteps, At, ResetRequired, Session, Thread,
       batchVars, envVars, workerVars, callVars
  <2>2. e # f => Still(e)
    BY <1>11 DEF Still, Cells, Process, TypeOK, CommandFails, Answering, ResetRequired,
       SessionTo, SessionSteps, At, batchVars, envVars, workerVars, callVars
  <2> QED BY <2>1, <2>2 DEF EnvStep
<1>12. ASSUME NEW d \in Actor, NEW f \in Env, PluginFails(d, f) PROVE EnvStep(e)
  <2>1. HearsSomething(d, f)
    BY <1>12 DEF Hears, HearsReset, HearsStep, HearsFinalize, HearsBreach, HearsFailure,
       HearsNothing, HearsSomething, Cells, Process, TypeOK, CurrentLive, Live, PluginFails,
       Answering, ResetRequired, SessionTo, SessionSteps, At, ResetRequired, Session, Thread,
       batchVars, envVars, workerVars, callVars
  <2>2. e # f => Still(e)
    BY <1>12 DEF Still, Cells, Process, TypeOK, PluginFails, Answering, ResetRequired,
       SessionTo, SessionSteps, At, batchVars, envVars, workerVars, callVars
  <2> QED BY <2>1, <2>2 DEF EnvStep
<1>13. ASSUME NEW d \in Actor, NEW f \in Env, Uncertain(d, f) PROVE EnvStep(e)
  <2>1. HearsSomething(d, f)
    <3>1. CurrentLive(f) /\ worker[f] \in Gen
      BY <1>13 DEF Uncertain, LiveInv, PendingOnLiveWorker, CurrentLive, Live, Actor
    <3>2. CurrentLive(f)'
      <4>1. proc'[f][worker[f]] = "killed" /\ worker' = worker
        BY <1>13, <3>1 DEF Uncertain, TypeOK
      <4> QED BY <3>1, <4>1 DEF CurrentLive, Live
    <3>3. pending[f] = d /\ pending'[f] = "idle" /\ EventLoopIdle /\ call' = call
      BY <1>13 DEF Uncertain, TypeOK
    <3>4. UNCHANGED <<worker, state, session, active, finalized, recovery>>
      BY <1>13 DEF Uncertain, envVars
    <3> QED BY <3>1, <3>2, <3>3, <3>4 DEF Hears, HearsNothing, HearsSomething, Cells
  <2>2. e # f => Still(e)
    BY <1>13 DEF Still, Cells, Process, TypeOK, Uncertain, envVars
  <2> QED BY <2>1, <2>2 DEF EnvStep
<1>14. ASSUME NEW d \in Actor, NEW f \in Env, Publish(d, f) PROVE EnvStep(e)
  BY <1>14, SupervisorAssumption
     DEF EnvStep, Still, Cells, Process, TypeOK, Publish, At, batchVars, envVars, workerVars,
     callVars
<1>15. ASSUME NEW f \in Env, NEW w \in Gen, Exit(f, w) PROVE EnvStep(e)
  <2>1. Exits(f)
    BY <1>15 DEF Exits, Cells, Process, TypeOK, CurrentLive, Live, Exit, Recover, LiveInv,
       LiveIsCurrent, batchVars, envVars, workerVars, callVars
  <2>2. e # f => Still(e)
    BY <1>15 DEF Still, Cells, Process, TypeOK, Exit, Recover, batchVars, envVars, workerVars,
       callVars
  <2> QED BY <2>1, <2>2 DEF EnvStep
<1>16. ASSUME NEW f \in Env, HealthBreach(f) PROVE EnvStep(e)
  <2>1. Alarmed(f)
    BY <1>16 DEF Alarmed, Cells, Process, TypeOK, CurrentLive, Live, HealthBreach, Recover,
       batchVars, envVars, workerVars, callVars
  <2>2. e # f => Still(e)
    BY <1>16 DEF Still, Cells, Process, TypeOK, HealthBreach, Recover, batchVars, envVars,
       workerVars, callVars
  <2> QED BY <2>1, <2>2 DEF EnvStep
<1>17. ASSUME NEW f \in Env, WatchdogFires(f) PROVE EnvStep(e)
  <2>1. Alarmed(f) \/ Still(f)
    BY <1>17 DEF Alarmed, Still, Cells, Process, TypeOK, CurrentLive, Live, WatchdogFires,
       batchVars, envVars, workerVars, callVars
  <2>2. e # f => Still(e)
    BY <1>17 DEF Still, Cells, Process, TypeOK, WatchdogFires, batchVars, envVars, workerVars,
       callVars
  <2> QED BY <2>1, <2>2 DEF EnvStep
<1>18. ASSUME NEW f \in Env, Drained(f) PROVE EnvStep(e)
  <2>1. Kills(f)
    BY <1>18 DEF Kills, Cells, Process, TypeOK, CurrentLive, Live, Drained, Restarting,
       ClosedPending, batchVars, envVars, workerVars, callVars
  <2>2. e # f => Still(e)
    BY <1>18 DEF Still, Cells, Process, TypeOK, Drained, Restarting, ClosedPending, batchVars,
       envVars, workerVars, callVars
  <2> QED BY <2>1, <2>2 DEF EnvStep
<1>19. ASSUME NEW f \in Env, FailedWorkerGone(f) PROVE EnvStep(e)
  <2>1. CASE Fault(f)
    BY <1>19, <2>1 DEF EnvStep, Still, GivesUp, Cells, Process, TypeOK, CurrentLive, Live,
       FailedWorkerGone,
       Fault, RecoveryEnds, NoWorker, Gen
  <2>2. CASE /\ recovery' = [recovery EXCEPT ![f] = "revalidating"]
             /\ UNCHANGED <<state, worker>>
    BY <1>19, <2>2 DEF EnvStep, Still, MayRestart, Cells, Process, TypeOK, FailedWorkerGone
  <2> QED BY <1>19, <2>1, <2>2 DEF FailedWorkerGone
<1>20. ASSUME NEW f \in Env, Respawn(f) PROVE EnvStep(e)
  <2>1. Forks(f)
    BY <1>20 DEF Forks, Cells, Process, TypeOK, CurrentLive, Live, Respawn, NewWorker,
       SessionTo, LiveInv, RecoveryForksAlone, batchVars, envVars, workerVars, callVars
  <2>2. e # f => Still(e)
    BY <1>20 DEF Still, Cells, Process, TypeOK, Respawn, NewWorker, SessionTo, batchVars,
       envVars, workerVars, callVars
  <2> QED BY <2>1, <2>2 DEF EnvStep
<1>21. ASSUME NEW f \in Env, RespawnFails(f) PROVE EnvStep(e)
  <2>1. GivesUp(f)
    BY <1>21 DEF GivesUp, Cells, Process, TypeOK, CurrentLive, Live, RespawnFails, Fault,
       RecoveryEnds, EventLoopIdle, LiveInv, RecoveryForksAlone, batchVars, envVars,
       workerVars, callVars
  <2>2. e # f => Still(e)
    BY <1>21 DEF Still, Cells, Process, TypeOK, RespawnFails, Fault, RecoveryEnds, batchVars,
       envVars, workerVars, callVars
  <2> QED BY <2>1, <2>2 DEF EnvStep
<1>22. ASSUME NEW f \in Env, Replaced(f) PROVE EnvStep(e)
  <2>1. Prepares(f)
    BY <1>22 DEF Prepares, Cells, Process, TypeOK, CurrentLive, Live, Replaced, RecoveryEnds,
       SessionTo, batchVars, envVars, workerVars, callVars
  <2>2. e # f => Still(e)
    BY <1>22 DEF Still, Cells, Process, TypeOK, Replaced, RecoveryEnds, SessionTo, batchVars,
       envVars, workerVars, callVars
  <2> QED BY <2>1, <2>2 DEF EnvStep
<1>23. ASSUME NEW f \in Env, ReplacementFails(f) PROVE EnvStep(e)
  <2>1. Discards(f)
    BY <1>23 DEF Discards, Cells, Process, TypeOK, CurrentLive, Live, ReplacementFails,
       batchVars, envVars, workerVars, callVars
  <2>2. e # f => Still(e)
    BY <1>23 DEF Still, Cells, Process, TypeOK, ReplacementFails, batchVars, envVars,
       workerVars, callVars
  <2> QED BY <2>1, <2>2 DEF EnvStep
<1>24. ASSUME NEW f \in Env, FailedReplacementGone(f) PROVE EnvStep(e)
  <2>1. Forgets(f)
    BY <1>24 DEF Forgets, Cells, Process, TypeOK, CurrentLive, Live, FailedReplacementGone,
       RecoveryEnds, NoWorker, Gen, batchVars, envVars, workerVars, callVars
  <2>2. e # f => Still(e)
    BY <1>24 DEF Still, Cells, Process, TypeOK, FailedReplacementGone, RecoveryEnds, batchVars,
       envVars, workerVars, callVars
  <2> QED BY <2>1, <2>2 DEF EnvStep
<1>25. ASSUME NEW f \in Env, CloseAnswered(f) PROVE EnvStep(e)
  <2>1. CloseIsOver(f)
    BY <1>25 DEF CloseIsOver, Cells, Process, TypeOK, CurrentLive, Live, CloseAnswered,
       LiveInv, PendingOnLiveWorker, batchVars, envVars, workerVars, callVars
  <2>2. e # f => Still(e)
    BY <1>25 DEF Still, Cells, Process, TypeOK, CloseAnswered, batchVars, envVars, workerVars,
       callVars
  <2> QED BY <2>1, <2>2 DEF EnvStep
<1>26. ASSUME NEW f \in Env, Spawn(f) PROVE EnvStep(e)
  <2>1. Forks(f)
    BY <1>26 DEF Forks, Cells, Process, TypeOK, CurrentLive, Live, Spawn, NewWorker, SessionTo,
       NoWorker, Gen, batchVars, envVars, workerVars, callVars
  <2>2. e # f => Still(e)
    BY <1>26 DEF Still, Cells, Process, TypeOK, Spawn, NewWorker, SessionTo, batchVars,
       envVars, workerVars, callVars
  <2> QED BY <2>1, <2>2 DEF EnvStep
<1>27. ASSUME NEW f \in Env, Initialized(f) PROVE EnvStep(e)
  <2>1. Prepares(f)
    BY <1>27 DEF Prepares, Cells, Process, TypeOK, CurrentLive, Live, Initialized, SessionTo,
       Creating, batchVars, envVars, workerVars, callVars
  <2>2. e # f => Still(e)
    BY <1>27 DEF Still, Cells, Process, TypeOK, Initialized, SessionTo, batchVars, envVars,
       workerVars, callVars
  <2> QED BY <2>1, <2>2 DEF EnvStep
<1>28. ASSUME NEW f \in Env, InitializeFails(f) PROVE EnvStep(e)
  <2>1. InitializeIsOver(f)
    BY <1>28 DEF InitializeIsOver, Cells, Process, TypeOK, CurrentLive, Live, InitializeFails,
       Creating, batchVars, envVars, workerVars, callVars
  <2>2. e # f => Still(e)
    BY <1>28 DEF Still, Cells, Process, TypeOK, InitializeFails, batchVars, envVars,
       workerVars, callVars
  <2> QED BY <2>1, <2>2 DEF EnvStep
<1>29. ASSUME NEW f \in Env, DisposeWorkers(f) PROVE EnvStep(e)
  <2>1. Closes(f)
    BY <1>29 DEF Closes, Cells, Process, TypeOK, CurrentLive, Live, DisposeWorkers,
       ClosedPending, ClosedProc, Live, batchVars, envVars, workerVars, callVars
  <2>2. e # f => Still(e)
    BY <1>29 DEF Still, Cells, Process, TypeOK, DisposeWorkers, ClosedPending, batchVars,
       envVars, workerVars, callVars
  <2> QED BY <2>1, <2>2 DEF EnvStep
<1>30. ASSUME NEW f \in Env, Disposed(f) PROVE EnvStep(e)
  BY <1>30, SupervisorAssumption
     DEF EnvStep, Still, Cells, Process, TypeOK, Disposed, batchVars, envVars, workerVars,
     callVars
<1>31. ASSUME SpawnFails PROVE EnvStep(e)
  BY <1>31, SupervisorAssumption
     DEF EnvStep, Still, Cells, Process, TypeOK, SpawnFails, batchVars, envVars, workerVars,
     callVars
<1>32. ASSUME InitializeAll PROVE EnvStep(e)
  <2>1. SendsInitialize(e) \/ Still(e)
    BY <1>32 DEF SendsInitialize, Still, Cells, Process, TypeOK, CurrentLive, Live,
       InitializeAll, batchVars, envVars, workerVars, callVars
  <2> QED BY <2>1 DEF EnvStep
<1>33. ASSUME CreateCompletes PROVE EnvStep(e)
  BY <1>33, SupervisorAssumption
     DEF EnvStep, Still, Cells, Process, TypeOK, CreateCompletes, batchVars, envVars,
     workerVars, callVars
<1>34. ASSUME CleanupWorkers PROVE EnvStep(e)
  <2>1. Closes(e)
    BY <1>34 DEF Closes, Cells, Process, TypeOK, CurrentLive, Live, CleanupWorkers,
       CloseAllLive, ClosedPending, ClosedProc, batchVars, envVars, workerVars, callVars
  <2> QED BY <2>1 DEF EnvStep
<1>35. ASSUME CreateFails PROVE EnvStep(e)
  BY <1>35, SupervisorAssumption
     DEF EnvStep, Still, Cells, Process, TypeOK, CreateFails, batchVars, envVars, workerVars,
     callVars
<1>36. ASSUME CloseFinalizes PROVE EnvStep(e)
  BY <1>36, SupervisorAssumption
     DEF EnvStep, Still, Cells, Process, TypeOK, CloseFinalizes, FinalizeStarts, batchVars,
     envVars, workerVars, callVars
<1>37. ASSUME CloseDisposes PROVE EnvStep(e)
  <2>1. Disposes(e)
    BY <1>37 DEF Disposes, Cells, Process, TypeOK, CurrentLive, Live, CloseDisposes, Dispose,
       batchVars, envVars, workerVars, callVars
  <2> QED BY <2>1 DEF EnvStep
<1>38. ASSUME CloseFinalized PROVE EnvStep(e)
  <2>1. Disposes(e)
    BY <1>38 DEF Disposes, Cells, Process, TypeOK, CurrentLive, Live, CloseFinalized, Dispose,
       batchVars, envVars, workerVars, callVars
  <2> QED BY <2>1 DEF EnvStep
<1>39. ASSUME BatchCloses PROVE EnvStep(e)
  BY <1>39, SupervisorAssumption
     DEF EnvStep, Still, Cells, Process, TypeOK, BatchCloses, batchVars, envVars, workerVars,
     callVars
<1>40. ASSUME BeginShutdown PROVE EnvStep(e)
  BY <1>40, SupervisorAssumption
     DEF EnvStep, Still, Cells, Process, TypeOK, BeginShutdown, batchVars, envVars, workerVars,
     callVars
<1>41. ASSUME ShutdownWorkers PROVE EnvStep(e)
  <2>1. Closes(e)
    BY <1>41 DEF Closes, Cells, Process, TypeOK, CurrentLive, Live, ShutdownWorkers,
       CloseAllLive, ClosedPending, ClosedProc, batchVars, envVars, workerVars, callVars
  <2> QED BY <2>1 DEF EnvStep
<1>42. ASSUME ShutdownEnds PROVE EnvStep(e)
  BY <1>42, SupervisorAssumption
     DEF EnvStep, Still, Cells, Process, TypeOK, ShutdownEnds, batchVars, envVars, workerVars,
     callVars
<1>43. ASSUME Terminated PROVE EnvStep(e)
  BY <1>43, SupervisorAssumption
     DEF EnvStep, Still, Cells, Process, TypeOK, Terminated, vars, batchVars, envVars,
     workerVars, callVars
<1>44. CASE UNCHANGED vars
  BY <1>44 DEF EnvStep, Still, Cells, Process, TypeOK, vars, batchVars, envVars, workerVars,
     callVars
<1> QED BY <1>1, <1>2, <1>3, <1>4, <1>5, <1>6, <1>7, <1>8, <1>9, <1>10, <1>11, <1>12, <1>13,
   <1>14, <1>15, <1>16, <1>17, <1>18, <1>19, <1>20, <1>21, <1>22, <1>23, <1>24, <1>25, <1>26,
   <1>27, <1>28, <1>29, <1>30, <1>31, <1>32, <1>33, <1>34, <1>35, <1>36, <1>37, <1>38, <1>39,
   <1>40, <1>41, <1>42, <1>43, <1>44
   DEF Next, Command, Creation, Closing, Shutdown

-----------------------------------------------------------------------------
(***************************************************************************)
(* ThreadsFollowCalls.                                                     *)
(***************************************************************************)

\* A worker is replaced or forgotten only when it has exited and the calls that
\* used it have dealt with that.
LEMMA WorkerSteps ==
    ASSUME NEW e \in Env, EnvStep(e)
    PROVE  worker'[e] = worker[e] \/ (~CallContinues(e) /\ ~CurrentLive(e))
<1>1. CASE GivesUp(e)
  BY <1>1 DEF GivesUp
<1>2. CASE Forks(e)
  BY <1>2 DEF Forks, EventLoopIdle
<1>3. CASE Forgets(e)
  BY <1>3 DEF Forgets
<1>4. CASE ~(GivesUp(e) \/ Forks(e) \/ Forgets(e))
  BY <1>4 DEF EnvStep, Process, Still, SendsCommand, SendsInitialize, Alarmed, Kills,
     MayRestart,
     Prepares, Discards, InitializeIsOver, CloseIsOver, Closes, Disposes, Exits, Hears,
     HearsReset,
     HearsStep, HearsFinalize, HearsBreach, HearsFailure, HearsNothing, HearsSomething
<1> QED BY <1>1, <1>2, <1>3, <1>4

\* What a step does to the phases of the batch and of the supervisor, to the
\* call of the closer and to the numbers of the episodes: a batch opens once every
\* environment is prepared, and a supervisor that shuts down does not serve again.
BatchStep ==
    /\ Usable' => Usable
    /\ shuttingDown => shuttingDown'
    /\ batch' \in {"open", "finalizing"} /\ batch \notin {"open", "finalizing"}
         => state' = state /\ \A e \in Env : state[e] # "preparing"
    /\ batch = "finalizing" \/ call[Closer] = "idle"
         => batch' = "finalizing" \/ call'[Closer] = "idle"
    /\ \A e \in Env : episode'[e] \in {episode[e], episode[e] + 1}

LEMMA BatchSteps == ASSUME TypeOK, [Next]_vars PROVE BatchStep
<1>1. ASSUME NEW c \in Call, NEW S \in SUBSET Env, ResetBatch(c, S) PROVE BatchStep
  BY <1>1, SupervisorAssumption
     DEF BatchStep, Usable, shuttingDown, TypeOK, Actor, ResetBatch, NextEpisode, batchVars
<1>2. ASSUME NEW c \in Call, NEW S \in SUBSET Env, FinalizeBatch(c, S) PROVE BatchStep
  BY <1>2, SupervisorAssumption
     DEF BatchStep, Usable, shuttingDown, TypeOK, Actor, FinalizeBatch, FinalizeStarts,
     batchVars, envVars, workerVars, callVars
<1>3. ASSUME NEW c \in Call, NEW late \in SUBSET Env, StepBatch(c, late) PROVE BatchStep
  BY <1>3, SupervisorAssumption
     DEF BatchStep, Usable, shuttingDown, TypeOK, Actor, StepBatch, batchVars, envVars,
     workerVars, callVars
<1>4. ASSUME NEW c \in Call, Return(c) PROVE BatchStep
  BY <1>4, SupervisorAssumption
     DEF BatchStep, Usable, shuttingDown, TypeOK, Actor, Return, batchVars, envVars,
     workerVars, callVars
<1>5. ASSUME NEW c \in Actor, NEW e \in Env, Dispatch(c, e) PROVE BatchStep
  BY <1>5, SupervisorAssumption
     DEF BatchStep, Usable, shuttingDown, TypeOK, Actor, Dispatch, SentTo, At, batchVars,
     envVars, workerVars, callVars
<1>6. ASSUME NEW c \in Actor, NEW e \in Env, CatchInfrastructure(c, e) PROVE BatchStep
  BY <1>6, SupervisorAssumption
     DEF BatchStep, Usable, shuttingDown, TypeOK, Actor, CatchInfrastructure, Recover, At,
     batchVars, envVars, workerVars, callVars
<1>7. ASSUME NEW c \in Actor, NEW e \in Env, ResetAnswered(c, e) PROVE BatchStep
  BY <1>7, SupervisorAssumption
     DEF BatchStep, Usable, shuttingDown, TypeOK, Actor, ResetAnswered, Answering, Breach,
     EpisodeBegins, SessionTo, Recover, At, batchVars, envVars, workerVars, callVars
<1>8. ASSUME NEW c \in Actor, NEW e \in Env, StepAnswered(c, e) PROVE BatchStep
  BY <1>8, SupervisorAssumption
     DEF BatchStep, Usable, shuttingDown, TypeOK, Actor, StepAnswered, Answering, Breach,
     SessionSteps, SessionTo, Recover, At, batchVars, envVars, workerVars, callVars
<1>9. ASSUME NEW c \in Actor, NEW e \in Env, FinalizeAnswered(c, e) PROVE BatchStep
  BY <1>9, SupervisorAssumption
     DEF BatchStep, Usable, shuttingDown, TypeOK, Actor, FinalizeAnswered, Answering, Breach,
     SessionTo, Recover, At, batchVars, envVars, workerVars, callVars
<1>10. ASSUME NEW c \in Actor, NEW e \in Env, Rejected(c, e) PROVE BatchStep
  BY <1>10, SupervisorAssumption
     DEF BatchStep, Usable, shuttingDown, TypeOK, Actor, Rejected, Answering, At, batchVars,
     envVars, workerVars, callVars
<1>11. ASSUME NEW c \in Actor, NEW e \in Env, CommandFails(c, e) PROVE BatchStep
  BY <1>11, SupervisorAssumption
     DEF BatchStep, Usable, shuttingDown, TypeOK, Actor, CommandFails, Answering,
     ResetRequired, SessionTo, SessionSteps, At, batchVars, envVars, workerVars, callVars
<1>12. ASSUME NEW c \in Actor, NEW e \in Env, PluginFails(c, e) PROVE BatchStep
  BY <1>12, SupervisorAssumption
     DEF BatchStep, Usable, shuttingDown, TypeOK, Actor, PluginFails, Answering, ResetRequired,
     SessionTo, SessionSteps, At, batchVars, envVars, workerVars, callVars
<1>13. ASSUME NEW c \in Actor, NEW e \in Env, Uncertain(c, e) PROVE BatchStep
  BY <1>13, SupervisorAssumption
     DEF BatchStep, Usable, shuttingDown, TypeOK, Actor, Uncertain, At, batchVars, envVars,
     workerVars, callVars
<1>14. ASSUME NEW c \in Actor, NEW e \in Env, Publish(c, e) PROVE BatchStep
  BY <1>14, SupervisorAssumption
     DEF BatchStep, Usable, shuttingDown, TypeOK, Actor, Publish, At, batchVars, envVars,
     workerVars, callVars
<1>15. ASSUME NEW e \in Env, NEW w \in Gen, Exit(e, w) PROVE BatchStep
  BY <1>15, SupervisorAssumption
     DEF BatchStep, Usable, shuttingDown, TypeOK, Actor, Exit, Recover, batchVars, envVars,
     workerVars, callVars
<1>16. ASSUME NEW e \in Env, HealthBreach(e) PROVE BatchStep
  BY <1>16, SupervisorAssumption
     DEF BatchStep, Usable, shuttingDown, TypeOK, Actor, HealthBreach, Recover, batchVars,
     envVars, workerVars, callVars
<1>17. ASSUME NEW e \in Env, WatchdogFires(e) PROVE BatchStep
  BY <1>17, SupervisorAssumption
     DEF BatchStep, Usable, shuttingDown, TypeOK, Actor, WatchdogFires, batchVars, envVars,
     workerVars, callVars
<1>18. ASSUME NEW e \in Env, Drained(e) PROVE BatchStep
  BY <1>18, SupervisorAssumption
     DEF BatchStep, Usable, shuttingDown, TypeOK, Actor, Drained, Restarting, ClosedPending,
     batchVars, envVars, workerVars, callVars
<1>19. ASSUME NEW e \in Env, FailedWorkerGone(e) PROVE BatchStep
  BY <1>19, SupervisorAssumption
     DEF BatchStep, Usable, shuttingDown, TypeOK, Actor, FailedWorkerGone, Fault, RecoveryEnds,
     batchVars, envVars, workerVars, callVars
<1>20. ASSUME NEW e \in Env, Respawn(e) PROVE BatchStep
  BY <1>20, SupervisorAssumption
     DEF BatchStep, Usable, shuttingDown, TypeOK, Actor, Respawn, NewWorker, SessionTo,
     batchVars, envVars, workerVars, callVars
<1>21. ASSUME NEW e \in Env, RespawnFails(e) PROVE BatchStep
  BY <1>21, SupervisorAssumption
     DEF BatchStep, Usable, shuttingDown, TypeOK, Actor, RespawnFails, Fault, RecoveryEnds,
     batchVars, envVars, workerVars, callVars
<1>22. ASSUME NEW e \in Env, Replaced(e) PROVE BatchStep
  BY <1>22, SupervisorAssumption
     DEF BatchStep, Usable, shuttingDown, TypeOK, Actor, Replaced, RecoveryEnds, SessionTo,
     batchVars, envVars, workerVars, callVars
<1>23. ASSUME NEW e \in Env, ReplacementFails(e) PROVE BatchStep
  BY <1>23, SupervisorAssumption
     DEF BatchStep, Usable, shuttingDown, TypeOK, Actor, ReplacementFails, batchVars, envVars,
     workerVars, callVars
<1>24. ASSUME NEW e \in Env, FailedReplacementGone(e) PROVE BatchStep
  BY <1>24, SupervisorAssumption
     DEF BatchStep, Usable, shuttingDown, TypeOK, Actor, FailedReplacementGone, RecoveryEnds,
     batchVars, envVars, workerVars, callVars
<1>25. ASSUME NEW e \in Env, CloseAnswered(e) PROVE BatchStep
  BY <1>25, SupervisorAssumption
     DEF BatchStep, Usable, shuttingDown, TypeOK, Actor, CloseAnswered, batchVars, envVars,
     workerVars, callVars
<1>26. ASSUME NEW e \in Env, Spawn(e) PROVE BatchStep
  BY <1>26, SupervisorAssumption
     DEF BatchStep, Usable, shuttingDown, TypeOK, Actor, Spawn, NewWorker, SessionTo,
     batchVars, envVars, workerVars, callVars
<1>27. ASSUME NEW e \in Env, Initialized(e) PROVE BatchStep
  BY <1>27, SupervisorAssumption
     DEF BatchStep, Usable, shuttingDown, TypeOK, Actor, Initialized, SessionTo, batchVars,
     envVars, workerVars, callVars
<1>28. ASSUME NEW e \in Env, InitializeFails(e) PROVE BatchStep
  BY <1>28, SupervisorAssumption
     DEF BatchStep, Usable, shuttingDown, TypeOK, Actor, InitializeFails, batchVars, envVars,
     workerVars, callVars
<1>29. ASSUME NEW e \in Env, DisposeWorkers(e) PROVE BatchStep
  BY <1>29, SupervisorAssumption
     DEF BatchStep, Usable, shuttingDown, TypeOK, Actor, DisposeWorkers, ClosedPending,
     batchVars, envVars, workerVars, callVars
<1>30. ASSUME NEW e \in Env, Disposed(e) PROVE BatchStep
  BY <1>30, SupervisorAssumption
     DEF BatchStep, Usable, shuttingDown, TypeOK, Actor, Disposed, batchVars, envVars,
     workerVars, callVars
<1>31. ASSUME SpawnFails PROVE BatchStep
  BY <1>31, SupervisorAssumption
     DEF BatchStep, Usable, shuttingDown, TypeOK, Actor, SpawnFails, batchVars, envVars,
     workerVars, callVars
<1>32. ASSUME InitializeAll PROVE BatchStep
  BY <1>32, SupervisorAssumption
     DEF BatchStep, Usable, shuttingDown, TypeOK, Actor, InitializeAll, batchVars, envVars,
     workerVars, callVars
<1>33. ASSUME CreateCompletes PROVE BatchStep
  BY <1>33 DEF BatchStep, Usable, shuttingDown, CreateCompletes, AllInitialized, envVars,
     callVars
<1>34. ASSUME CleanupWorkers PROVE BatchStep
  BY <1>34, SupervisorAssumption
     DEF BatchStep, Usable, shuttingDown, TypeOK, Actor, CleanupWorkers, CloseAllLive,
     ClosedPending, batchVars, envVars, workerVars, callVars
<1>35. ASSUME CreateFails PROVE BatchStep
  BY <1>35, SupervisorAssumption
     DEF BatchStep, Usable, shuttingDown, TypeOK, Actor, CreateFails, batchVars, envVars,
     workerVars, callVars
<1>36. ASSUME CloseFinalizes PROVE BatchStep
  BY <1>36, SupervisorAssumption
     DEF BatchStep, Usable, shuttingDown, TypeOK, Actor, CloseFinalizes, FinalizeStarts,
     batchVars, envVars, workerVars, callVars
<1>37. ASSUME CloseDisposes PROVE BatchStep
  BY <1>37, SupervisorAssumption
     DEF BatchStep, Usable, shuttingDown, TypeOK, Actor, CloseDisposes, Dispose, batchVars,
     envVars, workerVars, callVars
<1>38. ASSUME CloseFinalized PROVE BatchStep
  BY <1>38, SupervisorAssumption
     DEF BatchStep, Usable, shuttingDown, TypeOK, Actor, CloseFinalized, Dispose, batchVars,
     envVars, workerVars, callVars
<1>39. ASSUME BatchCloses PROVE BatchStep
  BY <1>39, SupervisorAssumption
     DEF BatchStep, Usable, shuttingDown, TypeOK, Actor, BatchCloses, batchVars, envVars,
     workerVars, callVars
<1>40. ASSUME BeginShutdown PROVE BatchStep
  BY <1>40, SupervisorAssumption
     DEF BatchStep, Usable, shuttingDown, TypeOK, Actor, BeginShutdown, batchVars, envVars,
     workerVars, callVars
<1>41. ASSUME ShutdownWorkers PROVE BatchStep
  BY <1>41, SupervisorAssumption
     DEF BatchStep, Usable, shuttingDown, TypeOK, Actor, ShutdownWorkers, CloseAllLive,
     ClosedPending, batchVars, envVars, workerVars, callVars
<1>42. ASSUME ShutdownEnds PROVE BatchStep
  BY <1>42, SupervisorAssumption
     DEF BatchStep, Usable, shuttingDown, TypeOK, Actor, ShutdownEnds, batchVars, envVars,
     workerVars, callVars
<1>43. ASSUME Terminated PROVE BatchStep
  BY <1>43, SupervisorAssumption
     DEF BatchStep, Usable, shuttingDown, TypeOK, Actor, Terminated, vars, batchVars, envVars,
     workerVars, callVars
<1>44. CASE UNCHANGED vars
  BY <1>44 DEF BatchStep, Usable, shuttingDown, TypeOK, Actor, vars, batchVars, envVars,
     workerVars, callVars
<1> QED BY <1>1, <1>2, <1>3, <1>4, <1>5, <1>6, <1>7, <1>8, <1>9, <1>10, <1>11, <1>12, <1>13,
   <1>14, <1>15, <1>16, <1>17, <1>18, <1>19, <1>20, <1>21, <1>22, <1>23, <1>24, <1>25, <1>26,
   <1>27, <1>28, <1>29, <1>30, <1>31, <1>32, <1>33, <1>34, <1>35, <1>36, <1>37, <1>38, <1>39,
   <1>40, <1>41, <1>42, <1>43, <1>44
   DEF Next, Command, Creation, Closing, Shutdown

LEMMA WokenCases ==
    ASSUME NEW p \in ThreadAt
    PROVE  \/ p = "joined" /\ Woken(p) = "done"
           \/ p = "breached" /\ Woken(p) = "lateThrown"
           \/ p = "parked" /\ Woken(p) = "resumed"
           \/ p \notin {"joined", "breached", "parked"} /\ Woken(p) = p
BY DEF Woken

LEMMA ThreadFacts ==
    ASSUME TypeOK, NEW c \in Actor, NEW e \in Env
    PROVE  /\ thread[c][e] \in Thread /\ thread[c][e].at \in ThreadAt
           /\ thread[c][e].episode \in Nat
           /\ \A p \in ThreadAt : /\ [thread[c][e] EXCEPT !.at = p].at = p
                                  /\ [thread[c][e] EXCEPT !.at = p].worker = thread[c][e].worker
                                  /\ [thread[c][e] EXCEPT !.at = p].episode = thread[c][e].episode
BY DEF TypeOK, Thread

LEMMA EntersAt ==
    ASSUME NEW c \in Actor, NEW e \in Env, Enters(c, e)
    PROVE  \/ thread'[c][e].at \in {"none", "done"}
           \/ /\ thread'[c][e].at \in {"thrown", "resumed", "parked"}
              /\ thread'[c][e].at = "parked" => recovery[e] # "none"
              /\ thread'[c][e].at = "resumed" => recovery[e] = "none"
              /\ thread'[c][e].worker = worker[e]
              /\ \/ call'[c] \in {"step", "finalize"} /\ thread'[c][e].episode = active[e]
                 \/ /\ call'[c] = "reset" /\ thread'[c][e].episode = episode[e] + 1
                    /\ episode'[e] = episode[e] + 1
BY DEF Enters, Entering

LEMMA IdleCloser ==
    ASSUME ThreadsFollowCalls, NEW c \in Actor, NEW e \in Env,
           call[c] = "idle" \/ (c = Closer /\ batch = "open")
    PROVE  thread[c][e].at = "none" /\ pending[e] # c
BY DEF ThreadsFollowCalls

\* The bookkeeping of WorkerHandle and _dispatch: who waits for which answer.
LEMMA ThreadsFollowCallsNext ==
    ASSUME TypeOK, LiveInv, ThreadsFollowCalls, [Next]_vars
    PROVE  ThreadsFollowCalls'
<1> SUFFICES ASSUME NEW c \in Actor, NEW e \in Env
             PROVE  /\ thread'[c][e].at = "sent" <=> pending'[e] = c
                    /\ call'[c] = "idle" => thread'[c][e].at = "none"
                    /\ thread'[c][e].at \in {"sent", "thrown"} => thread'[c][e].worker = worker'[e]
  BY BatchSteps DEF BatchStep, ThreadsFollowCalls
<1>1. ThreadStep(c, e)
  BY ThreadSteps
<1>2. worker'[e] = worker[e] \/ (~CallContinues(e) /\ ~CurrentLive(e))
  BY EnvSteps, WorkerSteps
<1>3. /\ thread[c][e].at = "sent" <=> pending[e] = c
      /\ call[c] = "idle" => thread[c][e].at = "none"
      /\ thread[c][e].at \in {"sent", "thrown"} => thread[c][e].worker = worker[e]
  BY DEF ThreadsFollowCalls
<1>4. c # "idle"
  BY SupervisorAssumption DEF Actor
<1>5. thread[c][e].at \in {"sent", "thrown", "resumed", "lateThrown"} => worker'[e] = worker[e]
  <2>1. thread[c][e].at \in {"thrown", "resumed", "lateThrown"} => CallContinues(e)
    BY DEF CallContinues
  <2>2. pending[e] = c => CurrentLive(e)
    BY <1>4 DEF LiveInv, PendingOnLiveWorker
  <2> QED BY <1>2, <1>3, <2>1, <2>2
<1>6. CASE Stays(c, e)
  BY <1>3, <1>5, <1>6 DEF Stays, Kept
<1>7. CASE Enters(c, e)
  <2>1. thread[c][e].at = "none" /\ pending[e] # c
    BY <1>7, IdleCloser DEF Enters
  <2>2. pending'[e] = pending[e] /\ worker'[e] = worker[e] /\ call'[c] # "idle"
    BY <1>7 DEF Enters
  <2> QED BY <1>7, <2>1, <2>2, EntersAt
<1>8. CASE Clears(c, e)
  <2>1. pending[e] # c
    BY <1>3, <1>8, IdleCloser DEF Clears
  <2> QED BY <1>8, <2>1 DEF Clears, NoThread
<1>9. CASE Sends(c, e)
  BY <1>3, <1>5, <1>9 DEF Sends
<1>10. CASE NotSent(c, e)
  BY <1>3, <1>5, <1>10 DEF NotSent, Kept
<1>11. CASE Answered(c, e)
  <2>1. thread[c][e].at = "sent" /\ pending'[e] = "idle" /\ call'[c] = call[c]
    BY <1>3, <1>11 DEF Answered
  <2>2. PICK p \in {"breached", "publishing", "done", "thrown"} :
          thread'[c][e] = [thread[c][e] EXCEPT !.at = p]
    BY <1>11 DEF Answered
  <2>3. thread'[c][e].at = p /\ thread'[c][e].worker = thread[c][e].worker
    BY <2>2, ThreadFacts DEF ThreadAt
  <2> QED BY <1>3, <1>4, <1>5, <2>1, <2>3
<1>12. CASE GoesOn(c, e)
  BY <1>3, <1>12 DEF GoesOn, Kept
<1>13. CASE Wakes(c, e)
  <2>1. /\ thread'[c][e].at = Woken(thread[c][e].at)
        /\ thread'[c][e].worker = thread[c][e].worker
    BY <1>13, ThreadFacts, WokenType DEF Wakes
  <2> QED BY <1>3, <1>5, <1>13, <2>1, ThreadFacts, WokenCases DEF Wakes, Kept
<1> QED BY <1>1, <1>6, <1>7, <1>8, <1>9, <1>10, <1>11, <1>12, <1>13 DEF ThreadStep

-----------------------------------------------------------------------------
(***************************************************************************)
(* ResumedBeforeEvents.                                                    *)
(***************************************************************************)

\* The phases of a recovery; it goes on only when no continuation of a call is
\* left to run.
LEMMA RecoverySteps ==
    ASSUME NEW e \in Env, EnvStep(e)
    PROVE  \/ recovery'[e] = recovery[e]
           \/ recovery[e] = "none" /\ recovery'[e] = "draining"
           \/ recovery[e] # "none" /\ recovery'[e] # "none" /\ ~CallContinues(e)
           \/ recovery[e] # "none" /\ recovery'[e] = "none" /\ ~CallContinues(e)
<1>1. CASE \E c \in Actor : HearsSomething(c, e)
  BY <1>1 DEF HearsSomething, HearsReset, HearsStep, HearsFinalize, HearsBreach, HearsFailure,
     HearsNothing
<1>2. CASE Still(e) \/ SendsCommand(e) \/ SendsInitialize(e) \/ Alarmed(e) \/ InitializeIsOver(e)
           \/ CloseIsOver(e) \/ Closes(e) \/ Disposes(e)
  BY <1>2 DEF Still, SendsCommand, SendsInitialize, Alarmed, InitializeIsOver, CloseIsOver,
     Closes, Disposes
<1>3. CASE MayRestart(e) \/ GivesUp(e) \/ Forgets(e)
  BY <1>3 DEF MayRestart, GivesUp, Forgets
<1>4. CASE Kills(e) \/ Forks(e) \/ Prepares(e) \/ Discards(e) \/ Exits(e)
  BY <1>4 DEF Kills, Forks, Prepares, Discards, Exits, EventLoopIdle
<1> QED BY <1>1, <1>2, <1>3, <1>4 DEF EnvStep

\* The callers that wait for a recovery go on in the turn in which it ends.
LEMMA EndSteps ==
    ASSUME TypeOK, [Next]_vars, NEW c \in Actor, NEW e \in Env,
           recovery[e] # "none", recovery'[e] = "none"
    PROVE  thread'[c][e] = [thread[c][e] EXCEPT !.at = Woken(@)]
<1> USE SupervisorAssumption
<1>1. ASSUME NEW d \in Call, NEW S \in SUBSET Env, ResetBatch(d, S)
      PROVE thread'[c][e] = [thread[c][e] EXCEPT !.at = Woken(@)]
  BY <1>1, SupervisorAssumption DEF TypeOK, ResetBatch, batchVars, envVars, workerVars, callVars
<1>2. ASSUME NEW d \in Call, NEW S \in SUBSET Env, FinalizeBatch(d, S)
      PROVE thread'[c][e] = [thread[c][e] EXCEPT !.at = Woken(@)]
  BY <1>2, SupervisorAssumption
     DEF TypeOK, FinalizeBatch, FinalizeStarts, batchVars, envVars, workerVars, callVars
<1>3. ASSUME NEW d \in Call, NEW late \in SUBSET Env, StepBatch(d, late)
      PROVE thread'[c][e] = [thread[c][e] EXCEPT !.at = Woken(@)]
  BY <1>3, SupervisorAssumption DEF TypeOK, StepBatch, batchVars, envVars, workerVars, callVars
<1>4. ASSUME NEW d \in Call, Return(d) PROVE thread'[c][e] = [thread[c][e] EXCEPT !.at = Woken(@)]
  BY <1>4, SupervisorAssumption DEF TypeOK, Return, batchVars, envVars, workerVars, callVars
<1>5. ASSUME NEW d \in Actor, NEW f \in Env, Dispatch(d, f)
      PROVE thread'[c][e] = [thread[c][e] EXCEPT !.at = Woken(@)]
  BY <1>5, SupervisorAssumption
     DEF TypeOK, Dispatch, SentTo, At, batchVars, envVars, workerVars, callVars
<1>6. ASSUME NEW d \in Actor, NEW f \in Env, CatchInfrastructure(d, f)
      PROVE thread'[c][e] = [thread[c][e] EXCEPT !.at = Woken(@)]
  BY <1>6, SupervisorAssumption
     DEF TypeOK, CatchInfrastructure, Recover, At, batchVars, envVars, workerVars, callVars
<1>7. ASSUME NEW d \in Actor, NEW f \in Env, ResetAnswered(d, f)
      PROVE thread'[c][e] = [thread[c][e] EXCEPT !.at = Woken(@)]
  BY <1>7, SupervisorAssumption
     DEF TypeOK, ResetAnswered, Answering, Breach, EpisodeBegins, SessionTo, Recover, At,
     batchVars, envVars, workerVars, callVars
<1>8. ASSUME NEW d \in Actor, NEW f \in Env, StepAnswered(d, f)
      PROVE thread'[c][e] = [thread[c][e] EXCEPT !.at = Woken(@)]
  BY <1>8, SupervisorAssumption
     DEF TypeOK, StepAnswered, Answering, Breach, SessionSteps, SessionTo, Recover, At,
     batchVars, envVars, workerVars, callVars
<1>9. ASSUME NEW d \in Actor, NEW f \in Env, FinalizeAnswered(d, f)
      PROVE thread'[c][e] = [thread[c][e] EXCEPT !.at = Woken(@)]
  BY <1>9, SupervisorAssumption
     DEF TypeOK, FinalizeAnswered, Answering, Breach, SessionTo, Recover, At, batchVars,
     envVars, workerVars, callVars
<1>10. ASSUME NEW d \in Actor, NEW f \in Env, Rejected(d, f)
       PROVE thread'[c][e] = [thread[c][e] EXCEPT !.at = Woken(@)]
  BY <1>10, SupervisorAssumption
     DEF TypeOK, Rejected, Answering, At, batchVars, envVars, workerVars, callVars
<1>11. ASSUME NEW d \in Actor, NEW f \in Env, CommandFails(d, f)
       PROVE thread'[c][e] = [thread[c][e] EXCEPT !.at = Woken(@)]
  BY <1>11, SupervisorAssumption
     DEF TypeOK, CommandFails, Answering, ResetRequired, SessionTo, SessionSteps, At,
     batchVars, envVars, workerVars, callVars
<1>12. ASSUME NEW d \in Actor, NEW f \in Env, PluginFails(d, f)
       PROVE thread'[c][e] = [thread[c][e] EXCEPT !.at = Woken(@)]
  BY <1>12, SupervisorAssumption
     DEF TypeOK, PluginFails, Answering, ResetRequired, SessionTo, SessionSteps, At, batchVars,
     envVars, workerVars, callVars
<1>13. ASSUME NEW d \in Actor, NEW f \in Env, Uncertain(d, f)
       PROVE thread'[c][e] = [thread[c][e] EXCEPT !.at = Woken(@)]
  BY <1>13, SupervisorAssumption
     DEF TypeOK, Uncertain, At, batchVars, envVars, workerVars, callVars
<1>14. ASSUME NEW d \in Actor, NEW f \in Env, Publish(d, f)
       PROVE thread'[c][e] = [thread[c][e] EXCEPT !.at = Woken(@)]
  BY <1>14, SupervisorAssumption
     DEF TypeOK, Publish, At, batchVars, envVars, workerVars, callVars
<1>15. ASSUME NEW f \in Env, NEW w \in Gen, Exit(f, w)
       PROVE thread'[c][e] = [thread[c][e] EXCEPT !.at = Woken(@)]
  BY <1>15, SupervisorAssumption
     DEF TypeOK, Exit, Recover, batchVars, envVars, workerVars, callVars
<1>16. ASSUME NEW f \in Env, HealthBreach(f)
       PROVE thread'[c][e] = [thread[c][e] EXCEPT !.at = Woken(@)]
  BY <1>16, SupervisorAssumption
     DEF TypeOK, HealthBreach, Recover, batchVars, envVars, workerVars, callVars
<1>17. ASSUME NEW f \in Env, WatchdogFires(f)
       PROVE thread'[c][e] = [thread[c][e] EXCEPT !.at = Woken(@)]
  BY <1>17, SupervisorAssumption
     DEF TypeOK, WatchdogFires, batchVars, envVars, workerVars, callVars
<1>18. ASSUME NEW f \in Env, Drained(f) PROVE thread'[c][e] = [thread[c][e] EXCEPT !.at = Woken(@)]
  BY <1>18, SupervisorAssumption
     DEF TypeOK, Drained, Restarting, ClosedPending, batchVars, envVars, workerVars, callVars
<1>19. ASSUME NEW f \in Env, FailedWorkerGone(f)
       PROVE thread'[c][e] = [thread[c][e] EXCEPT !.at = Woken(@)]
  <2>1. RecoveryEnds(f) \/ recovery' = [recovery EXCEPT ![f] = "revalidating"]
    BY <1>19 DEF FailedWorkerGone, Fault
  <2>2. CASE RecoveryEnds(f)
    <3>1. recovery'[e] = IF e = f THEN "none" ELSE recovery[e]
      BY <2>2, RecoveryEndsStep
    <3>2. e = f
      BY <3>1
    <3> QED BY <2>2, <3>2, RecoveryEndsStep
  <2>3. CASE recovery' = [recovery EXCEPT ![f] = "revalidating"]
    BY <2>3 DEF TypeOK
  <2> QED BY <2>1, <2>2, <2>3
<1>20. ASSUME NEW f \in Env, Respawn(f) PROVE thread'[c][e] = [thread[c][e] EXCEPT !.at = Woken(@)]
  BY <1>20, SupervisorAssumption
     DEF TypeOK, Respawn, NewWorker, SessionTo, batchVars, envVars, workerVars, callVars
<1>21. ASSUME NEW f \in Env, RespawnFails(f)
       PROVE thread'[c][e] = [thread[c][e] EXCEPT !.at = Woken(@)]
  <2>1. RecoveryEnds(f) \/ recovery' = [recovery EXCEPT ![f] = "revalidating"]
    BY <1>21 DEF RespawnFails, Fault
  <2>2. CASE RecoveryEnds(f)
    <3>1. recovery'[e] = IF e = f THEN "none" ELSE recovery[e]
      BY <2>2, RecoveryEndsStep
    <3>2. e = f
      BY <3>1
    <3> QED BY <2>2, <3>2, RecoveryEndsStep
  <2>3. CASE recovery' = [recovery EXCEPT ![f] = "revalidating"]
    BY <2>3 DEF TypeOK
  <2> QED BY <2>1, <2>2, <2>3
<1>22. ASSUME NEW f \in Env, Replaced(f) PROVE thread'[c][e] = [thread[c][e] EXCEPT !.at = Woken(@)]
  <2>1. RecoveryEnds(f) \/ recovery' = [recovery EXCEPT ![f] = "revalidating"]
    BY <1>22 DEF Replaced, Fault
  <2>2. CASE RecoveryEnds(f)
    <3>1. recovery'[e] = IF e = f THEN "none" ELSE recovery[e]
      BY <2>2, RecoveryEndsStep
    <3>2. e = f
      BY <3>1
    <3> QED BY <2>2, <3>2, RecoveryEndsStep
  <2>3. CASE recovery' = [recovery EXCEPT ![f] = "revalidating"]
    BY <2>3 DEF TypeOK
  <2> QED BY <2>1, <2>2, <2>3
<1>23. ASSUME NEW f \in Env, ReplacementFails(f)
       PROVE thread'[c][e] = [thread[c][e] EXCEPT !.at = Woken(@)]
  BY <1>23, SupervisorAssumption
     DEF TypeOK, ReplacementFails, batchVars, envVars, workerVars, callVars
<1>24. ASSUME NEW f \in Env, FailedReplacementGone(f)
       PROVE thread'[c][e] = [thread[c][e] EXCEPT !.at = Woken(@)]
  <2>1. RecoveryEnds(f) \/ recovery' = [recovery EXCEPT ![f] = "revalidating"]
    BY <1>24 DEF FailedReplacementGone, Fault
  <2>2. CASE RecoveryEnds(f)
    <3>1. recovery'[e] = IF e = f THEN "none" ELSE recovery[e]
      BY <2>2, RecoveryEndsStep
    <3>2. e = f
      BY <3>1
    <3> QED BY <2>2, <3>2, RecoveryEndsStep
  <2>3. CASE recovery' = [recovery EXCEPT ![f] = "revalidating"]
    BY <2>3 DEF TypeOK
  <2> QED BY <2>1, <2>2, <2>3
<1>25. ASSUME NEW f \in Env, CloseAnswered(f)
       PROVE thread'[c][e] = [thread[c][e] EXCEPT !.at = Woken(@)]
  BY <1>25, SupervisorAssumption
     DEF TypeOK, CloseAnswered, batchVars, envVars, workerVars, callVars
<1>26. ASSUME NEW f \in Env, Spawn(f) PROVE thread'[c][e] = [thread[c][e] EXCEPT !.at = Woken(@)]
  BY <1>26, SupervisorAssumption
     DEF TypeOK, Spawn, NewWorker, SessionTo, batchVars, envVars, workerVars, callVars
<1>27. ASSUME NEW f \in Env, Initialized(f)
       PROVE thread'[c][e] = [thread[c][e] EXCEPT !.at = Woken(@)]
  BY <1>27, SupervisorAssumption
     DEF TypeOK, Initialized, SessionTo, batchVars, envVars, workerVars, callVars
<1>28. ASSUME NEW f \in Env, InitializeFails(f)
       PROVE thread'[c][e] = [thread[c][e] EXCEPT !.at = Woken(@)]
  BY <1>28, SupervisorAssumption
     DEF TypeOK, InitializeFails, batchVars, envVars, workerVars, callVars
<1>29. ASSUME NEW f \in Env, DisposeWorkers(f)
       PROVE thread'[c][e] = [thread[c][e] EXCEPT !.at = Woken(@)]
  BY <1>29, SupervisorAssumption
     DEF TypeOK, DisposeWorkers, ClosedPending, batchVars, envVars, workerVars, callVars
<1>30. ASSUME NEW f \in Env, Disposed(f) PROVE thread'[c][e] = [thread[c][e] EXCEPT !.at = Woken(@)]
  BY <1>30, SupervisorAssumption DEF TypeOK, Disposed, batchVars, envVars, workerVars, callVars
<1>31. ASSUME SpawnFails PROVE thread'[c][e] = [thread[c][e] EXCEPT !.at = Woken(@)]
  BY <1>31, SupervisorAssumption
     DEF TypeOK, SpawnFails, batchVars, envVars, workerVars, callVars
<1>32. ASSUME InitializeAll PROVE thread'[c][e] = [thread[c][e] EXCEPT !.at = Woken(@)]
  BY <1>32, SupervisorAssumption
     DEF TypeOK, InitializeAll, batchVars, envVars, workerVars, callVars
<1>33. ASSUME CreateCompletes PROVE thread'[c][e] = [thread[c][e] EXCEPT !.at = Woken(@)]
  BY <1>33, SupervisorAssumption
     DEF TypeOK, CreateCompletes, batchVars, envVars, workerVars, callVars
<1>34. ASSUME CleanupWorkers PROVE thread'[c][e] = [thread[c][e] EXCEPT !.at = Woken(@)]
  BY <1>34, SupervisorAssumption
     DEF TypeOK, CleanupWorkers, CloseAllLive, ClosedPending, batchVars, envVars, workerVars,
     callVars
<1>35. ASSUME CreateFails PROVE thread'[c][e] = [thread[c][e] EXCEPT !.at = Woken(@)]
  BY <1>35, SupervisorAssumption
     DEF TypeOK, CreateFails, batchVars, envVars, workerVars, callVars
<1>36. ASSUME CloseFinalizes PROVE thread'[c][e] = [thread[c][e] EXCEPT !.at = Woken(@)]
  BY <1>36, SupervisorAssumption
     DEF TypeOK, CloseFinalizes, FinalizeStarts, batchVars, envVars, workerVars, callVars
<1>37. ASSUME CloseDisposes PROVE thread'[c][e] = [thread[c][e] EXCEPT !.at = Woken(@)]
  BY <1>37, SupervisorAssumption
     DEF TypeOK, CloseDisposes, Dispose, batchVars, envVars, workerVars, callVars
<1>38. ASSUME CloseFinalized PROVE thread'[c][e] = [thread[c][e] EXCEPT !.at = Woken(@)]
  BY <1>38, SupervisorAssumption
     DEF TypeOK, CloseFinalized, Dispose, batchVars, envVars, workerVars, callVars
<1>39. ASSUME BatchCloses PROVE thread'[c][e] = [thread[c][e] EXCEPT !.at = Woken(@)]
  BY <1>39, SupervisorAssumption
     DEF TypeOK, BatchCloses, batchVars, envVars, workerVars, callVars
<1>40. ASSUME BeginShutdown PROVE thread'[c][e] = [thread[c][e] EXCEPT !.at = Woken(@)]
  BY <1>40, SupervisorAssumption
     DEF TypeOK, BeginShutdown, batchVars, envVars, workerVars, callVars
<1>41. ASSUME ShutdownWorkers PROVE thread'[c][e] = [thread[c][e] EXCEPT !.at = Woken(@)]
  BY <1>41, SupervisorAssumption
     DEF TypeOK, ShutdownWorkers, CloseAllLive, ClosedPending, batchVars, envVars, workerVars,
     callVars
<1>42. ASSUME ShutdownEnds PROVE thread'[c][e] = [thread[c][e] EXCEPT !.at = Woken(@)]
  BY <1>42, SupervisorAssumption
     DEF TypeOK, ShutdownEnds, batchVars, envVars, workerVars, callVars
<1>43. ASSUME Terminated PROVE thread'[c][e] = [thread[c][e] EXCEPT !.at = Woken(@)]
  BY <1>43, SupervisorAssumption
     DEF TypeOK, Terminated, vars, batchVars, envVars, workerVars, callVars
<1>44. CASE UNCHANGED vars
  BY <1>44 DEF TypeOK, vars, batchVars, envVars, workerVars, callVars
<1> QED BY <1>1, <1>2, <1>3, <1>4, <1>5, <1>6, <1>7, <1>8, <1>9, <1>10, <1>11, <1>12, <1>13,
   <1>14, <1>15, <1>16, <1>17, <1>18, <1>19, <1>20, <1>21, <1>22, <1>23, <1>24, <1>25, <1>26,
   <1>27, <1>28, <1>29, <1>30, <1>31, <1>32, <1>33, <1>34, <1>35, <1>36, <1>37, <1>38, <1>39,
   <1>40, <1>41, <1>42, <1>43, <1>44
   DEF Next, Command, Creation, Closing, Shutdown

LEMMA ParkedSteps ==
    ASSUME TypeOK, NEW c \in Actor, NEW e \in Env, ThreadStep(c, e)
    PROVE  /\ thread'[c][e].at = "parked" =>
                \/ Stays(c, e) /\ thread[c][e].at = "parked"
                \/ Enters(c, e) /\ recovery[e] # "none"
           /\ thread'[c][e].at = "resumed" =>
                \/ Stays(c, e) /\ thread[c][e].at = "resumed"
                \/ Enters(c, e) /\ recovery[e] = "none"
                \/ Wakes(c, e) /\ thread[c][e].at \in {"parked", "resumed"}
<1>1. CASE Stays(c, e)
  BY <1>1 DEF Stays
<1>2. CASE Enters(c, e)
  BY <1>2, EntersAt
<1>3. CASE Clears(c, e) \/ Sends(c, e) \/ NotSent(c, e) \/ GoesOn(c, e)
  BY <1>3 DEF Clears, Sends, NotSent, GoesOn, NoThread
<1>4. CASE Answered(c, e)
  <2>1. PICK p \in {"breached", "publishing", "done", "thrown"} :
          thread'[c][e] = [thread[c][e] EXCEPT !.at = p]
    BY <1>4 DEF Answered
  <2> QED BY <2>1, ThreadFacts DEF ThreadAt
<1>5. CASE Wakes(c, e)
  <2>1. thread'[c][e].at = Woken(thread[c][e].at)
    BY <1>5, ThreadFacts, WokenType DEF Wakes
  <2> QED BY <1>5, <2>1, ThreadFacts, WokenCases
<1> QED BY <1>1, <1>2, <1>3, <1>4, <1>5 DEF ThreadStep

LEMMA ResumedBeforeEventsNext ==
    ASSUME TypeOK, LiveInv, ResumedBeforeEvents, [Next]_vars
    PROVE  ResumedBeforeEvents'
<1> SUFFICES ASSUME NEW e \in Env
             PROVE  /\ recovery'[e] = "none" => \A c \in Actor : thread'[c][e].at # "parked"
                    /\ \A c \in Actor : thread'[c][e].at = "resumed" =>
                          /\ recovery'[e] \in {"none", "draining"}
                          /\ \A d \in Actor : thread'[d][e].at # "parked"
  BY DEF ResumedBeforeEvents, Resumed
<1>1. \A c \in Actor : ThreadStep(c, e)
  BY ThreadSteps
<1>2. \/ recovery'[e] = recovery[e]
      \/ recovery[e] = "none" /\ recovery'[e] = "draining"
      \/ recovery[e] # "none" /\ recovery'[e] # "none" /\ ~CallContinues(e)
      \/ recovery[e] # "none" /\ recovery'[e] = "none" /\ ~CallContinues(e)
  BY EnvSteps, RecoverySteps
<1>3. ASSUME recovery'[e] = "none", NEW c \in Actor PROVE thread'[c][e].at # "parked"
  <2>1. CASE recovery[e] = "none"
    BY <1>1, <2>1, ParkedSteps DEF ResumedBeforeEvents
  <2>2. CASE recovery[e] # "none"
    <3>1. thread'[c][e] = [thread[c][e] EXCEPT !.at = Woken(thread[c][e].at)]
      BY <1>3, <2>2, EndSteps
    <3>2. thread'[c][e].at = Woken(thread[c][e].at)
      BY <3>1, ThreadFacts, WokenType
    <3> QED BY <3>2, ThreadFacts, WokenCases
  <2> QED BY <2>1, <2>2
<1>4. ASSUME NEW c \in Actor, thread'[c][e].at = "resumed"
      PROVE  /\ recovery'[e] \in {"none", "draining"}
             /\ \A d \in Actor : thread'[d][e].at # "parked"
  <2>1. CASE Stays(c, e) /\ thread[c][e].at = "resumed"
    <3>1. CallContinues(e)
      BY <2>1 DEF CallContinues
    <3>2. recovery[e] \in {"none", "draining"} /\ \A d \in Actor : thread[d][e].at # "parked"
      BY <2>1 DEF ResumedBeforeEvents, Resumed
    <3>3. \A d \in Actor : ~Enters(d, e)
      BY <3>1 DEF Enters, EventLoopIdle
    <3>4. recovery'[e] \in {"none", "draining"}
      BY <1>2, <3>1, <3>2
    <3>5. ASSUME NEW d \in Actor PROVE thread'[d][e].at # "parked"
      BY <1>1, <3>2, <3>3, ParkedSteps
    <3> QED BY <3>4, <3>5
  <2>2. CASE Enters(c, e) /\ recovery[e] = "none"
    <3>1. recovery'[e] = "none"
      BY <2>2 DEF Enters
    <3> QED BY <3>1, <1>3
  <2>3. CASE Wakes(c, e)
    <3>1. recovery'[e] = "none"
      BY <2>3 DEF Wakes
    <3> QED BY <3>1, <1>3
  <2> QED BY <1>1, <1>4, <2>1, <2>2, <2>3, ParkedSteps
<1> QED BY <1>3, <1>4

-----------------------------------------------------------------------------
(***************************************************************************)
(* SessionEpisode and FinalizeResultIsCurrent.                             *)
(***************************************************************************)

LEMMA LiveSteps ==
    ASSUME NEW e \in Env, EnvStep(e)
    PROVE  (CurrentLive(e)' <=> CurrentLive(e)) \/ Forks(e) \/ Exits(e)
<1>1. CASE Process(e)' = Process(e)
  BY <1>1 DEF Process, CurrentLive, Live
<1>2. CASE \E c \in Actor : HearsSomething(c, e)
  BY <1>2 DEF Hears, HearsReset, HearsStep, HearsFinalize, HearsBreach, HearsFailure,
     HearsNothing,
     HearsSomething
<1>3. CASE Kills(e) \/ GivesUp(e) \/ Forgets(e) \/ InitializeIsOver(e) \/ CloseIsOver(e) \/ Closes(e)
  BY <1>3 DEF Kills, GivesUp, Forgets, InitializeIsOver, CloseIsOver, Closes
<1> QED BY <1>1, <1>2, <1>3 DEF EnvStep, Process, Still, SendsCommand, SendsInitialize, Alarmed,
     MayRestart, Prepares, Discards, Disposes

\* An environment is heard of again only with a new session.
LEMMA HeardSteps ==
    ASSUME TypeOK, LiveInv, ResumedBeforeEvents, [Next]_vars, NEW e \in Env, Heard(e)'
    PROVE  Heard(e) \/ session'[e].st \in {"idle", "prepared"}
<1>1. EnvStep(e) /\ \A c \in Actor : ThreadStep(c, e)
  BY EnvSteps, ThreadSteps
<1>2. CurrentLive(e)'
  BY DEF Heard
<1>3. CurrentLive(e) \/ session'[e].st = "idle"
  BY <1>1, <1>2, LiveSteps DEF Forks, Exits
<1>4. CASE recovery'[e] = "none"
  <2>1. CASE recovery[e] = "none"
    BY <1>3, <2>1 DEF Heard
  <2>2. CASE recovery[e] # "none"
    <3>1. GivesUp(e) \/ Prepares(e) \/ Forgets(e)
      BY <1>1, <1>4, <2>2 DEF EnvStep, Still, SendsCommand, SendsInitialize, Alarmed, Kills,
         MayRestart,
         Forks, Discards, InitializeIsOver, CloseIsOver, Closes, Disposes, Exits, HearsReset,
         HearsStep,
         HearsFinalize, HearsBreach, HearsFailure, HearsNothing, HearsSomething
    <3> QED BY <1>2, <3>1 DEF GivesUp, Prepares, Forgets
  <2> QED BY <2>1, <2>2
<1>5. CASE pending'[e] \in Actor
  <2>1. pending[e] \in Actor \/ Resumed(e)
    BY <1>1, <1>5, SupervisorAssumption
       DEF Actor, EnvStep, Still, SendsCommand, SendsInitialize, Alarmed, Kills,
       MayRestart, GivesUp, Forks, Prepares, Discards, Forgets, InitializeIsOver, CloseIsOver,
       Closes,
       Disposes, Exits, Hears, HearsReset, HearsStep, HearsFinalize, HearsBreach, HearsFailure,
       HearsNothing, HearsSomething
  <2> QED BY <1>3, <2>1 DEF Heard
<1>6. CASE \E c \in Actor : thread'[c][e].at = "resumed"
  <2>1. PICK c \in Actor : thread'[c][e].at = "resumed"
    BY <1>6
  <2>2. CASE Stays(c, e) /\ thread[c][e].at = "resumed"
    BY <1>3, <2>2 DEF Heard, Resumed
  <2>3. CASE Enters(c, e) /\ recovery[e] = "none"
    BY <1>3, <2>3 DEF Heard
  <2>4. CASE Wakes(c, e)
    BY <1>2, <2>4 DEF Wakes
  <2> QED BY <1>1, <2>1, <2>2, <2>3, <2>4, ParkedSteps
<1> QED BY <1>4, <1>5, <1>6 DEF Heard, Resumed

\* A breach ends what the supervisor hears of a session.
LEMMA BreachIsSilent ==
    ASSUME TypeOK, LiveInv, [Next]_vars, NEW e \in Env, NEW d \in Actor, HearsBreach(d, e)
    PROVE  ~Heard(e)'
<1>1. EventLoopIdle /\ pending[e] = d /\ pending'[e] = "idle" /\ recovery'[e] # "none"
  BY DEF HearsBreach, Hears
<1>2. ASSUME NEW c \in Actor, thread'[c][e].at = "resumed" PROVE FALSE
  <2>1. CASE Stays(c, e) /\ thread[c][e].at = "resumed"
    BY <1>1, <2>1 DEF EventLoopIdle, CallContinues
  <2>2. CASE Enters(c, e)
    BY <1>1, <2>2, SupervisorAssumption DEF Enters, Actor
  <2>3. CASE Wakes(c, e)
    BY <1>1, <2>3 DEF Wakes
  <2> QED BY <1>2, <2>1, <2>2, <2>3, ParkedSteps, ThreadSteps
<1> QED BY <1>1, <1>2, SupervisorAssumption DEF Heard, Resumed, Actor

LEMMA EnvStepCases ==
    ASSUME NEW e \in Env, EnvStep(e)
    PROVE  \/ UNCHANGED <<session[e], active[e], finalized[e]>> /\ state'[e] \in {state[e], "restarting", "faulted", "closing"}
           \/ UNCHANGED <<active[e], finalized[e], state[e]>> /\ session'[e].st = "idle"
           \/ Prepares(e)
           \/ \E c \in Actor : HearsReset(c, e) \/ HearsStep(c, e) \/ HearsFinalize(c, e)
                               \/ HearsBreach(c, e) \/ HearsFailure(c, e)
<1>1. CASE Kills(e) \/ GivesUp(e) \/ Discards(e) \/ Disposes(e) \/ Exits(e)
  BY <1>1 DEF Kills, GivesUp, Discards, Disposes, Exits
<1>2. CASE Forks(e)
  BY <1>2 DEF Forks
<1>3. CASE Cells(e)' = Cells(e)
  BY <1>3 DEF Cells
<1> QED BY <1>1, <1>2, <1>3 DEF EnvStep, Cells, Still, SendsCommand, SendsInitialize, Alarmed,
   MayRestart, Forgets,
     InitializeIsOver, CloseIsOver, Closes, HearsNothing, HearsSomething

LEMMA PendingIsHeard ==
    ASSUME LiveInv, NEW e \in Env, NEW c \in Actor, pending[e] = c
    PROVE  Heard(e)
BY SupervisorAssumption DEF Heard, LiveInv, PendingOnLiveWorker, Actor

LEMMA SessionEpisodeNext ==
    ASSUME TypeOK, LiveInv, ResumedBeforeEvents, SessionEpisode, FinalizeResultIsCurrent,
           [Next]_vars
    PROVE  SessionEpisode' /\ FinalizeResultIsCurrent'
<1> DEFINE Told(e) == /\ session[e].st \in {"ready", "terminal", "finalized"} => session[e].episode = active[e]
                      /\ session[e].st \in {"ready", "terminal"} => finalized[e] = 0
           Result(e) == /\ finalized[e] \in {0, active[e]}
                        /\ state[e] \in {"ready", "terminal"} => finalized[e] = 0
<1> SUFFICES ASSUME NEW e \in Env
             PROVE  /\ Heard(e)' => Told(e)'
                    /\ Result(e)'
  BY DEF SessionEpisode, FinalizeResultIsCurrent
<1>1. EnvStep(e)
  BY EnvSteps
<1>2. (Heard(e) => Told(e)) /\ Result(e)
  BY DEF SessionEpisode, FinalizeResultIsCurrent
<1>3. Heard(e)' => Heard(e) \/ session'[e].st \in {"idle", "prepared"}
  BY HeardSteps
<1>4. CASE /\ UNCHANGED <<session[e], active[e], finalized[e]>>
           /\ state'[e] \in {state[e], "restarting", "faulted", "closing"}
  BY <1>2, <1>3, <1>4
<1>5. CASE UNCHANGED <<active[e], finalized[e], state[e]>> /\ session'[e].st = "idle"
  BY <1>2, <1>5
<1>6. CASE Prepares(e)
  BY <1>2, <1>6 DEF Prepares
<1>7. ASSUME NEW c \in Actor, HearsReset(c, e) PROVE Told(e)' /\ Result(e)'
  BY <1>7 DEF HearsReset
<1>8. ASSUME NEW c \in Actor, HearsStep(c, e) PROVE Told(e)' /\ Result(e)'
  <2>1. Told(e)
    BY <1>2, <1>8, PendingIsHeard DEF HearsStep, Hears
  <2> QED BY <1>2, <1>8, <2>1 DEF HearsStep
<1>9. ASSUME NEW c \in Actor, HearsFinalize(c, e) PROVE Told(e)' /\ Result(e)'
  <2>1. Told(e)
    BY <1>2, <1>9, PendingIsHeard DEF HearsFinalize, Hears
  <2> QED BY <1>2, <1>9, <2>1 DEF HearsFinalize
<1>10. ASSUME NEW c \in Actor, HearsBreach(c, e) PROVE ~Heard(e)' /\ Result(e)'
  BY <1>2, <1>10, BreachIsSilent DEF HearsBreach
<1>11. ASSUME NEW c \in Actor, HearsFailure(c, e) PROVE Told(e)' /\ Result(e)'
  BY <1>2, <1>11 DEF HearsFailure
<1> HIDE DEF Told, Result
<1> QED BY <1>1, <1>4, <1>5, <1>6, <1>7, <1>8, <1>9, <1>10, <1>11, EnvStepCases

-----------------------------------------------------------------------------
(***************************************************************************)
(* StepsMeetTheirEpisode and ResetsAreNumbered.                            *)
(***************************************************************************)

LEMMA SentSteps ==
    ASSUME TypeOK, NEW c \in Actor, NEW e \in Env, ThreadStep(c, e), thread'[c][e].at = "sent"
    PROVE  \/ Stays(c, e) /\ thread[c][e].at = "sent"
           \/ Sends(c, e)
           \/ Wakes(c, e) /\ thread[c][e].at = "sent"
<1>1. CASE Stays(c, e)
  BY <1>1 DEF Stays
<1>2. CASE Enters(c, e)
  BY <1>2, EntersAt
<1>3. CASE Clears(c, e) \/ NotSent(c, e) \/ GoesOn(c, e)
  BY <1>3 DEF Clears, NotSent, GoesOn, NoThread
<1>4. CASE Answered(c, e)
  <2>1. PICK p \in {"breached", "publishing", "done", "thrown"} :
          thread'[c][e] = [thread[c][e] EXCEPT !.at = p]
    BY <1>4 DEF Answered
  <2> QED BY <2>1, ThreadFacts DEF ThreadAt
<1>5. CASE Wakes(c, e)
  <2>1. thread'[c][e].at = Woken(thread[c][e].at)
    BY <1>5, ThreadFacts, WokenType DEF Wakes
  <2> QED BY <1>5, <2>1, ThreadFacts, WokenCases
<1> QED BY <1>1, <1>2, <1>3, <1>4, <1>5 DEF ThreadStep

\* A share of a call that has its answer still to come: it went on like that, or
\* it was accepted, sent or woken in this step.
LEMMA WaitingSteps ==
    ASSUME TypeOK, NEW c \in Actor, NEW e \in Env, ThreadStep(c, e),
           thread'[c][e].at \in {"parked", "resumed", "sent"}
    PROVE  \/ /\ Stays(c, e) \/ Sends(c, e) \/ Wakes(c, e)
              /\ thread[c][e].at \in {"parked", "resumed", "sent"}
              /\ call'[c] = call[c] /\ thread'[c][e].episode = thread[c][e].episode
           \/ Enters(c, e)
<1>1. CASE Stays(c, e) /\ thread[c][e].at \in {"parked", "resumed", "sent"}
  BY <1>1 DEF Stays, Kept
<1>2. CASE Sends(c, e)
  BY <1>2 DEF Sends
<1>3. CASE Wakes(c, e) /\ thread[c][e].at \in {"parked", "resumed", "sent"}
  BY <1>3, ThreadFacts, WokenType DEF Wakes, Kept
<1> QED BY <1>1, <1>2, <1>3, SentSteps, ParkedSteps

\* No answer arrives at an environment for which a continuation is about to run,
\* and the one that arrives is that of the command in flight.
LEMMA NotHearing ==
    ASSUME ThreadsFollowCalls, NEW c \in Actor, NEW e \in Env, NEW d \in Actor, Hears(d, e),
           thread[c][e].at \in {"resumed", "sent"}
    PROVE  c = d /\ ~Stays(c, e)
<1>1. ~CallContinues(e)
  BY DEF Hears, EventLoopIdle
<1>2. thread[c][e].at = "sent" /\ pending[e] = c
  BY <1>1 DEF CallContinues, ThreadsFollowCalls
<1> QED BY <1>2, SupervisorAssumption DEF Hears, Stays, Kept, Actor

LEMMA NotHearingWhenWoken ==
    ASSUME NEW c \in Actor, NEW e \in Env, NEW d \in Actor, HearsSomething(d, e)
    PROVE  ~Wakes(c, e)
BY DEF Wakes, HearsReset, HearsStep, HearsFinalize, HearsBreach, HearsFailure, HearsNothing,
   HearsSomething

LEMMA SendsIsSent ==
    ASSUME LiveInv, NEW c \in Actor, NEW e \in Env, Sends(c, e), EnvStep(e)
    PROVE  SendsCommand(e)
BY SupervisorAssumption DEF Sends, Actor, EnvStep, Still, SendsInitialize, Alarmed, Kills,
   MayRestart, GivesUp, Forks, Prepares, Discards, Forgets, InitializeIsOver, CloseIsOver,
   Closes,
   Disposes, Exits, Hears, HearsReset, HearsStep, HearsFinalize, HearsBreach, HearsFailure,
   HearsNothing, HearsSomething

LEMMA EntersChangesNothing ==
    ASSUME NEW c \in Actor, NEW e \in Env, Enters(c, e)
    PROVE  /\ CurrentLive(e)' <=> CurrentLive(e)
           /\ UNCHANGED <<Cells(e), recovery[e], pending[e]>>
BY DEF Enters, CurrentLive, Live, Cells

LEMMA StepsMeetTheirEpisodeNext ==
    ASSUME TypeOK, LiveInv, ThreadsFollowCalls, SessionEpisode, StepsMeetTheirEpisode,
           [Next]_vars
    PROVE  StepsMeetTheirEpisode'
<1> SUFFICES ASSUME NEW c \in Actor, NEW e \in Env, call'[c] = "step",
                    thread'[c][e].at \in {"resumed", "sent"},
                    CurrentLive(e)', session'[e].st = "ready"
             PROVE  session'[e].episode = thread'[c][e].episode
  BY DEF StepsMeetTheirEpisode
<1>1. ThreadStep(c, e) /\ EnvStep(e)
  BY ThreadSteps, EnvSteps
<1>2. call[c] = "step" /\ thread[c][e].at \in {"resumed", "sent"} /\ CurrentLive(e) /\ session[e].st = "ready"
      => session[e].episode = thread[c][e].episode
  BY DEF StepsMeetTheirEpisode
<1>3. CurrentLive(e)
  BY <1>1, LiveSteps DEF Forks, Exits
<1>4. CASE Stays(c, e) /\ thread[c][e].at \in {"resumed", "sent"}
  <2>1. \A d \in Actor : ~Hears(d, e)
    BY <1>4, NotHearing
  <2>2. session'[e] = session[e]
    BY <1>1, <2>1, EnvStepCases
       DEF Prepares, HearsReset, HearsStep, HearsFinalize, HearsBreach, HearsFailure
  <2> QED BY <1>2, <1>3, <1>4, <2>2 DEF Stays, Kept
<1>5. CASE Enters(c, e)
  <2>1. thread'[c][e].episode = active[e] /\ recovery[e] = "none"
    BY <1>5, EntersAt
  <2>2. session'[e] = session[e]
    BY <1>5, EntersChangesNothing DEF Cells
  <2> QED BY <1>3, <2>1, <2>2 DEF SessionEpisode, Heard
<1>6. CASE Sends(c, e)
  <2>1. session'[e] = session[e]
    BY <1>1, <1>6, SendsIsSent DEF SendsCommand, Cells
  <2> QED BY <1>2, <1>3, <1>6, <2>1 DEF Sends
<1>7. CASE Wakes(c, e)
  BY <1>7 DEF Wakes
<1> QED BY <1>1, <1>4, <1>5, <1>6, <1>7, SentSteps, ParkedSteps

-----------------------------------------------------------------------------
LEMMA ActiveSteps ==
    ASSUME NEW e \in Env, EnvStep(e)
    PROVE  \/ active'[e] = active[e]
           \/ \E d \in Actor : HearsReset(d, e) /\ active'[e] = thread[d][e].episode
<1>1. CASE Prepares(e)
  BY <1>1 DEF Prepares
<1>2. ASSUME NEW d \in Actor,
             HearsReset(d, e) \/ HearsStep(d, e) \/ HearsFinalize(d, e) \/ HearsBreach(d, e) \/ HearsFailure(d, e)
      PROVE active'[e] = active[e] \/ (HearsReset(d, e) /\ active'[e] = thread[d][e].episode)
  BY <1>2 DEF HearsReset, HearsStep, HearsFinalize, HearsBreach, HearsFailure
<1> QED BY <1>1, <1>2, EnvStepCases

LEMMA ResetsAreNumberedNext ==
    ASSUME TypeOK, LiveInv, ThreadsFollowCalls, ResumedBeforeEvents, ResumedBeforeEvents',
           ResetsAreNumbered, [Next]_vars
    PROVE  ResetsAreNumbered'
<1> DEFINE Waits(c, e) == call[c] = "reset" /\ thread[c][e].at \in {"parked", "resumed", "sent"}
<1> SUFFICES ASSUME NEW e \in Env
             PROVE  /\ active'[e] <= episode'[e]
                    /\ \A c \in Actor : Waits(c, e)' => /\ active'[e] < thread'[c][e].episode
                                                        /\ thread'[c][e].episode <= episode'[e]
                    /\ \A c, d \in Actor :
                          call'[c] = "reset" /\ call'[d] = "reset"
                          /\ thread'[c][e].at = "sent" /\ thread'[d][e].at = "parked"
                          => thread'[c][e].episode < thread'[d][e].episode
  BY DEF ResetsAreNumbered
<1>1. EnvStep(e) /\ \A c \in Actor : ThreadStep(c, e)
  BY ThreadSteps, EnvSteps
<1>2. /\ active[e] \in Nat /\ episode[e] \in Nat /\ active[e] <= episode[e]
      /\ episode'[e] \in {episode[e], episode[e] + 1}
  BY BatchSteps DEF BatchStep, TypeOK, ResetsAreNumbered
<1>3. \A c \in Actor : /\ thread[c][e].episode \in Nat
                       /\ Waits(c, e) => /\ active[e] < thread[c][e].episode
                                         /\ thread[c][e].episode <= episode[e]
  BY ThreadFacts DEF ResetsAreNumbered
<1>4. \A c, d \in Actor : call[c] = "reset" /\ call[d] = "reset"
                          /\ thread[c][e].at = "sent" /\ thread[d][e].at = "parked"
                          => thread[c][e].episode < thread[d][e].episode
  BY DEF ResetsAreNumbered
<1>5. ASSUME NEW d \in Actor, HearsReset(d, e) PROVE Waits(d, e) /\ thread[d][e].at = "sent"
  BY <1>5 DEF HearsReset, Hears, ThreadsFollowCalls
<1>6. active'[e] <= episode'[e]
  BY <1>1, <1>2, <1>3, <1>5, ActiveSteps
<1>7. ASSUME NEW c \in Actor, Waits(c, e)'
      PROVE  active'[e] < thread'[c][e].episode /\ thread'[c][e].episode <= episode'[e]
  <2>1. CASE Enters(c, e)
    <3>1. active'[e] = active[e]
      BY <2>1, EntersChangesNothing DEF Cells
    <3>2. thread'[c][e].episode = episode[e] + 1 /\ episode'[e] = episode[e] + 1
      BY <1>7, <2>1, EntersAt
    <3> QED BY <1>2, <3>1, <3>2
  <2>2. CASE /\ Stays(c, e) \/ Sends(c, e) \/ Wakes(c, e)
             /\ Waits(c, e) /\ thread'[c][e].episode = thread[c][e].episode
    <3>1. CASE active'[e] = active[e]
      BY <1>2, <1>3, <2>2, <3>1
    <3>2. ASSUME NEW d \in Actor, HearsReset(d, e), active'[e] = thread[d][e].episode
          PROVE  active'[e] < thread'[c][e].episode /\ thread'[c][e].episode <= episode'[e]
      <4>1. ~Wakes(c, e)
        BY <3>2, NotHearingWhenWoken DEF HearsSomething
      <4>2. Hears(d, e)
        BY <3>2 DEF HearsReset
      <4>3. ~Sends(c, e)
        BY <4>2, SupervisorAssumption DEF Hears, Sends, Actor
      <4>4. Stays(c, e)
        BY <2>2, <4>1, <4>3
      <4>5. thread[c][e].at = "parked"
        BY <2>2, <4>2, <4>4, NotHearing
      <4>6. thread[d][e].episode < thread[c][e].episode
        BY <1>4, <1>5, <2>2, <3>2, <4>5
      <4> QED BY <1>2, <1>3, <2>2, <3>2, <4>6
    <3> QED BY <1>1, <3>1, <3>2, ActiveSteps
  <2> QED BY <1>1, <1>7, <2>1, <2>2, WaitingSteps
<1>8. ASSUME NEW c \in Actor, NEW d \in Actor, call'[c] = "reset", call'[d] = "reset",
             thread'[c][e].at = "sent", thread'[d][e].at = "parked"
      PROVE  thread'[c][e].episode < thread'[d][e].episode
  <2>1. recovery'[e] # "none"
    BY <1>8 DEF ResumedBeforeEvents
  <2>2. ~Wakes(c, e)
    BY <2>1 DEF Wakes
  <2>3. CASE Sends(c, e)
    <3>1. Resumed(e) /\ CallContinues(e)
      BY <2>3 DEF Sends, Resumed, CallContinues
    <3>2. thread[d][e].at # "parked"
      BY <3>1 DEF ResumedBeforeEvents
    <3>3. ~Enters(d, e)
      BY <3>1 DEF Enters, EventLoopIdle
    <3> QED BY <1>1, <1>8, <3>2, <3>3, ParkedSteps
  <2>4. CASE Stays(c, e) /\ thread[c][e].at = "sent"
    <3>1. call[c] = "reset" /\ thread'[c][e].episode = thread[c][e].episode
      BY <1>8, <2>4 DEF Stays, Kept
    <3>2. CASE Stays(d, e) /\ thread[d][e].at = "parked"
      BY <1>4, <1>8, <2>4, <3>1, <3>2 DEF Stays, Kept
    <3>3. CASE Enters(d, e)
      <4>1. thread'[d][e].episode = episode[e] + 1
        BY <1>8, <3>3, EntersAt
      <4>2. thread[c][e].episode <= episode[e] /\ thread[c][e].episode \in Nat
        BY <1>3, <2>4, <3>1
      <4> QED BY <1>2, <3>1, <4>1, <4>2
    <3> QED BY <1>1, <1>8, <3>2, <3>3, ParkedSteps
  <2> QED BY <1>1, <1>8, <2>2, <2>3, <2>4, SentSteps
<1> QED BY <1>6, <1>7, <1>8

-----------------------------------------------------------------------------
(***************************************************************************)
(* DiscardedIsSilent and StateNamesPhase.                                  *)
(***************************************************************************)

LEMMA StatePreparing ==
    ASSUME NEW e \in Env, EnvStep(e), state'[e] = "preparing"
    PROVE  state[e] = "preparing"
<1>1. \A c \in Actor : HearsStep(c, e) => state[e] = "preparing"
  BY DEF HearsStep
<1> QED BY <1>1, EnvStepCases DEF Prepares, HearsReset, HearsFinalize, HearsBreach, HearsFailure

LEMMA DiscardedIsSilentNext ==
    ASSUME TypeOK, LiveInv, ResumedBeforeEvents, DiscardedIsSilent, [Next]_vars
    PROVE  DiscardedIsSilent'
<1> SUFFICES ASSUME NEW e \in Env, recovery'[e] = "discarding"
             PROVE  /\ Usable' => state'[e] = "faulted"
                    /\ pending'[e] \in {"idle", "close"}
                    /\ pending'[e] = "idle" /\ CurrentLive(e)' => proc'[e][worker'[e]] = "killed"
  BY DEF DiscardedIsSilent
<1>1. EnvStep(e) /\ (Usable' => Usable)
  BY EnvSteps, BatchSteps DEF BatchStep
<1>2. CASE Discards(e)
  BY <1>2 DEF Discards
<1>3. CASE Exits(e)
  BY <1>1, <1>3 DEF Exits, DiscardedIsSilent
<1>4. CASE recovery[e] = "discarding" /\ ~Discards(e) /\ ~Exits(e)
  <2>1. /\ Usable => state[e] = "faulted"
        /\ pending[e] \in {"idle", "close"}
        /\ pending[e] = "idle" /\ CurrentLive(e) => proc[e][worker[e]] = "killed"
        /\ ~Resumed(e) /\ state[e] # "preparing"
    BY <1>4 DEF DiscardedIsSilent, ResumedBeforeEvents, LiveInv, RecoveryForksAlone
  <2>2. \A c \in Actor : ~Hears(c, e)
    BY <2>1, SupervisorAssumption DEF Hears, Actor
  <2>3. Still(e) \/ CloseIsOver(e) \/ Closes(e) \/ Disposes(e)
    BY <1>1, <1>4, <2>1, <2>2 DEF EnvStep, SendsCommand, SendsInitialize, Alarmed, Kills,
       MayRestart, GivesUp,
       Forks, Prepares, Forgets, InitializeIsOver, HearsReset, HearsStep, HearsFinalize,
       HearsBreach, HearsFailure, HearsNothing, HearsSomething
  <2>4. CASE Still(e)
    BY <1>1, <2>1, <2>4 DEF Still, Cells, Process, CurrentLive, Live
  <2>5. CASE CloseIsOver(e)
    BY <1>1, <2>1, <2>5 DEF CloseIsOver, Cells
  <2>6. CASE Closes(e)
    BY <1>1, <2>1, <2>6 DEF Closes, Cells
  <2>7. CASE Disposes(e)
    BY <1>1, <2>1, <2>7 DEF Disposes, Process, CurrentLive, Live, Usable
  <2> QED BY <2>3, <2>4, <2>5, <2>6, <2>7
<1>5. recovery[e] = "discarding" \/ Discards(e) \/ Exits(e)
  BY <1>1 DEF EnvStep, Still, SendsCommand, SendsInitialize, Alarmed, Kills, MayRestart,
     GivesUp, Forks,
     Prepares, Forgets, InitializeIsOver, CloseIsOver, Closes, Disposes, HearsReset, HearsStep,
     HearsFinalize, HearsBreach, HearsFailure, HearsNothing, HearsSomething
<1> QED BY <1>2, <1>3, <1>4, <1>5

\* What the state of environment e says about its session.
Names(e) ==
    /\ state[e] \notin {"restarting", "closing"}
    /\ state[e] = "faulted" <=> ~CurrentLive(e)
    /\ state[e] = "prepared" => session[e].st = "prepared"
    /\ state[e] \in {"ready", "terminal"} => session[e].st = state[e]
    /\ state[e] = "finalized" => session[e].st \in {"prepared", "finalized"}

LEMMA StateNamesPhaseNext ==
    ASSUME TypeOK, LiveInv, DiscardedIsSilent, StateNamesPhase, [Next]_vars
    PROVE  StateNamesPhase'
<1> SUFFICES ASSUME NEW e \in Env, Usable', ~shuttingDown'
             PROVE  /\ batch' \in {"open", "finalizing"} => state'[e] # "preparing"
                    /\ recovery'[e] = "none" /\ state'[e] # "preparing" => Names(e)'
  BY DEF StateNamesPhase, Names
<1>1. EnvStep(e) /\ Usable /\ ~shuttingDown
  BY EnvSteps, BatchSteps DEF BatchStep
<1>2. /\ batch \in {"open", "finalizing"} => state[e] # "preparing"
      /\ recovery[e] = "none" /\ state[e] # "preparing" => Names(e)
  BY <1>1 DEF StateNamesPhase, Names
<1>3. batch' \in {"open", "finalizing"} => state'[e] # "preparing"
  BY <1>1, <1>2, StatePreparing, BatchSteps DEF BatchStep
<1>4. ASSUME recovery'[e] = "none", state'[e] # "preparing" PROVE Names(e)'
  <2>1. CASE Cells(e)' = Cells(e) /\ (CurrentLive(e)' <=> CurrentLive(e)) /\ recovery[e] = "none"
    BY <1>2, <1>4, <2>1 DEF Names, Cells
  <2>2. CASE GivesUp(e)
    BY <2>2 DEF Names, GivesUp
  <2>3. CASE Forgets(e)
    <3>1. state'[e] = "faulted" /\ ~CurrentLive(e)'
      BY <1>1, <2>3 DEF Forgets, DiscardedIsSilent, Cells
    <3> QED BY <3>1 DEF Names
  <2>4. CASE Prepares(e)
    BY <2>4 DEF Names, Prepares, Process, CurrentLive, Live
  <2>5. CASE Exits(e)
    <3>1. state'[e] = state[e] /\ recovery[e] = "none" /\ ExitExpected(e) /\ CurrentLive(e)
      BY <1>4, <2>5 DEF Exits
    <3>2. state[e] \in {"closing", "restarting", "faulted"}
      BY <1>1, <3>1 DEF ExitExpected
    <3> QED BY <1>2, <3>1, <3>2 DEF Names
  <2>6. ASSUME NEW c \in Actor,
               HearsReset(c, e) \/ HearsStep(c, e) \/ HearsFinalize(c, e) \/ HearsFailure(c, e)
        PROVE  Names(e)'
    <3>1. /\ recovery[e] = "none" /\ CurrentLive(e) /\ CurrentLive(e)'
          /\ state[e] # "preparing" => Names(e)
      BY <1>2, <1>4, <2>6 DEF Hears, HearsReset, HearsStep, HearsFinalize, HearsFailure
    <3>2. CASE HearsReset(c, e) \/ HearsFinalize(c, e)
      BY <3>1, <3>2 DEF Names, HearsReset, HearsFinalize
    <3>3. CASE HearsStep(c, e)
      BY <1>4, <3>1, <3>3 DEF Names, HearsStep
    <3>4. CASE HearsFailure(c, e)
      BY <1>4, <3>1, <3>4 DEF Names, HearsFailure
    <3> QED BY <2>6, <3>2, <3>3, <3>4
  <2>7. \/ /\ Cells(e)' = Cells(e) /\ recovery[e] = "none"
           /\ Forks(e) \/ Exits(e) \/ (CurrentLive(e)' <=> CurrentLive(e))
        \/ GivesUp(e) \/ Forgets(e) \/ Prepares(e) \/ Exits(e) \/ Forks(e)
        \/ \E c \in Actor : HearsReset(c, e) \/ HearsStep(c, e) \/ HearsFinalize(c, e) \/ HearsFailure(c, e)
    <3>1. CASE \E c \in Actor : HearsBreach(c, e) \/ HearsNothing(c, e)
      BY <1>1, <1>4, <3>1, LiveSteps DEF HearsBreach, HearsNothing
    <3>2. CASE Kills(e) \/ MayRestart(e) \/ Discards(e) \/ Disposes(e)
      BY <1>1, <1>4, <3>2 DEF Kills, MayRestart, Discards, Disposes, Usable
    <3>3. CASE Still(e) \/ SendsCommand(e) \/ SendsInitialize(e) \/ Alarmed(e) \/ InitializeIsOver(e)
               \/ CloseIsOver(e) \/ Closes(e)
      BY <1>1, <1>4, <3>3, LiveSteps
         DEF Still, SendsCommand, SendsInitialize, Alarmed, InitializeIsOver,
         CloseIsOver, Closes
    <3> QED BY <1>1, <3>1, <3>2, <3>3 DEF EnvStep, HearsSomething
  <2>8. CASE Forks(e)
    BY <1>4, <2>8 DEF Forks
  <2> QED BY <2>1, <2>2, <2>3, <2>4, <2>5, <2>6, <2>7, <2>8
<1> QED BY <1>3, <1>4

-----------------------------------------------------------------------------
(***************************************************************************)
(* The theorems.                                                           *)
(***************************************************************************)

LEMMA SupervisorInvInit == Init => SupervisorInv
<1> SUFFICES ASSUME Init PROVE SupervisorInv
  OBVIOUS
<1>1. /\ \A c \in Actor : call[c] = "idle"
      /\ \A c \in Actor, e \in Env : thread[c][e].at = "none" /\ pending[e] # c
  BY SupervisorAssumption DEF Init, NoThread, Actor
<1>2. \A e \in Env : /\ recovery[e] = "none" /\ state[e] = "preparing" /\ session[e].st = "idle"
                     /\ active[e] = 0 /\ episode[e] = 0 /\ finalized[e] = 0
  BY DEF Init
<1>3. batch = "spawning" /\ Closer \in Actor
  BY DEF Init, Actor
<1>4. LiveInv
  BY LiveInvInit
<1>5. ThreadsFollowCalls
  BY <1>1, <1>3 DEF ThreadsFollowCalls
<1>6. ResumedBeforeEvents
  BY <1>1, <1>2 DEF ResumedBeforeEvents, Resumed
<1>7. SessionEpisode /\ FinalizeResultIsCurrent
  BY <1>2 DEF SessionEpisode, FinalizeResultIsCurrent
<1>8. StepsMeetTheirEpisode
  BY <1>1 DEF StepsMeetTheirEpisode
<1>9. ResetsAreNumbered
  BY <1>1, <1>2 DEF ResetsAreNumbered
<1>10. DiscardedIsSilent /\ StateNamesPhase
  BY <1>2, <1>3 DEF DiscardedIsSilent, StateNamesPhase
<1> QED BY <1>4, <1>5, <1>6, <1>7, <1>8, <1>9, <1>10 DEF SupervisorInv

LEMMA SupervisorInvNext == ASSUME TypeOK, SupervisorInv, [Next]_vars PROVE SupervisorInv'
<1> USE DEF SupervisorInv
<1>1. LiveInv'
  BY LiveInvNext
<1>2. ThreadsFollowCalls'
  BY ThreadsFollowCallsNext
<1>3. ResumedBeforeEvents'
  BY ResumedBeforeEventsNext
<1>4. SessionEpisode' /\ FinalizeResultIsCurrent'
  BY SessionEpisodeNext
<1>5. StepsMeetTheirEpisode'
  BY StepsMeetTheirEpisodeNext
<1>6. ResetsAreNumbered'
  BY <1>3, ResetsAreNumberedNext
<1>7. DiscardedIsSilent'
  BY DiscardedIsSilentNext
<1>8. StateNamesPhase'
  BY StateNamesPhaseNext
<1> QED BY <1>1, <1>2, <1>3, <1>4, <1>5, <1>6, <1>7, <1>8

\* The invariant of the sessions: every share of a call, every request in flight
\* and every session outside a recovery is about the worker and the episode that
\* the supervisor has recorded (_dispatch, _recover, _observeExit and the answers
\* of the worker), for every interleaving of any number of calls and failures.
THEOREM SupervisorInvariant == Spec => []SupervisorInv
<1>1. Init => TypeOK /\ SupervisorInv
  BY InitType, SupervisorInvInit
<1>2. TypeOK /\ SupervisorInv /\ [Next]_vars => TypeOK' /\ SupervisorInv'
  BY NextType, SupervisorInvNext
<1> QED BY <1>1, <1>2, PTL DEF Spec

LEMMA InvAgrees == ASSUME TypeOK, SupervisorInv PROVE SessionAgrees
<1> SUFFICES ASSUME NEW e \in Env, batch \in {"open", "finalizing"}, ~shuttingDown,
                    recovery[e] = "none"
             PROVE  /\ state[e] = "faulted" \/ CurrentLive(e)
                    /\ state[e] = "prepared" => session[e].st = "prepared"
                    /\ state[e] \in {"ready", "terminal"} =>
                          session[e] = [st |-> state[e], episode |-> active[e]]
                    /\ state[e] = "finalized" => session[e].st \in {"prepared", "finalized"}
  BY DEF SessionAgrees
<1>1. /\ state[e] = "faulted" <=> ~CurrentLive(e)
      /\ state[e] = "prepared" => session[e].st = "prepared"
      /\ state[e] \in {"ready", "terminal"} => session[e].st = state[e]
      /\ state[e] = "finalized" => session[e].st \in {"prepared", "finalized"}
  BY DEF SupervisorInv, StateNamesPhase, Usable
<1>2. ASSUME state[e] \in {"ready", "terminal"}
      PROVE  session[e] = [st |-> state[e], episode |-> active[e]]
  <2>1. session[e].st = state[e] /\ CurrentLive(e)
    BY <1>1, <1>2
  <2>2. session[e].episode = active[e]
    BY <1>2, <2>1 DEF SupervisorInv, SessionEpisode, Heard
  <2>3. session[e] \in Session
    BY DEF TypeOK
  <2> QED BY <2>1, <2>2, <2>3 DEF Session
<1> QED BY <1>1, <1>2

\* Whenever no recovery is under way, what the supervisor believes about an
\* environment is what its worker's session is in, for the same episode.
THEOREM SessionsAgree == Spec => []SessionAgrees
<1>1. TypeOK /\ SupervisorInv => SessionAgrees
  BY InvAgrees
<1> QED BY <1>1, TypeCorrect, SupervisorInvariant, PTL

\* FinalizeBatch never answers from lastFinalizeResult for an episode that it did
\* not finalize.
THEOREM FinalizeResults == Spec => []FinalizeResultIsCurrent
<1>1. SupervisorInv => FinalizeResultIsCurrent
  BY DEF SupervisorInv
<1> QED BY <1>1, SupervisorInvariant, PTL

\* A failure consumes one restart, however many callers, events and timers see
\* it: a call whose command failed never recovers the replacement
\* (_recoverIfInfrastructure and recoveryPromise).
THEOREM OneRestart == Spec => []OneRestartPerFailure
<1>1. SupervisorInv => OneRestartPerFailure
  BY DEF SupervisorInv, ThreadsFollowCalls, OneRestartPerFailure, RecoversItsWorker
<1> QED BY <1>1, SupervisorInvariant, PTL

LEMMA InvAdvances ==
    ASSUME TypeOK, SupervisorInv, [Next]_vars, NEW e \in Env
    PROVE  EpisodesOnlyAdvance(e)
<1> USE DEF SupervisorInv
<1>1. EnvStep(e)
  BY EnvSteps
<1>2. ASSUME NEW d \in Actor, HearsReset(d, e) PROVE active'[e] > active[e]
  <2>1. call[d] = "reset" /\ thread[d][e].at = "sent" /\ active'[e] = thread[d][e].episode
    BY <1>2 DEF HearsReset, Hears, ThreadsFollowCalls
  <2>2. active[e] < thread[d][e].episode
    BY <2>1 DEF ResetsAreNumbered
  <2>3. active[e] \in Nat /\ thread[d][e].episode \in Nat
    BY ThreadFacts DEF TypeOK
  <2> QED BY <2>1, <2>2, <2>3
<1>3. ASSUME state[e] # "ready", state'[e] = "ready" PROVE \E d \in Actor : HearsReset(d, e)
  BY <1>1, <1>3, EnvStepCases DEF Prepares, HearsStep, HearsFinalize, HearsBreach, HearsFailure
<1>4. active'[e] # active[e] => \E d \in Actor : HearsReset(d, e)
  BY <1>1, ActiveSteps
<1> QED BY <1>2, <1>3, <1>4 DEF EpisodesOnlyAdvance

LEMMA InvSteps ==
    ASSUME TypeOK, SupervisorInv, NEW c \in Actor, NEW e \in Env, StepAnswered(c, e)
    PROVE  session[e] = [st |-> "ready", episode |-> thread[c][e].episode]
<1>1. CurrentLive(e) /\ pending[e] = c /\ call[c] = "step" /\ session[e].st = "ready"
  BY DEF StepAnswered, Answering, SessionSteps
<1>2. thread[c][e].at = "sent"
  BY <1>1 DEF SupervisorInv, ThreadsFollowCalls
<1>3. session[e].episode = thread[c][e].episode
  BY <1>1, <1>2 DEF SupervisorInv, StepsMeetTheirEpisode
<1>4. session[e] \in Session
  BY DEF TypeOK
<1> QED BY <1>1, <1>3, <1>4 DEF Session

\* "The failed action is never replayed and the failed episode never continues":
\* a step runs in the very episode it was accepted for, and the number of an
\* episode that begins is above those of all before it.
THEOREM StepsRunTheirEpisode == Spec => StepsItsEpisode
<1> DEFINE Right == \A e \in Env :
                       /\ EpisodesOnlyAdvance(e)
                       /\ \A c \in Actor : StepAnswered(c, e) =>
                             session[e] = [st |-> "ready", episode |-> thread[c][e].episode]
<1>1. TypeOK /\ SupervisorInv /\ [Next]_vars => [Right]_vars
  <2> SUFFICES ASSUME TypeOK, SupervisorInv, [Next]_vars PROVE Right
    OBVIOUS
  <2> QED BY InvAdvances, InvSteps
<1>2. Spec => [][Right]_vars
  BY <1>1, TypeCorrect, SupervisorInvariant, PTL DEF Spec
<1> QED BY <1>2 DEF StepsItsEpisode
=============================================================================
