------------------------- MODULE SupervisorCapacity -------------------------
(***************************************************************************)
(* The capacity of one supervisor, shared by the batches of its clients    *)
(* and the managed experiments of its process (createBatch, closeBatch,    *)
(* runManagedExperiment and close in                                       *)
(* server/headless/HeadlessSupervisor.js).                                 *)
(*                                                                         *)
(* What happens inside a batch is HeadlessSupervisor's subject; here it is *)
(* one operation with a size.  The workers of a batch are gone when its    *)
(* creation has failed or its close has ended; that module describes the   *)
(* recoveries that break this (README, section 4), so nothing is claimed   *)
(* here about processes, only about the accounting.                        *)
(***************************************************************************)
EXTENDS Naturals, FiniteSetsExt

CONSTANTS
    Batch,          \* CreateBatch requests ever made
    Managed,        \* managed experiments ever started
    Environments,   \* Environments[b]: the number of environments batch b asks for
    MaxWorkers      \* config.maxWorkers

ASSUME CapacityAssumption ==
    /\ Batch \cap Managed = {}
    /\ IsFiniteSet(Batch \cup Managed)
    /\ Environments \in [Batch -> Nat \ {0}]
    /\ MaxWorkers \in Nat \ {0}

Operation == Batch \cup Managed
Size(o) == IF o \in Batch THEN Environments[o] ELSE 1

VARIABLES
    phase,      \* progress of each operation
    reserved,   \* this.reservedWorkers
    workers,    \* per operation: its live worker processes
    shutdown    \* "no" while serving; then what _close is waiting for

vars == <<phase, reserved, workers, shutdown>>

BatchPhase == {"new", "decoding", "creating", "cleanup", "open", "closing", "gone"}
ManagedPhase == {"new", "validating", "running", "releasing", "gone"}
Counting(b) == phase[b] \in {"open", "closing"}

TypeOK ==
    /\ phase \in [Operation -> BatchPhase \cup ManagedPhase]
    /\ reserved \in 0..MaxWorkers
    /\ workers \in [Operation -> Nat]
    /\ \A o \in Operation : workers[o] <= Size(o)
    /\ shutdown \in {"no", "creations", "managed", "batches", "workers", "down"}

\* The batches map is what counts: a batch is in it from its creation's last
\* turn to the end of _closeBatch.
activeEnvironmentCount == MapThenSumSet(Size, {b \in Batch : Counting(b)})
LiveWorkers(S) == MapThenSumSet(LAMBDA o : workers[o], S)

Init ==
    /\ phase = [o \in Operation |-> "new"]
    /\ reserved = 0
    /\ workers = [o \in Operation |-> 0]
    /\ shutdown = "no"

Goes(o, p) == phase' = [phase EXCEPT ![o] = p]

-----------------------------------------------------------------------------
(***************************************************************************)
(* createBatch and closeBatch.                                             *)
(***************************************************************************)

\* The check for a shutdown comes before the bundles are decoded.
CreateBatch(b) ==
    /\ phase[b] = "new"
    /\ Goes(b, IF shutdown = "no" THEN "decoding" ELSE "gone")
    /\ UNCHANGED <<reserved, workers, shutdown>>

\* Mutant: creations under way are not counted.
AdmitBesideCreations(b) ==
    /\ phase[b] = "decoding"
    /\ \/ /\ activeEnvironmentCount + Size(b) <= MaxWorkers
          /\ Goes(b, "creating")
          /\ reserved' = reserved + Size(b)
       \/ /\ Goes(b, "gone")
          /\ UNCHANGED reserved
    /\ UNCHANGED <<workers, shutdown>>

\* The capacity check and the reservation are one turn of the event loop.
\* The request may also be refused for its content.
Admit(b) ==
    /\ phase[b] = "decoding"
    /\ \/ /\ activeEnvironmentCount + reserved + Size(b) <= MaxWorkers
          /\ Goes(b, "creating")
          /\ reserved' = reserved + Size(b)
       \/ /\ Goes(b, "gone")
          /\ UNCHANGED reserved
    /\ UNCHANGED <<workers, shutdown>>

\* Workers are forked one after the other.
Fork(b) ==
    /\ phase[b] = "creating"
    /\ workers[b] < Size(b)
    /\ workers' = [workers EXCEPT ![b] = @ + 1]
    /\ UNCHANGED <<phase, reserved, shutdown>>

\* Mutant: the reservation is kept once the batch counts by itself.
CreatedKeepingReservation(b) ==
    /\ phase[b] = "creating"
    /\ workers[b] = Size(b)
    /\ Goes(b, IF shutdown = "no" THEN "open" ELSE "cleanup")
    /\ UNCHANGED <<reserved, workers, shutdown>>

\* The batch is registered and the reservation given back in the same turn,
\* unless a shutdown began meanwhile.
Created(b) ==
    /\ phase[b] = "creating"
    /\ workers[b] = Size(b)
    /\ IF shutdown = "no"
       THEN Goes(b, "open") /\ reserved' = reserved - Size(b)
       ELSE Goes(b, "cleanup") /\ UNCHANGED reserved
    /\ UNCHANGED <<workers, shutdown>>

CreationFails(b) ==
    /\ phase[b] = "creating"
    /\ Goes(b, "cleanup")
    /\ UNCHANGED <<reserved, workers, shutdown>>

\* The reservation is held until the workers of a failed creation have exited.
CleanedUp(b) ==
    /\ phase[b] = "cleanup"
    /\ workers[b] = 0
    /\ Goes(b, "gone")
    /\ reserved' = reserved - Size(b)
    /\ UNCHANGED <<workers, shutdown>>

\* A worker of an open batch dies, and its recovery replaces it, even when a
\* shutdown has begun since the recovery asked for one.
WorkerDies(b) ==
    /\ phase[b] = "open"
    /\ workers[b] > 0
    /\ workers' = [workers EXCEPT ![b] = @ - 1]
    /\ UNCHANGED <<phase, reserved, shutdown>>

Respawn(b) ==
    /\ phase[b] = "open"
    /\ workers[b] < Size(b)
    /\ workers' = [workers EXCEPT ![b] = @ + 1]
    /\ UNCHANGED <<phase, reserved, shutdown>>

CloseBatch(b) ==
    /\ phase[b] = "open"
    /\ Goes(b, "closing")
    /\ UNCHANGED <<reserved, workers, shutdown>>

BatchCloses(b) ==
    /\ phase[b] = "closing"
    /\ workers[b] = 0
    /\ Goes(b, "gone")
    /\ UNCHANGED <<reserved, workers, shutdown>>

-----------------------------------------------------------------------------
(***************************************************************************)
(* runManagedExperiment.                                                   *)
(***************************************************************************)

\* Checked and reserved before anything is awaited.
RunManagedExperiment(m) ==
    /\ phase[m] = "new"
    /\ IF shutdown = "no" /\ activeEnvironmentCount + reserved + 1 <= MaxWorkers
       THEN Goes(m, "validating") /\ reserved' = reserved + 1
       ELSE Goes(m, "gone") /\ UNCHANGED reserved
    /\ UNCHANGED <<workers, shutdown>>

ForkManaged(m) ==
    /\ phase[m] = "validating"
    /\ Goes(m, "running")
    /\ workers' = [workers EXCEPT ![m] = 1]
    /\ UNCHANGED <<reserved, shutdown>>

\* The finally block gives the reservation back first and then closes the
\* worker, whether the run succeeded or failed, started or not.
ManagedEnds(m) ==
    /\ phase[m] \in {"validating", "running"}
    /\ Goes(m, "releasing")
    /\ reserved' = reserved - 1
    /\ UNCHANGED <<workers, shutdown>>

ManagedReleased(m) ==
    /\ phase[m] = "releasing"
    /\ workers[m] = 0
    /\ Goes(m, "gone")
    /\ UNCHANGED <<reserved, workers, shutdown>>

\* A worker that is being closed exits.
Exit(o) ==
    /\ phase[o] \in {"cleanup", "closing", "releasing"}
    /\ workers[o] > 0
    /\ workers' = [workers EXCEPT ![o] = @ - 1]
    /\ UNCHANGED <<phase, reserved, shutdown>>

-----------------------------------------------------------------------------
(***************************************************************************)
(* close() of the supervisor waits for the creations under way, then for   *)
(* the managed experiments, closes the batches, and then the workers left. *)
(***************************************************************************)

BeginClose ==
    /\ shutdown = "no"
    /\ shutdown' = "creations"
    /\ UNCHANGED <<phase, reserved, workers>>

CreationsSettle ==
    /\ shutdown = "creations"
    /\ \A b \in Batch : phase[b] \notin {"decoding", "creating", "cleanup"}
    /\ shutdown' = "managed"
    /\ UNCHANGED <<phase, reserved, workers>>

\* Mutant: close() does not wait for managed experiments.
CloseBatchesAtOnce ==
    /\ shutdown = "managed"
    /\ shutdown' = "batches"
    /\ phase' = [o \in Operation |-> IF phase[o] = "open" THEN "closing" ELSE phase[o]]
    /\ UNCHANGED <<reserved, workers>>

\* Mutant: close() forgets the batches.
ManagedSettleOnly ==
    /\ shutdown = "managed"
    /\ \A m \in Managed : phase[m] \in {"new", "gone"}
    /\ shutdown' = "batches"
    /\ UNCHANGED <<phase, reserved, workers>>

ManagedSettle ==
    /\ shutdown = "managed"
    /\ \A m \in Managed : phase[m] \in {"new", "gone"}
    /\ shutdown' = "batches"
    /\ phase' = [o \in Operation |-> IF phase[o] = "open" THEN "closing" ELSE phase[o]]
    /\ UNCHANGED <<reserved, workers>>

BatchesSettle ==
    /\ shutdown = "batches"
    /\ \A b \in Batch : ~Counting(b)
    /\ shutdown' = "workers"
    /\ UNCHANGED <<phase, reserved, workers>>

Down ==
    /\ shutdown = "workers"
    /\ LiveWorkers(Operation) = 0
    /\ shutdown' = "down"
    /\ UNCHANGED <<phase, reserved, workers>>

Terminated == shutdown = "down" /\ UNCHANGED vars

-----------------------------------------------------------------------------
BatchStep(b) ==
    \/ CreateBatch(b) \/ Admit(b) \/ Fork(b) \/ Created(b) \/ CreationFails(b)
    \/ CleanedUp(b) \/ WorkerDies(b) \/ Respawn(b) \/ CloseBatch(b) \/ BatchCloses(b)
ManagedStep(m) ==
    \/ RunManagedExperiment(m) \/ ForkManaged(m) \/ ManagedEnds(m) \/ ManagedReleased(m)
CloseStep == BeginClose \/ CreationsSettle \/ ManagedSettle \/ BatchesSettle \/ Down

Next ==
    \/ \E b \in Batch : BatchStep(b)
    \/ \E m \in Managed : ManagedStep(m)
    \/ \E o \in Operation : Exit(o)
    \/ CloseStep \/ Terminated

Spec == Init /\ [][Next]_vars

(***************************************************************************)
(* Fairness: creations and managed runs come to an end (each has timeouts  *)
(* or a worker that answers), a closed worker exits, close() goes on.      *)
(***************************************************************************)
FairSpec ==
    /\ Spec
    /\ \A b \in Batch :
          /\ WF_vars(Admit(b))
          /\ WF_vars(Fork(b) \/ Created(b) \/ CreationFails(b))
          /\ WF_vars(CleanedUp(b)) /\ WF_vars(BatchCloses(b))
    /\ \A m \in Managed : WF_vars(ManagedEnds(m)) /\ WF_vars(ManagedReleased(m))
    /\ \A o \in Operation : WF_vars(Exit(o))
    /\ WF_vars(CreationsSettle \/ ManagedSettle \/ BatchesSettle \/ Down)

-----------------------------------------------------------------------------
(***************************************************************************)
(* Properties.                                                             *)
(***************************************************************************)

\* reservedWorkers is the sum of the reservations held, on every path through
\* createBatch and runManagedExperiment: none leaks, none is returned twice.
ReservationsAreHeld ==
    reserved = MapThenSumSet(Size, {o \in Operation :
                   phase[o] \in {"creating", "cleanup", "validating", "running"}})

\* Concurrent creations and managed runs never claim more than maxWorkers.
CapacityRespected == activeEnvironmentCount + reserved <= MaxWorkers

\* Once close() returns no operation is under way and none can begin.
NothingRunsAfterClose ==
    shutdown = "down" => \A o \in Operation : phase[o] \in {"new", "gone"}

\* close() returns, whatever was under way.
CloseReturns == shutdown = "creations" ~> shutdown = "down"
=============================================================================
