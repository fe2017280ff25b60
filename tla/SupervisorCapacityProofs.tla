---------------------- MODULE SupervisorCapacityProofs ----------------------
(***************************************************************************)
(* Proofs about the supervisor's capacity, whatever its clients ask for    *)
(* and however many workers it may have.                                   *)
(***************************************************************************)
EXTENDS SupervisorCapacity, FiniteSetFacts

(* The inductive invariant *)

\* The operations that hold a part of reservedWorkers.
Holding == {o \in Operation : phase[o] \in {"creating", "cleanup", "validating", "running"}}
Registered == {b \in Batch : Counting(b)}

\* Every operation goes through the phases of its kind.
PhasesOfItsKind ==
    /\ \A b \in Batch : phase[b] \in BatchPhase
    /\ \A m \in Managed : phase[m] \in ManagedPhase

\* What close() has waited for does not come back while it goes on.
ShutdownOrder ==
    /\ shutdown \in {"managed", "batches", "workers", "down"} =>
          \A b \in Batch : phase[b] \notin {"decoding", "creating", "cleanup"}
    /\ shutdown \in {"batches", "workers", "down"} =>
          /\ \A m \in Managed : phase[m] \in {"new", "gone"}
          /\ \A b \in Batch : phase[b] # "open"
    /\ shutdown \in {"workers", "down"} => \A b \in Batch : ~Counting(b)

Inductive ==
    TypeOK /\ ReservationsAreHeld /\ CapacityRespected /\ PhasesOfItsKind /\ ShutdownOrder

(* Sizes and their sums *)

SizeOf == [o \in Operation |-> Size(o)]

LEMMA SizeType ==
    /\ SizeOf \in [Operation -> Nat]
    /\ \A o \in Operation : Size(o) \in Nat \ {0} /\ SizeOf[o] = Size(o)
    /\ \A m \in Managed : Size(m) = 1
    /\ Batch \subseteq Operation /\ Managed \subseteq Operation /\ IsFiniteSet(Operation)
<1>1. \A o \in Operation : Size(o) \in Nat \ {0}
  BY CapacityAssumption DEF Operation, Size
<1>2. \A m \in Managed : Size(m) = 1
  BY CapacityAssumption DEF Size
<1> QED
  BY <1>1, <1>2, CapacityAssumption DEF SizeOf, Operation

Total(S) == MapThenSumSet(Size, S)

\* The model's sums of sizes are the sums of FiniteSetFacts.
LEMMA SizesSum ==
    ASSUME NEW S \in SUBSET Operation
    PROVE  Total(S) = Sum(SizeOf, S)
<1> DEFINE total(sum) ==
        sum = [s \in SUBSET S |-> IF s = {} THEN 0 ELSE Size(Chosen(s)) + sum[s \ {Chosen(s)}]]
           f == CHOOSE sum : total(sum)
<1>1. IsFiniteSet(S)
  BY SizeType, FS_Subset
<1>2. Total(S) = f[S]
  BY Zenon DEF Total, MapThenSumSet, MapThenFoldSet, Chosen
<1>3. \A s \in SUBSET S : s # {} => SizeOf[Chosen(s)] = Size(Chosen(s))
  BY ChosenIn, SizeType
<1>4. ASSUME NEW sum
      PROVE  Adds(SizeOf, sum, S) <=> total(sum)
  <2> DEFINE a(s) == IF s = {} THEN 0 ELSE SizeOf[Chosen(s)] + sum[s \ {Chosen(s)}]
             b(s) == IF s = {} THEN 0 ELSE Size(Chosen(s)) + sum[s \ {Chosen(s)}]
  <2>1. \A s \in SUBSET S : a(s) = b(s)
    BY <1>3
  <2>2. [s \in SUBSET S |-> a(s)] = [s \in SUBSET S |-> b(s)]
    <3> HIDE DEF a, b
    <3> QED
      BY <2>1
  <2>3. Adds(SizeOf, sum, S) <=> sum = [s \in SUBSET S |-> a(s)]
    BY Zenon DEF Adds
  <2>4. total(sum) <=> sum = [s \in SUBSET S |-> b(s)]
    BY Zenon
  <2> HIDE DEF a, b, total
  <2> QED
    BY <2>2, <2>3, <2>4
<1>5. total(f)
  <2>1. \E sum : Adds(SizeOf, sum, S)
    BY <1>1, AddsExists
  <2>2. \E sum : total(sum)
    <3> HIDE DEF total
    <3> QED
      BY <1>4, <2>1
  <2> QED
    BY <2>2, Zenon
<1>6. Adds(SizeOf, f, S)
  <2> HIDE DEF f, total
  <2> QED
    BY <1>4, <1>5
<1>7. Sum(SizeOf, S) = f[S]
  <2> HIDE DEF f, total
  <2>1. S \in SUBSET S
    OBVIOUS
  <2> QED
    BY <1>1, <1>6, <2>1, SumOf
<1> QED
  BY <1>2, <1>7

\* One operation more, or one less.
LEMMA SizesChange ==
    ASSUME NEW S \in SUBSET Operation, NEW o \in Operation
    PROVE  /\ Total(S) \in Nat
           /\ o \notin S => Total(S \cup {o}) = Total(S) + Size(o)
           /\ o \in S => /\ Total(S \ {o}) = Total(S) - Size(o)
                         /\ Size(o) <= Total(S)
<1>1. \A T \in SUBSET Operation : Total(T) = Sum(SizeOf, T) /\ Sum(SizeOf, T) \in Nat
  BY SizeType, SizesSum, FS_Subset, SumType
<1>2. \A T \in SUBSET Operation : o \in T => Sum(SizeOf, T) = Size(o) + Sum(SizeOf, T \ {o})
  BY SizeType, FS_Subset, SumPart
<1>3. Size(o) \in Nat
  BY SizeType
<1>4. CASE o \notin S
  <2>1. (S \cup {o}) \ {o} = S /\ S \cup {o} \in SUBSET Operation /\ o \in S \cup {o}
    BY <1>4
  <2>2. Sum(SizeOf, S \cup {o}) = Size(o) + Sum(SizeOf, S)
    BY <1>2, <2>1
  <2> QED
    BY <1>1, <1>3, <1>4, <2>1, <2>2
<1>5. CASE o \in S
  <2>1. S \ {o} \in SUBSET Operation
    OBVIOUS
  <2>2. Sum(SizeOf, S) = Size(o) + Sum(SizeOf, S \ {o})
    BY <1>2, <1>5
  <2> QED
    BY <1>1, <1>3, <1>5, <2>1, <2>2
<1> QED
  BY <1>4, <1>5

LEMMA Counters ==
    /\ activeEnvironmentCount = Total(Registered)
    /\ activeEnvironmentCount' = Total(Registered')
    /\ ReservationsAreHeld <=> reserved = Total(Holding)
    /\ ReservationsAreHeld' <=> reserved' = Total(Holding')
<1>1. activeEnvironmentCount = Total(Registered)
  BY Zenon DEF activeEnvironmentCount, Total, Registered
<1>2. activeEnvironmentCount' = Total(Registered')
  BY Zenon DEF activeEnvironmentCount, Total, Registered
<1>3. ReservationsAreHeld <=> reserved = Total(Holding)
  BY Zenon DEF ReservationsAreHeld, Total, Holding
<1>4. ReservationsAreHeld' <=> reserved' = Total(Holding')
  BY Zenon DEF ReservationsAreHeld, Total, Holding
<1> QED
  BY <1>1, <1>2, <1>3, <1>4

\* What an operation counts for in a phase: in reservedWorkers, and in the
\* number of environments of the batches map.
HoldingPhase == {"creating", "cleanup", "validating", "running"}
Holds(o, p) == IF p \in HoldingPhase THEN Size(o) ELSE 0
Counts(o, p) == IF o \in Batch /\ p \in {"open", "closing"} THEN Size(o) ELSE 0

\* The accounts follow an operation that goes to another phase and either
\* claims no more than before or passes the check against maxWorkers.
LEMMA AccountsFollow ==
    ASSUME Inductive, NEW o \in Operation, NEW p, Goes(o, p),
           reserved' = (reserved + Holds(o, p)) - Holds(o, phase[o]),
           \/ Counts(o, p) + Holds(o, p) <= Counts(o, phase[o]) + Holds(o, phase[o])
           \/ activeEnvironmentCount + reserved + Size(o) <= MaxWorkers
    PROVE  ReservationsAreHeld' /\ CapacityRespected' /\ reserved' \in 0..MaxWorkers
<1>1. /\ phase \in [Operation -> BatchPhase \cup ManagedPhase] /\ phase' = [phase EXCEPT ![o] = p]
      /\ reserved \in Nat /\ MaxWorkers \in Nat /\ Size(o) \in Nat
  BY SizeType, CapacityAssumption DEF Inductive, TypeOK, Goes
<1>2. Holding' = IF p \in HoldingPhase THEN Holding \cup {o} ELSE Holding \ {o}
  BY <1>1 DEF Holding, HoldingPhase
<1>3. o \in Holding <=> phase[o] \in HoldingPhase
  BY DEF Holding, HoldingPhase
<1>4. Registered' = IF o \in Batch /\ p \in {"open", "closing"} THEN Registered \cup {o}
                                                             ELSE Registered \ {o}
  BY <1>1 DEF Registered, Counting, Operation
<1>5. o \in Registered <=> o \in Batch /\ phase[o] \in {"open", "closing"}
  BY DEF Registered, Counting
<1>6. Total(Holding') = (Total(Holding) + Holds(o, p)) - Holds(o, phase[o]) /\ Total(Holding') \in Nat
  <2>1. Holding \in SUBSET Operation /\ Holding' \in SUBSET Operation
    BY DEF Holding
  <2>2. Total(Holding) \in Nat /\ Total(Holding') \in Nat
    BY <2>1, SizesChange
  <2>3. CASE p \in HoldingPhase /\ o \in Holding
    <3>1. Holding' = Holding
      BY <1>2, <2>3
    <3> QED
      BY <1>1, <1>3, <2>2, <2>3, <3>1 DEF Holds
  <2>4. CASE p \in HoldingPhase /\ o \notin Holding
    BY <1>1, <1>2, <1>3, <2>1, <2>2, <2>4, SizesChange DEF Holds
  <2>5. CASE p \notin HoldingPhase /\ o \in Holding
    BY <1>1, <1>2, <1>3, <2>1, <2>2, <2>5, SizesChange DEF Holds
  <2>6. CASE p \notin HoldingPhase /\ o \notin Holding
    <3>1. Holding' = Holding
      BY <1>2, <2>6
    <3> QED
      BY <1>1, <1>3, <2>2, <2>6, <3>1 DEF Holds
  <2> QED
    BY <2>3, <2>4, <2>5, <2>6
<1>7. /\ Total(Registered') = (Total(Registered) + Counts(o, p)) - Counts(o, phase[o])
      /\ Total(Registered') \in Nat /\ Total(Registered) \in Nat
  <2>1. Registered \in SUBSET Operation /\ Registered' \in SUBSET Operation
    BY DEF Registered, Operation
  <2>2. Total(Registered) \in Nat /\ Total(Registered') \in Nat
    BY <2>1, SizesChange
  <2> DEFINE In == o \in Batch /\ p \in {"open", "closing"}
  <2>3. CASE In /\ o \in Registered
    <3>1. Registered' = Registered
      BY <1>4, <2>3
    <3> QED
      BY <1>1, <1>5, <2>2, <2>3, <3>1 DEF Counts
  <2>4. CASE In /\ o \notin Registered
    BY <1>1, <1>4, <1>5, <2>1, <2>2, <2>4, SizesChange DEF Counts
  <2>5. CASE ~In /\ o \in Registered
    BY <1>1, <1>4, <1>5, <2>1, <2>2, <2>5, SizesChange DEF Counts
  <2>6. CASE ~In /\ o \notin Registered
    <3>1. Registered' = Registered
      BY <1>4, <2>6
    <3> QED
      BY <1>1, <1>5, <2>2, <2>6, <3>1 DEF Counts
  <2> QED
    BY <2>3, <2>4, <2>5, <2>6
<1>8. activeEnvironmentCount' = Total(Registered') /\ activeEnvironmentCount = Total(Registered)
      /\ reserved = Total(Holding) /\ (ReservationsAreHeld' <=> reserved' = Total(Holding'))
  BY Counters DEF Inductive
<1>9. reserved' = Total(Holding') /\ reserved' \in Nat
  BY <1>6, <1>8
<1>10. activeEnvironmentCount' + reserved' <= MaxWorkers
  <2>1. Total(Registered) + reserved <= MaxWorkers
    BY <1>8 DEF Inductive, CapacityRespected
  <2>2. Counts(o, p) + Holds(o, p) <= Size(o)
    BY <1>1 DEF Counts, Holds, HoldingPhase
  <2>3. /\ Counts(o, p) \in Nat /\ Holds(o, p) \in Nat
        /\ Counts(o, phase[o]) \in Nat /\ Holds(o, phase[o]) \in Nat
    BY <1>1 DEF Counts, Holds
  <2> QED
    BY <1>1, <1>6, <1>7, <1>8, <1>9, <2>1, <2>2, <2>3
<1>11. activeEnvironmentCount' \in Nat
  BY <1>7, <1>8
<1> QED
  BY <1>1, <1>8, <1>9, <1>10, <1>11 DEF CapacityRespected

(* The steps *)

\* The phases that close() lets an operation go to.
Allowed(o, p) ==
    /\ o \in Batch /\ p \in {"decoding", "creating", "cleanup"} => shutdown \in {"no", "creations"}
    /\ o \in Batch /\ p = "open" => shutdown \in {"no", "creations", "managed"}
    /\ o \in Managed /\ p \notin {"new", "gone"} => shutdown \in {"no", "creations", "managed"}
    /\ o \in Batch /\ p = "closing" => shutdown \in {"no", "creations", "managed", "batches"}

\* A step of one operation that keeps the accounts and goes where close() lets it.
LEMMA OperationStep ==
    ASSUME Inductive, NEW o \in Operation, NEW p, Goes(o, p), Allowed(o, p),
           o \in Batch => p \in BatchPhase, o \in Managed => p \in ManagedPhase,
           reserved' = (reserved + Holds(o, p)) - Holds(o, phase[o]),
           \/ Counts(o, p) + Holds(o, p) <= Counts(o, phase[o]) + Holds(o, phase[o])
           \/ activeEnvironmentCount + reserved + Size(o) <= MaxWorkers,
           NEW n \in Nat, workers' = [workers EXCEPT ![o] = n], n <= Size(o),
           UNCHANGED shutdown
    PROVE  Inductive'
<1>1. ReservationsAreHeld' /\ CapacityRespected' /\ reserved' \in 0..MaxWorkers
  BY AccountsFollow
<1>2. /\ phase \in [Operation -> BatchPhase \cup ManagedPhase] /\ workers \in [Operation -> Nat]
      /\ phase' = [phase EXCEPT ![o] = p]
      /\ Batch \subseteq Operation /\ Managed \subseteq Operation /\ Operation = Batch \cup Managed
  BY DEF Inductive, TypeOK, Goes, Operation
<1>3. \A q \in Operation : phase'[q] = IF q = o THEN p ELSE phase[q]
  BY <1>2
<1>4. \A q \in Operation : workers'[q] = IF q = o THEN n ELSE workers[q]
  BY <1>2
<1>5. TypeOK'
  <2>1. phase' \in [Operation -> BatchPhase \cup ManagedPhase]
    BY <1>2
  <2>2. workers' \in [Operation -> Nat]
    BY <1>2
  <2>3. \A q \in Operation : workers'[q] <= Size(q)
    BY <1>4 DEF Inductive, TypeOK
  <2> QED
    BY <1>1, <2>1, <2>2, <2>3 DEF Inductive, TypeOK, Size
<1>6. PhasesOfItsKind'
  BY <1>2, <1>3 DEF Inductive, PhasesOfItsKind
<1>7. ShutdownOrder'
  BY <1>2, <1>3 DEF Inductive, ShutdownOrder, Allowed, Counting, TypeOK
<1> QED
  BY <1>1, <1>5, <1>6, <1>7 DEF Inductive

\* A step that forks a worker or sees one exit.
LEMMA WorkerStep ==
    ASSUME Inductive, NEW o \in Operation,
           NEW n \in Nat, n <= Size(o), workers' = [workers EXCEPT ![o] = n],
           UNCHANGED <<phase, reserved, shutdown>>
    PROVE  Inductive'
<1>1. /\ phase \in [Operation -> BatchPhase \cup ManagedPhase] /\ reserved \in Nat
      /\ Size(o) \in Nat
  BY SizeType DEF Inductive, TypeOK
<1>2. Goes(o, phase[o])
  BY <1>1 DEF Goes
<1>3. /\ Allowed(o, phase[o])
      /\ (o \in Batch => phase[o] \in BatchPhase)
      /\ (o \in Managed => phase[o] \in ManagedPhase)
  BY DEF Inductive, TypeOK, ShutdownOrder, PhasesOfItsKind, Allowed, Counting
<1>4. /\ reserved' = (reserved + Holds(o, phase[o])) - Holds(o, phase[o])
      /\ Counts(o, phase[o]) + Holds(o, phase[o]) <= Counts(o, phase[o]) + Holds(o, phase[o])
  BY <1>1 DEF Holds, Counts
<1> QED
  BY <1>2, <1>3, <1>4, OperationStep

\* A step that leaves the workers alone.
LEMMA TurnStep ==
    ASSUME Inductive, NEW o \in Operation, NEW p, Goes(o, p), Allowed(o, p),
           o \in Batch => p \in BatchPhase, o \in Managed => p \in ManagedPhase,
           reserved' = (reserved + Holds(o, p)) - Holds(o, phase[o]),
           \/ Counts(o, p) + Holds(o, p) <= Counts(o, phase[o]) + Holds(o, phase[o])
           \/ activeEnvironmentCount + reserved + Size(o) <= MaxWorkers,
           UNCHANGED <<workers, shutdown>>
    PROVE  Inductive'
<1>1. workers[o] \in Nat /\ workers[o] <= Size(o) /\ workers' = [workers EXCEPT ![o] = workers[o]]
  BY DEF Inductive, TypeOK
<1> QED
  BY <1>1, OperationStep

LEMMA BatchKeeps ==
    ASSUME Inductive, NEW b \in Batch, BatchStep(b)
    PROVE  Inductive'
<1> DEFINE Went(p) == /\ Goes(b, p) /\ Allowed(b, p) /\ p \in BatchPhase
                      /\ reserved' = (reserved + Holds(b, p)) - Holds(b, phase[b])
                      /\ \/ Counts(b, p) + Holds(b, p) <= Counts(b, phase[b]) + Holds(b, phase[b])
                         \/ activeEnvironmentCount + reserved + Size(b) <= MaxWorkers
                      /\ UNCHANGED <<workers, shutdown>>
<1>1. /\ b \in Operation /\ b \notin Managed /\ Size(b) \in Nat /\ reserved \in Nat
      /\ workers[b] \in Nat /\ workers[b] <= Size(b)
      /\ workers \in [Operation -> Nat]
  BY SizeType, CapacityAssumption DEF Inductive, TypeOK
<1>2. ASSUME NEW p, Went(p)
      PROVE  Inductive'
  BY <1>1, <1>2, TurnStep
<1> USE DEF Holds, HoldingPhase, Counts, Allowed, BatchPhase
<1>3. CASE CreateBatch(b)
  <2>1. Went(IF shutdown = "no" THEN "decoding" ELSE "gone")
    BY <1>1, <1>3 DEF CreateBatch, Inductive
  <2> QED
    BY <1>2, <2>1
<1>4. CASE Admit(b)
  <2>1. shutdown \in {"no", "creations"}
    BY <1>4 DEF Admit, Inductive, ShutdownOrder, TypeOK
  <2>2. Went("creating") \/ Went("gone")
    BY <1>1, <1>4, <2>1 DEF Admit, Inductive
  <2> QED
    BY <1>2, <2>2
<1>5. CASE Created(b)
  <2>1. shutdown \in {"no", "creations"}
    BY <1>5 DEF Created, Inductive, ShutdownOrder, TypeOK
  <2>2. Went("open") \/ Went("cleanup")
    BY <1>1, <1>5, <2>1 DEF Created
  <2> QED
    BY <1>2, <2>2
<1>6. CASE CreationFails(b)
  <2>1. shutdown \in {"no", "creations"}
    BY <1>6 DEF CreationFails, Inductive, ShutdownOrder, TypeOK
  <2>2. Went("cleanup")
    BY <1>1, <1>6, <2>1 DEF CreationFails
  <2> QED
    BY <1>2, <2>2
<1>7. CASE CleanedUp(b) \/ BatchCloses(b)
  <2>1. Went("gone")
    BY <1>1, <1>7 DEF CleanedUp, BatchCloses
  <2> QED
    BY <1>2, <2>1
<1>8. CASE CloseBatch(b)
  <2>1. shutdown \in {"no", "creations", "managed"}
    BY <1>8 DEF CloseBatch, Inductive, ShutdownOrder, TypeOK
  <2>2. Went("closing")
    BY <1>1, <1>8, <2>1 DEF CloseBatch
  <2> QED
    BY <1>2, <2>2
<1>9. CASE Fork(b) \/ Respawn(b)
  <2>1. /\ workers' = [workers EXCEPT ![b] = workers[b] + 1] /\ workers[b] + 1 <= Size(b)
        /\ phase[b] \in {"creating", "open"} /\ UNCHANGED <<phase, reserved, shutdown>>
    BY <1>1, <1>9 DEF Fork, Respawn
  <2> DEFINE n == workers[b] + 1
  <2>2. n \in Nat
    BY <1>1
  <2> HIDE DEF n, Holds, HoldingPhase, Counts, Allowed, BatchPhase
  <2>3. workers' = [workers EXCEPT ![b] = n] /\ n <= Size(b)
    BY <2>1 DEF n
  <2> QED
    BY <1>1, <2>1, <2>2, <2>3, WorkerStep
<1>10. CASE WorkerDies(b)
  <2>1. /\ workers' = [workers EXCEPT ![b] = workers[b] - 1]
        /\ workers[b] - 1 \in Nat /\ workers[b] - 1 <= Size(b)
        /\ phase[b] = "open" /\ UNCHANGED <<phase, reserved, shutdown>>
    BY <1>1, <1>10 DEF WorkerDies
  <2> DEFINE n == workers[b] - 1
  <2> HIDE DEF n, Holds, HoldingPhase, Counts, Allowed, BatchPhase
  <2>2. workers' = [workers EXCEPT ![b] = n] /\ n \in Nat /\ n <= Size(b)
    BY <2>1 DEF n
  <2> QED
    BY <1>1, <2>1, <2>2, WorkerStep
<1> QED
  BY <1>3, <1>4, <1>5, <1>6, <1>7, <1>8, <1>9, <1>10 DEF BatchStep

LEMMA ManagedKeeps ==
    ASSUME Inductive, NEW m \in Managed, ManagedStep(m)
    PROVE  Inductive'
<1> DEFINE Went(p) == /\ Goes(m, p) /\ Allowed(m, p) /\ p \in ManagedPhase
                      /\ reserved' = (reserved + Holds(m, p)) - Holds(m, phase[m])
                      /\ \/ Counts(m, p) + Holds(m, p) <= Counts(m, phase[m]) + Holds(m, phase[m])
                         \/ activeEnvironmentCount + reserved + Size(m) <= MaxWorkers
<1>1. /\ m \in Operation /\ m \notin Batch /\ Size(m) = 1 /\ reserved \in Nat
      /\ workers[m] \in Nat /\ workers[m] <= Size(m)
      /\ workers \in [Operation -> Nat]
      /\ phase[m] \notin {"new", "gone"} => shutdown \in {"no", "creations", "managed"}
  BY SizeType, CapacityAssumption DEF Inductive, TypeOK, ShutdownOrder
<1> USE DEF Holds, HoldingPhase, Counts, Allowed, ManagedPhase
<1>2. CASE RunManagedExperiment(m)
  <2>1. Went(IF shutdown = "no" /\ activeEnvironmentCount + reserved + 1 <= MaxWorkers
             THEN "validating" ELSE "gone")
    BY <1>1, <1>2 DEF RunManagedExperiment
  <2>2. UNCHANGED <<workers, shutdown>>
    BY <1>1, <1>2 DEF RunManagedExperiment, Inductive
  <2> QED
    BY <1>1, <2>1, <2>2, TurnStep
<1>3. CASE ForkManaged(m)
  <2>1. Went("running")
    BY <1>1, <1>3 DEF ForkManaged
  <2>2. workers' = [workers EXCEPT ![m] = 1] /\ 1 <= Size(m) /\ UNCHANGED shutdown
    BY <1>1, <1>3 DEF ForkManaged
  <2>3. 1 \in Nat
    OBVIOUS
  <2> HIDE DEF Holds, HoldingPhase, Counts, Allowed, ManagedPhase
  <2> QED
    BY <1>1, <2>1, <2>2, <2>3, OperationStep
<1>4. CASE ManagedEnds(m)
  <2>1. Went("releasing") /\ UNCHANGED <<workers, shutdown>>
    BY <1>1, <1>4 DEF ManagedEnds
  <2> QED
    BY <1>1, <2>1, TurnStep
<1>5. CASE ManagedReleased(m)
  <2>1. Went("gone") /\ UNCHANGED <<workers, shutdown>>
    BY <1>1, <1>5 DEF ManagedReleased
  <2> QED
    BY <1>1, <2>1, TurnStep
<1> QED
  BY <1>2, <1>3, <1>4, <1>5 DEF ManagedStep

LEMMA ExitKeeps ==
    ASSUME Inductive, NEW o \in Operation, Exit(o)
    PROVE  Inductive'
<1>1. workers[o] \in Nat /\ workers[o] <= Size(o) /\ Size(o) \in Nat /\ workers[o] > 0
  BY SizeType DEF Inductive, TypeOK, Exit
<1>2. workers[o] - 1 \in Nat /\ workers[o] - 1 <= Size(o)
  BY <1>1
<1> QED
  BY <1>2, WorkerStep DEF Exit

\* close() of the supervisor: the accounts stay as they are, since a batch that
\* is closing is still in the batches map.
LEMMA CloseKeeps ==
    ASSUME Inductive, CloseStep
    PROVE  Inductive'
<1>1. UNCHANGED <<reserved, workers>>
  BY DEF CloseStep, BeginClose, CreationsSettle, ManagedSettle, BatchesSettle, Down
<1>2. phase' \in [Operation -> BatchPhase \cup ManagedPhase] /\ PhasesOfItsKind'
      /\ \A o \in Operation :
            phase'[o] = phase[o] \/ (phase[o] = "open" /\ phase'[o] = "closing")
  <2>1. CASE ManagedSettle
    <3>1. \A o \in Operation : phase'[o] = IF phase[o] = "open" THEN "closing" ELSE phase[o]
      BY <2>1 DEF ManagedSettle
    <3>2. \A m \in Managed : phase[m] # "open"
      BY DEF Inductive, PhasesOfItsKind, ManagedPhase
    <3> QED
      BY <2>1, <3>1, <3>2 DEF ManagedSettle, Inductive, TypeOK, PhasesOfItsKind, BatchPhase, Operation
  <2>2. CASE BeginClose \/ CreationsSettle \/ BatchesSettle \/ Down
    BY <2>2 DEF BeginClose, CreationsSettle, BatchesSettle, Down, Inductive, TypeOK, PhasesOfItsKind
  <2> QED
    BY <2>1, <2>2 DEF CloseStep
<1>3. Holding' = Holding
  BY <1>2 DEF Holding
<1>4. Registered' = Registered
  BY <1>2 DEF Registered, Counting, Operation
<1>5. ReservationsAreHeld' /\ CapacityRespected'
  <2>1. reserved = Total(Holding) /\ activeEnvironmentCount + reserved <= MaxWorkers
    BY Counters DEF Inductive, CapacityRespected
  <2>2. activeEnvironmentCount' = activeEnvironmentCount /\ (ReservationsAreHeld' <=> reserved' = Total(Holding'))
    BY <1>4, Counters
  <2> QED
    BY <1>1, <1>3, <2>1, <2>2 DEF CapacityRespected
<1>6. shutdown' \in {"creations", "managed", "batches", "workers", "down"}
  BY DEF CloseStep, BeginClose, CreationsSettle, ManagedSettle, BatchesSettle, Down
<1>7. TypeOK'
  BY <1>1, <1>2, <1>6 DEF Inductive, TypeOK, Size
<1>8. ShutdownOrder'
  <2> USE DEF Inductive, ShutdownOrder, Counting
  <2>0. \A b \in Batch : b \in Operation
    BY DEF Operation
  <2>1. CASE BeginClose
    BY <2>1 DEF BeginClose
  <2>2. CASE CreationsSettle
    BY <2>2 DEF CreationsSettle
  <2>3. CASE ManagedSettle
    <3>1. \A o \in Operation : phase'[o] = IF phase[o] = "open" THEN "closing" ELSE phase[o]
      BY <2>3 DEF ManagedSettle
    <3>2. \A m \in Managed : m \in Operation
      BY DEF Operation
    <3> QED
      BY <2>0, <2>3, <3>1, <3>2 DEF ManagedSettle
  <2>4. CASE BatchesSettle \/ Down
    BY <2>4 DEF BatchesSettle, Down
  <2> QED
    BY <2>1, <2>2, <2>3, <2>4 DEF CloseStep
<1> QED
  BY <1>2, <1>5, <1>7, <1>8 DEF Inductive

LEMMA InitInductive == Init => Inductive
<1> SUFFICES ASSUME Init PROVE Inductive
  OBVIOUS
<1>1. \A o \in Operation : phase[o] = "new" /\ workers[o] = 0
  BY DEF Init
<1>2. TypeOK
  <2>1. \A o \in Operation : 0 <= Size(o)
    BY SizeType
  <2> QED
    BY <1>1, <2>1, CapacityAssumption DEF Init, TypeOK, BatchPhase
<1>3. Holding = {} /\ Registered = {}
  BY <1>1 DEF Holding, Registered, Counting, Operation
<1>4. Total({}) = 0
  <2>1. Total({}) = Sum(SizeOf, {})
    BY SizesSum
  <2> QED
    BY <2>1, FS_EmptySet, SumSteps
<1>5. ReservationsAreHeld /\ CapacityRespected
  <2>1. reserved = 0 /\ activeEnvironmentCount = 0
    BY <1>3, <1>4, Counters DEF Init
  <2> QED
    BY <1>3, <1>4, <2>1, Counters, CapacityAssumption DEF CapacityRespected
<1>6. PhasesOfItsKind /\ ShutdownOrder
  BY <1>1 DEF Init, PhasesOfItsKind, ShutdownOrder, BatchPhase, ManagedPhase, Operation
<1> QED
  BY <1>2, <1>5, <1>6 DEF Inductive

LEMMA UnchangedKeeps ==
    ASSUME Inductive, UNCHANGED vars
    PROVE  Inductive'
<1>1. UNCHANGED <<phase, reserved, workers, shutdown>>
  BY DEF vars
<1>2. Holding' = Holding /\ Registered' = Registered
  BY <1>1 DEF Holding, Registered, Counting
<1>3. ReservationsAreHeld' /\ CapacityRespected'
  <2>1. reserved = Total(Holding) /\ activeEnvironmentCount + reserved <= MaxWorkers
    BY Counters DEF Inductive, CapacityRespected
  <2>2. activeEnvironmentCount' = activeEnvironmentCount /\ (ReservationsAreHeld' <=> reserved' = Total(Holding'))
    BY <1>2, Counters
  <2> QED
    BY <1>1, <1>2, <2>1, <2>2 DEF CapacityRespected
<1>4. TypeOK' /\ PhasesOfItsKind' /\ ShutdownOrder'
  BY <1>1 DEF Inductive, TypeOK, PhasesOfItsKind, ShutdownOrder, Counting, Size
<1> QED
  BY <1>3, <1>4 DEF Inductive

LEMMA InductiveStep == Inductive /\ [Next]_vars => Inductive'
<1> SUFFICES ASSUME Inductive, [Next]_vars PROVE Inductive'
  OBVIOUS
<1>1. CASE \E b \in Batch : BatchStep(b)
  BY <1>1, BatchKeeps
<1>2. CASE \E m \in Managed : ManagedStep(m)
  BY <1>2, ManagedKeeps
<1>3. CASE \E o \in Operation : Exit(o)
  BY <1>3, ExitKeeps
<1>4. CASE CloseStep
  BY <1>4, CloseKeeps
<1>5. CASE Terminated \/ UNCHANGED vars
  BY <1>5, UnchangedKeeps DEF Terminated
<1> QED
  BY <1>1, <1>2, <1>3, <1>4, <1>5 DEF Next

LEMMA CapacityInductive == Spec => []Inductive
  BY InitInductive, InductiveStep, PTL DEF Spec

(* The theorems *)

\* The accounts and the phases have their types; reservedWorkers stays between
\* 0 and maxWorkers (HeadlessSupervisor.js:448-454, 624, 842-845, 947).
THEOREM CapacityTypeCorrect == Spec => []TypeOK
<1>1. Inductive => TypeOK
  BY DEF Inductive
<1> QED
  BY <1>1, CapacityInductive, PTL

\* reservedWorkers is the sum of the reservations held, whatever creations and
\* managed runs fail, are refused or meet a close() (HeadlessSupervisor.js:454,
\* 624, 845, 947): none leaks and none is given back twice.
THEOREM NoReservationLeaks == Spec => []ReservationsAreHeld
<1>1. Inductive => ReservationsAreHeld
  BY DEF Inductive
<1> QED
  BY <1>1, CapacityInductive, PTL

\* The batches and the reservations never claim more than maxWorkers together,
\* in every interleaving of creations, closes and managed runs
\* (HeadlessSupervisor.js:448, 842).
THEOREM CapacityIsRespected == Spec => []CapacityRespected
<1>1. Inductive => CapacityRespected
  BY DEF Inductive
<1> QED
  BY <1>1, CapacityInductive, PTL

\* When close() has returned no operation is under way and none can begin
\* (HeadlessSupervisor.js:963-979).
THEOREM CloseIsFinal == Spec => []NothingRunsAfterClose
<1>1. Inductive => NothingRunsAfterClose
  <2> SUFFICES ASSUME Inductive, shutdown = "down", NEW o \in Operation
               PROVE  phase[o] \in {"new", "gone"}
    BY DEF NothingRunsAfterClose
  <2> QED
    BY DEF Inductive, ShutdownOrder, PhasesOfItsKind, BatchPhase, Counting, Operation
<1> QED
  BY <1>1, CapacityInductive, PTL
=============================================================================
