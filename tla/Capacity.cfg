SPECIFICATION FairSpec
CONSTANTS
  b1 = b1
  b2 = b2
  b3 = b3
  m1 = m1
  m2 = m2
  Batch <- MCBatch
  Managed <- MCManaged
  Environments <- MCEnvironments
  MaxWorkers = 3
INVARIANTS TypeOK ReservationsAreHeld CapacityRespected NothingRunsAfterClose
PROPERTIES CloseReturns
