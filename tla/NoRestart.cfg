SPECIFICATION Spec
CONSTANTS
  Env = {e1, e2}
  Call = {c1}
  Closer = closer
  RestartBudget = 0
  MaxEpisodes = 1
  Overlapping = TRUE
  Faults = {"create", "crash", "command", "health"}
SYMMETRY CallSymmetry
INVARIANTS EndedBatchHasNoWorker
