SPECIFICATION Spec
CONSTANTS
  Env = {e1}
  Call = {c1}
  Closer = closer
  RestartBudget = 2
  MaxEpisodes = 3
  Overlapping = FALSE
  Faults = {"crash", "uncertain", "command", "breach", "health", "watchdog", "spawn", "publish", "reject"}
SYMMETRY CallSymmetry
INVARIANTS RequiresResetIsReported WatchdogGuardsAnEpisode ClosedBatchHasNoWorker NothingSurvivesShutdown
