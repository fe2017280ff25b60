SPECIFICATION FairSpec
CONSTANTS
  Env = {e1}
  Call = {c1}
  Closer = closer
  RestartBudget = 1
  MaxEpisodes = 2
  Overlapping = TRUE
  Faults = {"create", "crash", "uncertain", "command", "plugin", "breach", "health", "watchdog", "spawn", "publish", "reject"}
PROPERTIES EveryCallReturns CreationEnds ClosingEnds
