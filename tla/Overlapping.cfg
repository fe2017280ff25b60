SPECIFICATION Spec
CONSTANTS
  Env = {e1}
  Call = {c1, c2}
  Closer = closer
  RestartBudget = 1
  MaxEpisodes = 2
  Overlapping = TRUE
  Faults = {"create", "crash", "uncertain", "command", "plugin", "breach", "health", "watchdog", "spawn", "publish", "reject"}
SYMMETRY CallSymmetry
INVARIANTS TypeOK SupervisorInv SessionAgrees FinalizeResultIsCurrent OneRestartPerFailure
PROPERTIES StepsItsEpisode
