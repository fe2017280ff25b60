SPECIFICATION Spec
CONSTANTS
  Job = {j1, j2}
  NCases = 2
  FailFast = {j1}
  MayRefuse = TRUE
  MaxStarts = 2
  MaxSubmissions = 2
  MaxEdits = 0
  MayRemove = FALSE
INVARIANTS TypeOK QueuedHasBundles OpenResultsAreLookedAfter
PROPERTIES ResultsLiveAsPromised
