SPECIFICATION FairSpec
CONSTANTS
  Job = {j1, j2}
  NCases = 1
  FailFast = {j1}
  MayRefuse = FALSE
  MaxStarts = 1
  MaxSubmissions = 2
  MaxEdits = 1
  MayRemove = TRUE
PROPERTIES QueueIsServed CloseReturns
