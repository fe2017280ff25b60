SPECIFICATION FairSpec
CONSTANTS
    None = None
    Timeout = 2
    Wait = 3
    Retention = 3
    MaxBrowsers = 1
    MaxCommands = 1
    MaxRegistrations = 2
    MaxSubmissions = 2
    MaxTimeouts = 1
    MaxRestarts = 1
    FaultyCommands = 1
INVARIANT TypeOK
INVARIANT ReceiptsAreTrue
INVARIANT StatusIsNotOlder
PROPERTY UnresolvedAreKept
PROPERTY CommandsSettle
\* The ages stop growing and every request is served: the system may rest.
CHECK_DEADLOCK FALSE
