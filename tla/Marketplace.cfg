SPECIFICATION FairSpec
CONSTANTS
    j1 = j1
    j2 = j2
    bundle = bundle
    pack = pack
    item = item
    Job = {j1, j2}
    Remover = {"x1"}
    Release = {bundle, pack, item}
    Root <- MCRoot
    Members <- MCMembers
    Removable = {item}
    Direct = Direct
    None = None
    MayFail = {"write", "work"}
    MaxFailures = 1
    MaxRestarts = 2
    MaxReplans = 1
INVARIANT TypeOK
INVARIANT InstalledIsBacked
INVARIANT LedgersExplained
INVARIANT OutcomeIsTrue
PROPERTY ConfirmedJobsSettle
\* The jobs are finitely many, and so are the removals: the system comes to rest.
CHECK_DEADLOCK FALSE
