SPECIFICATION Spec
CONSTANTS
    j1 = j1
    j2 = j2
    bundle = bundle
    pack = pack
    item = item
    Job = {j1, j2}
    Remover = {"x1", "x2"}
    Release = {bundle, pack, item}
    Root <- MCRoot
    Members <- MCMembers
    Removable = {item}
    Direct = Direct
    None = None
    MayFail = {}
    MaxFailures = 0
    MaxRestarts = 0
    MaxReplans = 0
INVARIANT StartupRollsForward
\* The jobs are finitely many, and so are the removals: the system comes to rest.
CHECK_DEADLOCK FALSE
