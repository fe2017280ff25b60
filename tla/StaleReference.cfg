SPECIFICATION Spec
CONSTANTS
    c1 = c1
    None = None
    Size = 8
    Generations = 3
    Sensor <- MCSensor
    RawLen <- MCRawLen
    ObsLen <- MCObsLen
    Call <- MCCall
    Caller <- MCCaller
    Content <- MCContent
    MaxQueueFrames = 1
    MaxCalls = 2
    MaxCaptures = 2
    MaxRestarts = 0
INVARIANT FreshReferencesDecode
\* Calls and captures are bounded: the system comes to rest.
CHECK_DEADLOCK FALSE
