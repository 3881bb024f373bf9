SPECIFICATION FairSpec
CONSTANTS
    n1 = n1
    n2 = n2
    j1 = j1
    j2 = j2
    None = None
    Nodes = {n1, n2}
    Local = none_local
    Jobs <- TwoJobs
    Chunks <- TwoChunks
    JobOf <- JobEach
    Capable <- OnlyN2ForJ2
    MaxRetries = 1
    Controls = {}
    HttpControls = FALSE
    Faults = {"renderFails", "lostAck"}
    MaxEdits = 0
    MaxBacklog = 2
    MaxMishaps = 1
INVARIANTS
    OneChunkAtATime
PROPERTIES
    KeepsTheContract
    JobsSettle
