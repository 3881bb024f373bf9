SPECIFICATION Spec
CONSTANTS
    None = None
    Dispatches <- Two
    JobOf <- TwoJobs
    DirOf <- OwnDirs
    Agents <- TwoAgents
    Staging = TRUE
    Commands = {"cancel", "abandon", "stop", "delete"}
    Faults = {"pipeBreaks", "crash", "impatient", "undeliverable", "slowStart"}
    MaxMishaps = 1
INVARIANTS
    Accounted
    OneRenderAtATime
