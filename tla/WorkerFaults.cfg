SPECIFICATION FairSpec
CONSTANTS
    None = None
    Dispatches <- Three
    JobOf <- OneJob
    DirOf <- OwnDirs
    Agents <- ThreeAgents
    Staging = TRUE
    Commands = {}
    Faults = {"renderFails", "startFails", "crash", "spawnFails", "undeliverable", "impatient"}
    MaxMishaps = 1
INVARIANTS
    TypeOK
    Accounted
    CompletedMeansDelivered
PROPERTIES
    EveryDispatchAnswered
