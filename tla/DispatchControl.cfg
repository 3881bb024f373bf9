SPECIFICATION Spec
CONSTANTS
    n1 = n1
    n2 = n2
    j1 = j1
    j2 = j2
    None = None
    Nodes = {n1}
    Local = none_local
    Jobs <- OneJob
    Chunks <- OneChunk
    JobOf <- AllOfJ1
    Capable <- AnyNode
    MaxRetries = 1
    Controls = {"pause", "resume", "cancel", "archive", "requeue", "retry", "stopChunk", "requeueChunk", "continue", "restart", "startover"}
    HttpControls = FALSE
    Faults = {"renderFails"}
    MaxEdits = 1
    MaxBacklog = 1
    MaxMishaps = 0
INVARIANTS
    TypeOK
    EditFence
    FinishedJobsAreSettled
    BlacklistHonoured
