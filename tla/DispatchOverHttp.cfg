SPECIFICATION Spec
CONSTANTS
    n1 = n1
    n2 = n2
    j1 = j1
    j2 = j2
    None = None
    Nodes = {n1, n2}
    Local = n1
    Jobs <- OneJob
    Chunks <- OneChunk
    JobOf <- AllOfJ1
    Capable <- AnyNode
    MaxRetries = 2
    Controls = {"cancel", "stopChunk", "assignTo"}
    HttpControls = TRUE
    Faults = {"timeout", "stopNode", "crash", "quickRestart"}
    MaxEdits = 0
    MaxBacklog = 1
    MaxMishaps = 1
INVARIANTS
    NoPhantomCompletion
