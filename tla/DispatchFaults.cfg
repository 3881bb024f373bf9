SPECIFICATION Spec
CONSTANTS
    n1 = n1
    n2 = n2
    j1 = j1
    j2 = j2
    None = None
    Nodes = {n1, n2}
    Local = none_local
    Jobs <- OneJob
    Chunks <- OneChunk
    JobOf <- AllOfJ1
    Capable <- AnyNode
    MaxRetries = 2
    Controls = {}
    HttpControls = FALSE
    Faults = {"timeout", "lostAck", "slowBeat", "crash", "partition", "undispatchable", "agent"}
    MaxEdits = 0
    MaxBacklog = 1
    MaxMishaps = 2
INVARIANTS
    EachNodeFailsAChunkOnce
    AssignmentBacked
PROPERTIES
    KeepsTheLooseContract
SYMMETRY NodeSymmetry
