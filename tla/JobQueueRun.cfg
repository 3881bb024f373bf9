SPECIFICATION Spec
CHECK_DEADLOCK FALSE
CONSTANTS
    None = None
    Main = "main"
    Names <- OneName
    Https <- OneHttpThread
    MaxDedup = 2
    MaxVersion = 2
    Priorities = {1, 2}
    Grids = {1}
    Times = {1}
    Routes = {"form", "file", "resubmit"}
    Faults = {"database", "rename", "delete", "archive", "cleanup"}
    MaxSubmits = 3
    MaxEvents = 2
INVARIANTS
    TypeOK
    ChunksMatchTheRow
    QueuedJobsCloseDone
PROPERTIES
    OrderChangesOnlyByHand
    MoveIsExact
