SPECIFICATION Spec
CHECK_DEADLOCK FALSE
CONSTANTS
    None = None
    Nodes = {"n1", "n2"}
    Jobs <- OneJob
    Modes = {"restart"}
    Faults = {"crash", "handover", "lost", "late", "share", "ack", "expire", "delete"}
    MaxEdits = 2
    MaxMishaps = 2
INVARIANTS
    TypeOK
    AppliedOnce
    AnswersAreTrue
PROPERTIES
    CommandsInOrder
    EditorsAreAnswered
    CommandsSettle
