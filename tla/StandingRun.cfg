SPECIFICATION FairSpec
CONSTANTS
    a = a
    b = b
    Nodes = {a, b}
    Threshold = 2
    Faults = {"lost", "lostAnswer"}
    Failing = {b}
    MaxFailures = 2
    MaxChanges = 1
    MaxMishaps = 1
INVARIANTS
    TypeOK
PROPERTIES
    SuspensionIsEarned
    MirrorsSettle
    FailuresAreForgiven
