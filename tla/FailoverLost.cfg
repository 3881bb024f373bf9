SPECIFICATION FairSpec
CONSTANTS
    None = None
    Torn = Torn
    Empty = Empty
    Nodes <- TwoNodes
    Tag <- NoneLeads
    Chunks = {1}
    Multicast = FALSE
    Mortal <- OnlyTwo
    Faults = {"crash"}
    DeadAfter = 1
    MaxMishaps = 1
    MaxSnapshots = 1
PROPERTIES
    JobGetsDone
