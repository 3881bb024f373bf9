SPECIFICATION ElectionSpec
CONSTANTS
    None = None
    Torn = Torn
    Empty = Empty
    Nodes <- TwoNodes
    Tag <- SecondLeads
    Chunks = {1}
    Multicast = TRUE
    Mortal <- TwoNodes
    Faults = {"crash", "leave", "partition", "share", "restart", "unnoticed"}
    DeadAfter = 1
    MaxMishaps = 1
    MaxSnapshots = 1
INVARIANTS
    TypeOK
    DatabaseFollowsLeadership
    CompletionsAreReal
PROPERTIES
    LeaderAgreed
