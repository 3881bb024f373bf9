SPECIFICATION FairSpec
CONSTANTS
    l = l
    w = w
    None = None
    Nodes = {l, w}
    Leader = l
    Frames = {1}
    Faults = {"lost", "lostAnswer", "abortLost"}
    MaxEdits = 1
    MaxMishaps = 1
INVARIANTS
    TypeOK
    ShownFramesAreCurrent
PROPERTIES
    FramesArrive
    OutdatedRendersStop
