SPECIFICATION AstraSpec
CONSTANTS
    NULL = NULL
    own = own
    other = other
    l1 = l1
    l2 = l2
    f1 = f1
    f2 = f2
    k1 = k1
    k2 = k2
    Connections = {own, other}
    Own = own
    Sizes = {0, 1}
    ExtraDataSize = 0
    MaxFrames = 2
    Listeners = {l1, l2}
    FrameVars = {f1, f2}
    Refs = {k1, k2}
    MaxHandles = 1
    MaxAdded = 1
    MaxListed = 2
SYMMETRY MCSymmetry
INVARIANTS HeardOnce StreamFollowsConnections 
CHECK_DEADLOCK FALSE
