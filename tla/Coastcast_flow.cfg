SPECIFICATION FairSpec
CONSTANTS
    d1 = d1
    d2 = d2
    I = I
    J = J
    None = None
    Decoders = {d1, d2}
    Islands = {I, J}
    Starts <- MCOne
    MaxFrames = 2
    MaxQuits = 1
INVARIANTS
    TypeOK
    FramesContinuous
    OwnSubscription
PROPERTIES
    Cancelled
    Granted
    MovesComplete
    Found
CHECK_DEADLOCK FALSE
