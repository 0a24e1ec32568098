SPECIFICATION FairSpec
CONSTANTS
    A = A
    B = B
    m1 = m1
    m2 = m2
    m3 = m3
    None = None
    Islands = {A, B}
    Messages = {m1, m2, m3}
    From <- MCFrom
    Tries = 2
    MaxThreads = 5
    MaxConns = 3
    MaxRefusals = 2
    MaxFaults = 0
INVARIANT
    ActiveUntilFailure
PROPERTY
    Delivered
CHECK_DEADLOCK FALSE
