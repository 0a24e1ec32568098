SPECIFICATION FairSpec
CONSTANTS
    A = A
    B = B
    m1 = m1
    m2 = m2
    m3 = m3
    None = None
    Islands = {A, B}
    Messages = {m1, m3}
    From <- MCFrom
    Tries = 1
    MaxThreads = 4
    MaxConns = 2
    MaxRefusals = 1
    MaxFaults = 1
INVARIANTS
    TypeOK
    AtMostOnce
PROPERTY
    ExitTogether
CHECK_DEADLOCK FALSE
