SPECIFICATION Spec
CONSTANTS
    A = A
    B = B
    m1 = m1
    m2 = m2
    m3 = m3
    None = None
    Islands = {A, B}
    Messages = {m1, m3}
    From <- MCFrom
    Tries = 2
    MaxThreads = 4
    MaxConns = 2
    MaxRefusals = 0
    MaxFaults = 1
INVARIANT
    EntriesActive
CHECK_DEADLOCK FALSE
