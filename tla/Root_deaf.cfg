SPECIFICATION Spec
CONSTANTS
    s1 = s1
    s2 = s2
    s3 = s3
    m1 = m1
    m2 = m2
    m3 = m3
    m4 = m4
    Public = Public
    Thunk = Thunk
    Spawns = {s1, s2, s3}
    Faulty = {}
    Messages = {m1, m2, m3, m4}
    To <- MCTo
    Remote = {s2, s3, m1, m2, m4}
INVARIANT
    IncomingDelivered
CHECK_DEADLOCK FALSE
