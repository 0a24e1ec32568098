SPECIFICATION FairSpec
CONSTANTS
    a = a
    b = b
    pa = pa
    x1 = x1
    x2 = x2
    x3 = x3
    Inf = Inf
    None = None
    Actors = {a, b}
    Targets = {a}
    Locatives = {pa, x1, x2}
    Primal <- MCPrimal
    MaxNow = 1
    ExpiresArgs = {1, Inf}
    SendsArgs = {1}
    SendersArgs = {None, {a}}
INVARIANTS
    Attenuation
    AcceptedWhileLive
PROPERTY
    CallsReturn
CHECK_DEADLOCK FALSE
