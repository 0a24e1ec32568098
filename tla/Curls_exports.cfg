SPECIFICATION FairSpec
CONSTANTS
    a = a
    b = b
    cx = cx
    cz = cz
    Inf = Inf
    None = None
    Actors = {a, b}
    Locatives = {cx, cz}
    Expires <- MCExpires
    Lifespans = {}
    Interval = 1
    Late = 2
INVARIANTS
    TypeOK
    ResolvesWhileLive
    NoneForgotten
PROPERTY
    ExportsDrain
CHECK_DEADLOCK FALSE
