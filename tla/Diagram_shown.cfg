SPECIFICATION FairSpec
CONSTANTS
    a1 = a1
    a2 = a2
    i1 = i1
    None = None
    Root = Root
    Promissary = Promissary
    Actors = {a1, a2}
    Islands = {i1}
    Sends <- MCRace
    MaxPages = 2
    MaxLost = 1
INVARIANTS
    TypeOK
    BlankByRace
    DrawnOnce
PROPERTIES
    SendsShown
CHECK_DEADLOCK FALSE
