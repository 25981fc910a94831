SPECIFICATION Spec
CONSTANTS
    p1 = p1
    p2 = p2
    e1 = e1
    e2 = e2
    e3 = e3
    b1 = b1
    b2 = b2
    Free = Free
    Proc = {p1}
    EventId = {e1, e2}
    Body = {b1}
    Replays <- MCReplays
    RenameMayFail = FALSE
PROPERTIES
    FactsKeptUntilDurable
