SPECIFICATION Spec
CONSTANTS
    p = p
    t = t
    Conns = {p}
    TLSConns = {}
    Populations <- RudeClients
    MaxId = 2
    SendCapacity = 2
INVARIANT
    ClosingReplyIsLast
CHECK_DEADLOCK FALSE
