SPECIFICATION FairSpec
CONSTANTS
    p = p
    t = t
    Conns = {p, t}
    TLSConns = {t}
    Populations <- OnePromptClient
    MaxId = 2
    SendCapacity = 1
PROPERTIES
    RequestsAreAnswered
    DepartingClientIsClosed
    StopEndsTheLoop
    ImplementsRequestService
CHECK_DEADLOCK FALSE
