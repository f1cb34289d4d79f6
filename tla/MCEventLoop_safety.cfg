SPECIFICATION Spec
CONSTANTS
    p = p
    t = t
    Conns = {p, t}
    TLSConns = {t}
    Populations <- AnyClients
    MaxId = 3
    SendCapacity = 2
INVARIANTS
    WriteInterestMatchesOutput
    ClosingHasOutput
    LoopInv
    AnsweredInOrder
PROPERTIES
    BufferedOutputIsNotDropped
CHECK_DEADLOCK FALSE
