SPECIFICATION Spec
CONSTANTS
    Configs <- MCConfigs
    Ports = {1, 2, 3, 4}
    ForeignPorts = {1}
    MayTimeOut = TRUE
    HeaderLength = 2
    BodyLength = 1
    Flight = 2
    Overhead = 1
    RecvSize = 2
INVARIANTS
    HeldPortsAreServed
    DemoInv
    OnlyAFailedListenerIsLeft
PROPERTIES
    WholeUnlessServerQuits
    StopEndsTheThread
    DemoEnds
CHECK_DEADLOCK FALSE
