SPECIFICATION Spec
CONSTANTS
    m1 = m1
    m2 = m2
    k1 = k1
    k2 = k2
    localhost = localhost
    otherhost = otherhost
    None = None
    Messages = {m1, m2}
    PlaintextLen <- MCFitting
    MAX_RECORD_SIZE = 40
    Ephemerals = {e1, e2, e3}
    Identities <- MCAllIdentities
    DnsNames = {localhost}
    MaxSent = 2
    MaxFaults = 1
INVARIANTS
    ClientAuthenticatesServer
    PlaintextIsPrefix
    CleanWireNeverFails
    SessionInv
PROPERTIES
    SessionIsFixed
    ImplementsSecureChannel
CHECK_DEADLOCK FALSE
