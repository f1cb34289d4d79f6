SPECIFICATION FairSpec
CONSTANTS
    Base = 2
    HeaderLen = 2
    MAX_RECORD_SIZE = 2
    Payloads <- MCPayloads
    MaxFramed = 4
INVARIANTS
    BufferInv
    OnlyOversizeIsRefused
    NothingIsLeftBehind
PROPERTY
    FramedIsPopped
CHECK_DEADLOCK FALSE
