SPECIFICATION Spec
CONSTANTS
    Words <- MCWords
    Numerals <- MCNumerals
    Files <- MCFiles
    EditedFiles <- MCEditedFiles
    Extras <- MCExtras
INVARIANTS
    FilesMeanWhatTheySay
    CutFilesAddNothing
    ParserInv
    EarlierServersAreKept
CHECK_DEADLOCK FALSE
