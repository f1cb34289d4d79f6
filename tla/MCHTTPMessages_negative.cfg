SPECIFICATION Spec
CONSTANTS
    Chars <- MCChars
    Unescaped <- MCUnescaped
    DefaultRoot <- MCDefaultRoot
    IndexPath <- MCIndexPath
    Files <- MCFiles
    Conversations <- NegativeConversations
    FileLen = 3
PROPERTY
    RequestsConsumeBytes
CHECK_DEADLOCK FALSE
