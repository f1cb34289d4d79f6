SPECIFICATION Spec
CONSTANTS
    Chars <- MCChars
    Unescaped <- MCUnescaped
    DefaultRoot <- MCDefaultRoot
    IndexPath <- MCIndexPath
    Files <- MCFiles
    Conversations <- MCConversations
    FileLen = 3
INVARIANTS
    RepliesAnswerRequests
    ConversationInv
    ServedFilesAreInside
    PlainPathsNameFiles
    SpellingDoesNotMatterToFiles
PROPERTY
    RequestsConsumeBytes
CHECK_DEADLOCK FALSE
