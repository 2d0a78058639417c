SPECIFICATION AiChatSpec
CONSTANTS
    Project = {p1}
    MaxSends = 1
    MaxGeneration = 2
    MaxLoads = 1
    NoChat = NoChat
INVARIANT NoOpenBubbleLeft
CHECK_DEADLOCK FALSE
