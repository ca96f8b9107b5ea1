SPECIFICATION Spec
CONSTANTS
    NULL = NULL
    Texts <- MCTexts
    Junk <- MCJunk
    Primitives <- MCPrimitives
    FirstRoom = 1
INVARIANTS TypeOK ParseExact ReadsFilled ChannelsOfFile
PROPERTIES StartupEnds
CHECK_DEADLOCK FALSE
