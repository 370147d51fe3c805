CONSTANTS
    m_node_size = 2
    MaxNodes = 3
    MaxCalls = 4
    Group = 3
    Width = 8
    LittleMachine = TRUE
    Strings <- SomeStrings
    Numbers <- SomeNumbers
    Fresh <- SomeFresh
    Peer <- FromPeer
    MaxLen = 3
SPECIFICATION StreamSpec
CHECK_DEADLOCK FALSE
INVARIANTS CursorAgrees ReadBack TransferExact
PROPERTY IsBuffer
