CONSTANTS
    WindowSize = 7
    Byte = {"CR", "LF", "x", "y", "z"}
    CR = "CR"
    LF = "LF"
    FreshByte = {"x", "LF"}
    Line <- MCLine
    Receiver = {r1}
    None = None
    MaxPosition = 20
    MaxDepth = 3
SPECIFICATION AttachedSpec
PROPERTIES
    ImplementsChannel
    EveryLineArrives
CHECK_DEADLOCK FALSE
