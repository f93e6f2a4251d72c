\* Registration may come and go at any time, in and out of callbacks.
CONSTANTS
    WindowSize = 6
    Byte = {"CR", "LF", "x", "y", "z"}
    CR = "CR"
    LF = "LF"
    FreshByte = {"LF"}
    Line <- MCLine
    Receiver = {r1}
    None = None
    MaxPosition = 16
    MaxDepth = 2
SPECIFICATION Spec
INVARIANTS
    TypeOK
    PositionsOrdered
    UnreadBytesKept
    DelimiterFound
PROPERTY ReadsOneLine
