SPECIFICATION Spec
CONSTANTS
    NumBillion = 10
    UINT64 = 4096
    MaxDouble = 100000
    Zone = 3600
    MaxDigits = 2
    MaxWord = 6
    MaxName = 3
    MaxPart = 2
    MaxElapsed = 5
    MaxDividend = 4
    MaxDivisor = 2
    InsertAbsolute = 4
    MinInt64 = MinInt64
    MaxText = 3
    MaxBytes = 8
    MaxWords = 15
    MaxValues = 10
    Strings = {a, b}
    MaxBlocks = 4
    MaxLength = 2
    WordSize = 2
    MaxOutlived = 1
INVARIANT QuotientAgrees
CHECK_DEADLOCK FALSE
