SPECIFICATION MCSpec
CONSTANTS
    Lines <- MCLines
    Addresses <- MCAddresses
    Values <- MCValues
    Timestamp <- MCTimestamp
    MaxCalls = 4
    UURI <- MCUURI
    NewTexts <- MCNewTexts
    MaxItems = 3
    MaxNewer = 1
    MaxChanges = 1
INVARIANTS Navigable Written SettingsFound SettingsRestored
CHECK_DEADLOCK FALSE
