SPECIFICATION Spec
CONSTANTS
    Units <- MCUnits
    LevelPeriods <- MCLevelPeriods
    DefaultPeriod = 2
    Times = {1003, 1004}
    FileNames = {"a", "a.csv"}
    Extended = {"a.csv"}
    FilePeriods = {0}
    SeqNums = {0, 1}
    Headers = {"h"}
    StreamLengths = {}
    Now = 1003
    Obstacles = {0, 1, 3, 4}
    None = None
    MaxRows = 2
INVARIANTS FilesWhole StreamComplete
CHECK_DEADLOCK FALSE
