SPECIFICATION Spec
CONSTANTS
    Node = {1, 2, 3, 4}
    Searcher = {s1}
    MaxSearches = 2
CHECK_DEADLOCK FALSE
INVARIANTS
    FoundIfConnected
PROPERTY SearchReturns
