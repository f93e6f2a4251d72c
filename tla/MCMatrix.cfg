SPECIFICATION MCSpec
CONSTANTS
    Size4k = 2
    Indices <- ThreeLevels
    Numbers = {7}
    Texts = {s}
    Memory = {m1, m2}
    Free = Free
    Nothing = Nothing
    MaxIndex = 1
    Styles = {7}
    Default = Default
    Standard = 5
    MaxItem = 1
    MaxPoints = 2
    Halves <- MCHalves
INVARIANTS TextsOwned ChartShown ReadsAgree
PROPERTY ImplementsIndexedValues
CHECK_DEADLOCK FALSE
