\* Six PlugNodes, one more than the contact has connections for, created and
\* destroyed in every order, the contact included; and fourteen, when none leaves.
CONSTANTS
    MaxNodes = 6
    MaxGrown = 14
SPECIFICATION Spec
INVARIANTS
    PeersCountedUncrowded
    LinksSymmetric
    OnlyLivingUsed
    CommandsStayWhole
    AddressesValidUncrowded
    AllFoundUncrowded
    StaysConnected
PROPERTY EveryCallReturns
CHECK_DEADLOCK FALSE
