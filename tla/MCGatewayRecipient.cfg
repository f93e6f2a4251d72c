SPECIFICATION Spec
CONSTANTS
    Sender = {}
    PlugNode = {n1, n2}
    n1 = n1
    n2 = n2
    FreshFlags = {FALSE}
    MaxSockets = 2
    MaxInfos = 1
    MaxTrials = 0
    None = None
PROPERTY ForwardedToAddressee
CHECK_DEADLOCK FALSE
