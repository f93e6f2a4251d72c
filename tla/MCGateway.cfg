SPECIFICATION Spec
CONSTANTS
    Sender = {s1}
    s1 = s1
    PlugNode = {n1}
    n1 = n1
    FreshFlags = {FALSE, TRUE}
    MaxSockets = 2
    MaxInfos = 1
    MaxTrials = 0
    None = None
INVARIANT ListAlive RemovedOnlyIfFinished IdleRemoved
PROPERTY LockFreed
CHECK_DEADLOCK FALSE
