SPECIFICATION Safety
CONSTANTS
    t1 = t1
    t2 = t2
    o1 = o1
    o2 = o2
    w1 = w1
    w2 = w2
    Tasks = {t1, t2}
    Owners = {o1, o2}
    OwnerOf <- MCOwnerOf
    Workers = {w1, w2}
    NoTask = NoTask
    NoOwner = NoOwner
    MaxCallbacks = 1
    MaxNesting = 2
    MaxCancels = 0
PROPERTY HasPendingWorkIsExact
CHECK_DEADLOCK FALSE
