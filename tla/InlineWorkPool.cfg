SPECIFICATION InlineSafety
CONSTANTS
    t1 = t1
    t2 = t2
    t3 = t3
    t4 = t4
    o1 = o1
    o2 = o2
    Tasks = {t1, t2, t3, t4}
    Owners = {o1, o2}
    OwnerOf <- MCOwnerOf
    NoTask = NoTask
    MaxCallbacks = 2
    MaxNesting = 2
INVARIANT HasPendingWorkSeesAll
INVARIANT AnsweredInOrder
PROPERTY ImplementsDelivery
CHECK_DEADLOCK FALSE
