SPECIFICATION Spec
CONSTANTS
    h1 = h1
    h2 = h2
    h3 = h3
    l1 = l1
    l2 = l2
    l3 = l3
    None = None
    Break = Break
    Handles = {h1, h2}
    Listeners = {l1, l2, l3}
    MaxMessages = 2
    MaxReentries = 1
INVARIANT ListenersAreBound
INVARIANT MarksMatchCalls
PROPERTY ProcessReturns
