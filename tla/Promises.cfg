SPECIFICATION Spec
CONSTANTS
    p1 = p1
    p2 = p2
    p3 = p3
    p4 = p4
    p5 = p5
    None = None
    Plain = Plain
    Promises = {p1, p2, p3, p4, p5}
    HandlerSets <- MCHandlerSets
    MaxInputs = 2
    MaxSize = 7
SYMMETRY Symmetry
INVARIANT AnswerIsComing
INVARIANT CancelGoesUp
INVARIANT OnlyRechainingRepeats
INVARIANT AllOrNothing
INVARIANT OneFramePerPromise
INVARIANT LinksReleased
PROPERTY StatesAreOneWay
