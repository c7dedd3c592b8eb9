SPECIFICATION Spec
CONSTANTS
    N = 5
    Trees <- AllTrees
    MaxConstraints = 1
    MaxSteps = 2
    MaxChanges = 2
INVARIANT OrderRespectsDependents
INVARIANT DirtIsAnnounced
INVARIANT WorldsAreRight
INVARIANT SoloShowsOne
