SPECIFICATION Spec
CONSTANTS
    N = 5
    Trees <- SoloTree
    MaxConstraints = 1
    MaxSteps = 2
    MaxChanges = 1
INVARIANT ConstraintsFollowCollapse
