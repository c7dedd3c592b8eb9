SPECIFICATION Spec
CONSTANTS
    s1 = s1
    s2 = s2
    None = None
    Sources = {s1, s2}
    Count = 5
    kind <- kinds
    source <- sources
    SourceFirst <- first
    Hides <- hides
    Mirrors <- mirrors
    Values = {0, 1, 2}
    MaxChanges = 3
INVARIANT DirtyIsQueued
INVARIANT RestMeansAgreement
PROPERTY NoEcho
PROPERTY Settles
