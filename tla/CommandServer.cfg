SPECIFICATION ServerSpec
CONSTANTS
    f1 = f1
    f2 = f2
    a1 = a1
    a2 = a2
    s1 = s1
    s2 = s2
    v1 = v1
    v2 = v2
    None = None
    Files = {f1}
    Artboards = {a1, a2}
    StateMachines = {s1, s2}
    ViewModels = {v1, v2}
    image1 = image1
    image2 = image2
    font1 = font1
    image = image
    font = font
    n1 = n1
    n2 = n2
    n3 = n3
    NoAsset = NoAsset
    Kinds = {image, font}
    Assets = {image1, image2, font1}
    KindOf <- MCKindOf
    Names = {n1, n2, n3}
SYMMETRY Symmetry
INVARIANT MachinesHaveArtboards
INVARIANT KnownIsLive
INVARIANT ResolvesLast
PROPERTY FailureIsClean
PROPERTY DeletionsAreTold
