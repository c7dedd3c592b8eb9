SPECIFICATION FairSpec
CONSTANTS
    s1 = s1
    s2 = s2
    a1 = a1
    a2 = a2
    p1 = p1
    p2 = p2
    Server = Server
    None = None
    Machines = {s1, s2}
    Artboards = {a1, a2}
    ArtboardOf <- MCArtboardOf
    Threads = {p1, p2}
INVARIANT HeldIsAlive
INVARIANT DestructorNeverWaits
PROPERTY EventsReturn
