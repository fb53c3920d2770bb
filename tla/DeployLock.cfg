CONSTANTS
    Proc = {p1, p2, p3}
    Ofd = {o1, o2, o3, o4}
    NoOfd = NoOfd
    NoProc = NoProc
    CanStick = FALSE
    MaxPushes = 2
    MaxCrashes = 1
SPECIFICATION Spec
SYMMETRY Symmetry
INVARIANTS
    TypeOK
    MutualExclusion
