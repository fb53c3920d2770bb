CONSTANTS
    Proc = {p1, p2, p3}
    Ofd = {o1, o2, o3, o4, o5}
    NoOfd = NoOfd
    NoProc = NoProc
    CanStick = TRUE
    MaxPushes = 2
    MaxCrashes = 0
SPECIFICATION Spec
SYMMETRY Symmetry
INVARIANT MutualExclusion
