CONSTANTS
    Proc = {p1, p2}
    Ofd = {o1, o2, o3, o4}
    NoOfd = NoOfd
    NoProc = NoProc
    CanStick = TRUE
    MaxPushes = 1
    MaxCrashes = 0
SPECIFICATION FairSpec
PROPERTY DeploysGoOn
INVARIANT PushIsOnAList
