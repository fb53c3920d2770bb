CONSTANTS
    b = b
    r = r
    p = p
    c = c
    Built = {b, r}
    Remote = {r}
    Pinned = {p}
    Reloaded = {c}
    BUILD_RETRIES = 1
    MaxPushes = 2
    MaxFaults = 3
    MaxKills = 1
SPECIFICATION FairSpec
INVARIANTS
    NothingForgotten
    AttemptsBounded
    StatusHonest
PROPERTY HealsItself
