CONSTANTS
    b = b
    r = r
    p = p
    c = c
    Built = {b, r}
    Remote = {r}
    Pinned = {p}
    Reloaded = {c}
    BUILD_RETRIES = 1
    MaxPushes = 1
    MaxFaults = 2
    MaxKills = 0
SPECIFICATION Spec
INVARIANT AlertStands
