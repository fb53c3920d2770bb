CONSTANTS
    AtHand = {"crossSeed"}
    Linger = 4
    MaxPlays = 0
    MaxHand = 0
    MaxRestarts = 0
    MaxLost = 0
    QuietFailures = 0
    t1 = t1
    t2 = t2
    Order <- MCOrder
    Refused = {}
    MaxPresses = 0
    CrossSeedFailures = 1
    CrossSeedRestarts = 0
    Series = {"one"}
    Cold = {"c1"}
    MaxChanges = 0
    MaxVisits = 0
    MaxFailures = 0
    Library <- MCLibrary
    Batch = 4
    Wishes <- MCWishes
    Episodes <- MCEpisodes
    Margin = 2
    RecentLimit = 1
    Starts <- MCStarts
    Watches <- MCWatches
    MaxHooks = 0
    WatchFailures = 1
SPECIFICATION PartsSpec
INVARIANT StartupIsNoBurst
\* With every torrent tagged the sweeps find nothing to do.
CHECK_DEADLOCK FALSE
