CONSTANTS
    AtHand = {"quiet", "crossSeed", "links", "zip", "watch"}
    Linger = 4
    MaxPlays = 3
    MaxHand = 2
    MaxRestarts = 1
    MaxLost = 1
    QuietFailures = 2
    t1 = t1
    t2 = t2
    Order <- MCOrder
    Refused = {}
    MaxPresses = 1
    CrossSeedFailures = 2
    CrossSeedRestarts = 1
    Series = {"one"}
    Cold = {"c1"}
    MaxChanges = 1
    MaxVisits = 2
    MaxFailures = 1
    Library <- MCLibrary
    Batch = 4
    Wishes <- MCWishes
    Episodes <- MCEpisodes
    Margin = 2
    RecentLimit = 1
    Starts <- MCStarts
    Watches <- MCWatches
    MaxHooks = 2
    WatchFailures = 1
SPECIFICATION FairSpec
INVARIANTS
    TagsAreTrue
    ZipHoldsWhatCame
    NextAreFetched
    GatewayIsCurrent
PROPERTIES
    HandKept
    QuietWhileWatching
    LimitsLifted
    EveryTorrentIsTagged
    NeverGoesBack
    VisitRefreshes
\* A zip ends, hooks and visits are bounded, and a sweep may find nothing to do.
CHECK_DEADLOCK FALSE
