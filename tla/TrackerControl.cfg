CONSTANTS
    Tiers <- MCTiers
    NoCeiling = NoCeiling
    None = None
    Headrooms <- MCHeadrooms
    Spaces <- MCSpaces
    Floor = 1
    Earning <- MCEarning
    Size <- MCSize
    HoldFloor = 2
    HoldMax = 4
    MaxMoves = 1
    MaxHands = 1
    MaxRestarts = 1
    MaxFaults = 1
SPECIFICATION FairSpec
INVARIANTS
    PublishedIsTrue
    HoldIsFull
PROPERTIES
    ResumesWithMargin
    KnobsSettle
