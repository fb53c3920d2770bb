CONSTANTS
    AtHand = {"plan", "ledger", "media"}
    Codecs <- MCCodecs
    Incompatible <- MCIncompatible
    Languages <- MCLanguages
    Channels <- MCChannels
    Targets <- MCTargets
    MaxTracks = 3
    MaxConversions = 3
    Clients <- MCClients
    Profile <- MCProfile
    Files <- MCFiles
    File <- MCFile
    Plays <- MCPlays
    Listed <- MCListed
    LedgerLimit = 2
    CacheLimit = 0
    MaxPlays = 2
    MaxPolls = 2
    LedgerFailures = 1
    Films = {"a", "b"}
    Ratio = {"a"}
    Low = {"b"}
    Bytes <- MCBytes
    MinOrphan = 2
    MaxMoves = 1
    MaxFailures = 1
SPECIFICATION MCSpec
INVARIANTS
    TwinsAgree
    PlanIsAccepted
    EveryTrackStays
    EveryLanguagePlays
    LearnedFromRefusals
    DecisionsFollow
    CalmPassIsTrue
    UsageAddsUp
\* A file that needs nothing is left alone; plays and polls are bounded.
CHECK_DEADLOCK FALSE
