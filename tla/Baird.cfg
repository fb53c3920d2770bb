CONSTANTS
    AtHand = {"lists", "passes"}
    Listed = {"l"}
    Pages = {"u"}
    Links = {"1", "2"}
    Linking <- MCLinking
    Channels = {"c"}
    Category <- MCCategory
    Country <- MCCountry
    Alive = {"c"}
    MaxMoves = 1
    MaxEdits = 2
    MaxTicks = 1
    MaxFailures = 1
    MaxUnsaved = 1
    Channel = {"A", "B"}
    Source = {"x", "y", "z"}
    Group = {"g", "h"}
    Carries <- MCCarries
    In <- MCIn
    Answers <- MCAnswers
    For = 3
    MaxKept = 1
    MaxReads = 4
    MaxSwitches = 1
SPECIFICATION PartsSpec
INVARIANTS
    GroupsAreDecided
    CarriedGoIn
    IdleListIsCurrent
PROPERTIES
    KeptAreTheBest
    FailuresDropNothing
\* The reads, the moves and the choices are bounded.
CHECK_DEADLOCK FALSE
