CONSTANTS
    e1 = e1
    e2 = e2
    Lib = {e1, e2}
    NoFile = NoFile
    MaxPresses = 2
    MaxCancels = 1
    MaxFaults = 2
    MaxNights = 1
    MaxRemuxes = 2
SPECIFICATION FairSpec
INVARIANTS
    TakesItsOwnName
    CancelledStaysOut
    QueuedIsRun
PROPERTIES
    KeepsThePromise
    QueueDrains
\* Nothing is left to do once no press, night or restart remains.
CHECK_DEADLOCK FALSE
