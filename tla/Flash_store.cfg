SPECIFICATION FairSpec
CONSTANTS
    PageCells = 4
    WordCells = 2
    Size = 8
    Items <- Places
    At <- Beginning
    Length <- Extent
    StateItem = "state"
    PointerItem = "pointer"
    MaxRequests = 3
    MaxFaults = 2
INVARIANTS AnsweredIsKept
PROPERTIES WritesAreIsolated RequestsAnswered
