SPECIFICATION FairSpec
CONSTANTS
    MaxClock = 3
    NoEtag = NoEtag
INVARIANTS
    PollingInv
    NothingIsMissed
PROPERTIES
    TheEtagMoves
    ClientCatchesUp
