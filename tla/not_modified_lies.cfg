SPECIFICATION FairSpec
CONSTANTS
    MaxClock = 3
    NoEtag = NoEtag
INVARIANT
    NotModifiedMeansUnchanged
