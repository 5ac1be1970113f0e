\* One host with two ages of its location: everything that can happen to it.
\* The service really stops, and nothing happens after that.
SPECIFICATION FairSpec
CONSTANTS
    h1 = h1
    None = None
    Hosts <- MCHosts
    Ids <- MCIds
    Kinds <- MCKinds
    MaxClock = 2
CHECK_DEADLOCK FALSE
INVARIANTS
    OnlyPresentHosts
    CacheKeepsUp
PROPERTIES
    AnswersAreStored
    EveryLookupEnds
