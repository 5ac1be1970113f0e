\* Two readers and two loads, a change of the source, an invalidation and a clock
\* that lets entries expire: who shares and joins what, who cancels, and what a
\* reader may be told.
SPECIFICATION Spec
CONSTANTS
    r1 = r1
    r2 = r2
    f1 = f1
    f2 = f2
    None = None
    Readers <- MCReaders
    Flights <- MCFlights
    TTL = 1
    FAILURE_TTL = 1
    FromCompletion = FALSE
    MaxTime = 1
    MaxVersion = 1
    MaxGeneration = 1
INVARIANTS
    ReadersKeepFlight
    PendingIsWanted
PROPERTIES
    ImplementsFreshRead
