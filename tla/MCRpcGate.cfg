\* Two slots, two places in the queue and five callers: slots taken, a queue
\* whose order matters and a caller turned away, all at once.
SPECIFICATION FairSpec
CONSTANTS
    c1 = c1
    c2 = c2
    c3 = c3
    c4 = c4
    c5 = c5
    Callers <- MCCallers
    RPC_CONCURRENCY = 2
    RPC_QUEUE_LIMIT = 2
INVARIANTS
    SlotsAccounted
PROPERTIES
    CancelledNeverDispatches
    ImplementsAdmission
    EveryCallEnds
