SPECIFICATION Spec
CONSTANTS
  Modes <- MCModes
  MaxStamp = 2
  MaxEvents = 3
INVARIANTS
    NothingAfterLock
    RatesAreLive
PROPERTIES
    LockedPagesReopen
    ExpiredViewCloses
CHECK_DEADLOCK FALSE
