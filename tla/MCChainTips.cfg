SPECIFICATION TipsSpec
CONSTANTS
  None = None
  k1 = k1
  k2 = k2
  w1 = w1
  w2 = w2
  d = d
  Keys <- MCKeys
  Readers <- MCReaders
  Workers <- MCWorkers
  Dashboard = d
  Reads <- MCReads
  Flights <- MCFlights
  Tips <- MCTips
  FailureLimit = 1
  LruLimit = 1
INVARIANTS
    OneLoadPerKey
    StorageIsBounded
PROPERTIES
    TipsEnd
