SPECIFICATION Spec
CONSTANTS
  Poll = Poll
  Nobody = Nobody
  Wallets <- MCWallets
  Catalogs <- MCCatalogs
  Selections <- MCSelections
  Outcomes <- MCOutcomes
  Files <- MCFiles
  MaxWrites = 2
  MaxCrashes = 1
INVARIANTS
    LastSuccessStands
    AnswersPersist
    RoundRobin
PROPERTIES
    WritesEnd
