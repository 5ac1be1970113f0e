SPECIFICATION Spec
CONSTANTS
  None = None
  Names <- MCNames
  Selections <- MCSelections
  Balances <- MCBalances
  MaxEvents = 4
INVARIANTS
    EditsReconcile
    PrivateWhileUnlocked
PROPERTIES
    Converges
CHECK_DEADLOCK FALSE
