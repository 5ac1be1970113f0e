SPECIFICATION Spec
CONSTANTS
  t1 = t1
  t2 = t2
  Tabs <- MCTabs
  MayClose <- MCMayClose
  NoTab = NoTab
  MaxEvents = 4
INVARIANTS
    RunsOnce
    PromptServes
PROPERTIES
    NoAccessAcrossLock
    LocksResolve
CHECK_DEADLOCK FALSE
