\* Every combination of preferences, changed one at a time, with crashes.
SPECIFICATION FairRuntimeSpec
INVARIANTS
    ScheduleKept
    OnlyWhilePermitted
    SavedIsInForce
PROPERTIES
    ProbingResumes
