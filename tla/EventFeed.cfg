SPECIFICATION FairSpec
CONSTANTS
    StreamIds = {a}
    Loggers = {a, b}
    Configs = {c1, c2}
    Capacity = 2
    MaxLogsPerStream = 1
    MaxChanges = 3
    MaxBreaks = 1
INVARIANTS
    PageIsCurrent
PROPERTIES
    NoisyIsContained
    PageCatchesUp
