SPECIFICATION Spec
CONSTANTS
    Runs = {r1, r2}
    NoRun = NoRun
    Requests = {q1}
    MaxAttempts = 1
    WindowElapses = TRUE
    Observers = {"reader", "monitor"}
    Edits = {"disabled", "automatic"}
SYMMETRY Symmetry
INVARIANTS
    NoLostProcess
    ManualStopIsFinal
    RunningHasPid
    FailureIsExplained
PROPERTIES
    StopMeansDead
