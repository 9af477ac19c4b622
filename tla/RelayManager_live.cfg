SPECIFICATION FairSpec
CONSTANTS
    Runs = {r1, r2}
    NoRun = NoRun
    Requests = {q1}
    MaxRestarts = 1
    WindowElapses = TRUE
    DiskFails = FALSE
    Handlers = {"start", "stop", "client"}
    Events = {"ready", "metrics"}
INVARIANTS
    FlappingIsRetried
PROPERTIES
    StoppedIsReaped
