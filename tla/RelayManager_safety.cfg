SPECIFICATION Spec
CONSTANTS
    Runs = {r1, r2}
    NoRun = NoRun
    Requests = {q1, q2}
    MaxRestarts = 1
    WindowElapses = TRUE
    DiskFails = TRUE
    Handlers = {"start", "stop", "restart", "upsert", "rotate", "client", "delete"}
    Events = {}
SYMMETRY Symmetry
INVARIANTS
    NoLostWorker
    PidIsOwned
PROPERTIES
    IsSupervised
