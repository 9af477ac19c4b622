SPECIFICATION FairSpec
CONSTANTS
    Runs = {r1, r2}
    NoRun = NoRun
    Requests = {q1}
    MaxAttempts = 1
    WindowElapses = TRUE
    Observers = {}
    Edits = {"manual", "automatic"}
PROPERTIES
    IsSupervised
    StoppedIsReaped
    CrashIsAnswered
