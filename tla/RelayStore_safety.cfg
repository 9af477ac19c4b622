SPECIFICATION Spec
CONSTANTS
    c1 = c1
    RelayIds = {r1, r2}
    ClientIds = {c1}
    NoClient = NoClient
    RelayRequests <- MCRelayRequests
    ClientRequests <- MCClientRequests
    MaxVersion = 2
    MaxFailures = 1
SYMMETRY Symmetry
INVARIANTS
    WorkerCanStart
    OnlyStrandedRejected
    CredentialOnce
    CredentialTold
PROPERTIES
    IsDurable
