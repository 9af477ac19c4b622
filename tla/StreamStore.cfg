SPECIFICATION Spec
CONSTANTS
    StreamIds = {s1}
    UserNames = {admin, u1}
    Admin = admin
    p1 = p1
    ProfileNames = {builtin, p1}
    DefaultProfile = builtin
    StreamRequests <- MCStreamRequests
    ProfileRequests <- MCProfileRequests
    Secrets = {k1, k2}
    NoSecret = NoSecret
    MaxStamp = 2
    MaxFailures = 1
SYMMETRY Symmetry
INVARIANTS
    FileLoads
    TokensFollowPassword
PROPERTIES
    IsDurable
