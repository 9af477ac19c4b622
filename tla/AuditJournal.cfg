SPECIFICATION Spec
CONSTANTS
    r1 = r1
    r2 = r2
    c1 = c1
    AnyValue = AnyValue
    Garbage = Garbage
    Tags <- MCTags
    Filters <- MCFilters
    Retention = 1
    DefaultLimit = 2
    TopLimit = 3
    MaxDay = 3
    MaxEvents = 4
    MaxBroken = 1
INVARIANTS
    ListIsNewest
    KeptForRetention
    ClearExact
