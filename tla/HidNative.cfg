SPECIFICATION ThreeCallsSpec
CONSTANTS
    o1 = o1
    o2 = o2
    n1 = n1
    n2 = n2
    e1 = e1
    Opens <- TwoOpens
    Enums <- TwoEnums
    Endpoints <- OneEndpoint
    maxConnections = 2
    maxNativeBytes = 6
    connectionBytes = 3
    enumerationBytes = 4
INVARIANTS
    ExclusiveEndpoint
    NoOrphanConnection
    BudgetIsExact
    NothingLeaks
PROPERTIES
    WaitingEnumReturns
