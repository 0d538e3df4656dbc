SPECIFICATION Spec
CONSTANTS
    r1 = r1
    r2 = r2
    w1 = w1
    w2 = w2
    c1 = c1
    Readers <- TwoReaders
    Writers <- TwoWriters
    Closers <- OneCloser
    QueueSize = 2
    MaxReports = 3
CONSTRAINT Mixes
SYMMETRY CallSymmetry
INVARIANTS
    FifoDelivery
    RetiredForCause
    OneNativeWrite
    WriteEvidence
    CloseMeansClean
PROPERTIES
    ImplementsLifecycle
