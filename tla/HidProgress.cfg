SPECIFICATION OneKindSpec
CONSTANTS
    r1 = r1
    r2 = r2
    w1 = w1
    w2 = w2
    c1 = c1
    Readers <- OneReader
    Writers <- OneWriter
    Closers <- OneCloser
    QueueSize = 1
    MaxReports = 1
PROPERTIES
    CancelledCallReturns
    ParkedCallReturns
    ImplementsFairLifecycle
