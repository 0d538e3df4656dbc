SPECIFICATION Spec
CONSTANTS
    x1 = x1
    x2 = x2
    c1 = c1
    Exchanges <- TwoExchanges
    Closers <- OneCloser
    Packets = 2
    hidInitBusyRetries = 2
    MaxNoise = 1
    MaxSessions = 2
CONSTRAINT Mixes
SYMMETRY Symmetries
INVARIANTS
    ResponseIsOwn
    EvidenceIsSound
    NoStaleEcho
PROPERTY SessionEndsForCause
