SPECIFICATION LoneRetrySpec
CONSTANTS
    x1 = x1
    x2 = x2
    c1 = c1
    Exchanges <- TwoExchanges
    Closers <- OneCloser
    Packets = 1
    hidInitBusyRetries = 1
    MaxNoise = 0
    MaxSessions = 1
PROPERTIES
    ExchangesEnd
