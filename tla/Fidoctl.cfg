SPECIFICATION FairCommandSpec
CONSTANTS
    k1 = k1
    k2 = k2
    k3 = k3
    NoSerial = NoSerial
    Keys <- ThreeKeys
    Ports <- KeyPorts
    Transport <- KindOfKey
    Product <- OneProduct
    Serial <- Serials
    Faulty = {"nfc"}
    MaxPlugs = 1
INVARIANTS
    OpensWhatItListed
    SuccessIsReal
    ResetNeedsRemoval
PROPERTIES
    CancelledCommandReturns
    PollingEnds
