SPECIFICATION CommandSpec
CONSTANTS
    k1 = k1
    k2 = k2
    k3 = k3
    NoSerial = NoSerial
    Keys <- TwoKeys
    Ports <- KeyPorts
    Transport <- KindOfKey
    Product <- OneProduct
    Serial <- Serials
    Faulty = {"usb"}
    MaxPlugs = 1
INVARIANT RemovalIsProved
