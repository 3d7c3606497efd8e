SPECIFICATION MCSpec
CONSTANTS
    Thread = {http, usb}
    Value = {v1, v2}
    builtin = v1
    Prd = Prd
    Main = Main
    NoThread = NoThread
    Spoilt = Spoilt
    Erased = Erased
    MaxCuts = 1
    MaxRequests = 2
SYMMETRY Threads
PROPERTIES
    FactoryResetAlwaysTakes
