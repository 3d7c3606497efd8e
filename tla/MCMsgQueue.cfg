CONSTANTS
    Sender = {s1, s2}
    Receiver = {r1, r2}
    NoThread = NoThread
    Selector = r1
    Limits = {0, 1, 2}
    PipeSize = 3
    MaxMsg = 3
SPECIFICATION Spec
INVARIANTS PlacesKept SelectFindsMessage
PROPERTIES ImplementsFifo Delivered
CHECK_DEADLOCK FALSE
